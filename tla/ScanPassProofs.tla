---------------------------- MODULE ScanPassProofs -----------------------------
(***************************************************************************)
(* What one pass reports is a lock that pays, for every event, order book, *)
(* price, size, fee rate and declared relation, in four steps.             *)
(*                                                                         *)
(* The joint walk of the books is as good as trading share by share: all   *)
(* books, however unsorted, any number of legs and levels (DepthWalk).     *)
(* A detector is the opportunities of some trades of a snapshot, and what  *)
(* a pass reports is always the opportunity of such a trade, in some mix   *)
(* of the books it saw.  Two trades of a snapshot may exclude each other.  *)
(* A structural trade pays what it is worth at every resolution that the   *)
(* promises of the world (IsFate) and the closing prices leave open.       *)
(***************************************************************************)
EXTENDS DepthWalk, ScanPass, CollectionTheorems

RealQuote == [price : Nat \ {0}, size : Nat \ {0}]

Key(side, levels) ==
    [i \in ValidAt(levels) |-> IF side = "buy" THEN levels[i].price ELSE -levels[i].price]

\* The levels that count.
LEMMA ValidLevels ==
    ASSUME NEW levels \in Seq(Quote), NEW side
    PROVE  /\ ValidAt(levels) \in SUBSET DOMAIN levels
           /\ IsFiniteSet(ValidAt(levels)) /\ ValidAt(levels) \subseteq Int
           /\ Cardinality(ValidAt(levels)) \in Nat
           /\ \A i \in ValidAt(levels) : levels[i] \in RealQuote
           /\ \A i \in ValidAt(levels) : Key(side, levels)[i] \in Int
<1>1. DOMAIN levels = 1 .. Len(levels) /\ Len(levels) \in Nat
  OBVIOUS
<1>2. IsFiniteSet(DOMAIN levels) /\ DOMAIN levels \subseteq Int
  BY <1>1, FS_Interval
<1>3. ValidAt(levels) \in SUBSET DOMAIN levels
  BY DEF ValidAt
<1>4. IsFiniteSet(ValidAt(levels))
  BY <1>2, <1>3, FS_Subset
<1>5. ASSUME NEW i \in ValidAt(levels)
      PROVE  levels[i] \in RealQuote /\ Key(side, levels)[i] \in Int
  <2>1. levels[i] \in Quote /\ levels[i].size > 0 /\ levels[i].price > 0
    BY <1>1 DEF ValidAt
  <2> QED
    BY <2>1 DEF Quote, RealQuote, Key
<1> QED
  BY <1>2, <1>3, <1>4, <1>5, FS_CardinalityType

\* A sorted leg: real levels, the best first.
Ladder(side, L) ==
    /\ L \in Seq(RealQuote)
    /\ \A m, n \in DOMAIN L : m < n => Better(side, L[m].price, L[n].price)

LEMMA SortedIsLadder ==
    ASSUME NEW levels \in Seq(Quote), NEW side
    PROVE  /\ Ladder(side, Sorted(side, levels))
           /\ Len(Sorted(side, levels)) = Cardinality(ValidAt(levels))
<1> DEFINE keep == ValidAt(levels)
           key == Key(side, levels)
           N == 1 .. Cardinality(keep)
           L == Sorted(side, levels)
<1>1. /\ IsFiniteSet(keep) /\ keep \subseteq Int /\ Cardinality(keep) \in Nat
      /\ \A i \in keep : levels[i] \in RealQuote /\ key[i] \in Int
  BY ValidLevels
<1>2. L = Arranged(levels, keep, key)
  BY DEF Sorted, Key
<1>3. \A n \in N : key[Placed(keep, key, n)]
                    = IF side = "buy" THEN levels[Placed(keep, key, n)].price
                      ELSE -levels[Placed(keep, key, n)].price
  <2>1. \A n \in N : Placed(keep, key, n) \in keep
    <3> HIDE DEF keep, key
    <3> QED
      BY <1>1, PlaceReached
  <2> QED
    BY <2>1 DEF Key
<1>4. N = 1 .. Cardinality(keep)
  OBVIOUS
<1>5. L = [n \in N |-> levels[Placed(keep, key, n)]]
  BY <1>2 DEF Arranged, Placed
<1> HIDE DEF keep, key, N, L
<1>6. \A n \in N : Placed(keep, key, n) \in keep
  BY <1>1, <1>4, PlaceReached
<1>7. L \in [N -> RealQuote]
  BY <1>1, <1>5, <1>6
<1>8. L \in Seq(RealQuote) /\ Len(L) = Cardinality(keep) /\ DOMAIN L = N
  BY <1>1, <1>4, <1>7
<1>9. ASSUME NEW m \in N, NEW n \in N, m < n
      PROVE  Better(side, L[m].price, L[n].price)
  <2> DEFINE i == Placed(keep, key, m)
             j == Placed(keep, key, n)
  <2>1. key[i] < key[j] \/ (key[i] = key[j] /\ i < j)
    BY <1>1, <1>4, <1>9, ArrangedOrder
  <2>2. /\ L[m] = levels[i] /\ L[n] = levels[j] /\ levels[i] \in RealQuote /\ levels[j] \in RealQuote
        /\ key[i] = (IF side = "buy" THEN levels[i].price ELSE -levels[i].price)
        /\ key[j] = (IF side = "buy" THEN levels[j].price ELSE -levels[j].price)
    BY <1>1, <1>3, <1>5, <1>6
  <2> HIDE DEF i, j
  <2>3. levels[i].price \in Nat /\ levels[j].price \in Nat
    BY <2>2 DEF RealQuote
  <2>4. key[i] <= key[j]
    BY <2>1, <2>2, <2>3
  <2>5. Better(side, levels[i].price, levels[j].price)
    BY <2>2, <2>3, <2>4 DEF Better
  <2> QED
    BY <2>2, <2>5
<1>10. Ladder(side, L)
  BY <1>8, <1>9 DEF Ladder
<1> QED
  BY <1>8, <1>10 DEF L, keep

\* Sums over the valid levels do not depend on their order.
LEMMA SortedSums ==
    ASSUME NEW levels \in Seq(Quote), NEW side,
           NEW amount, \A i \in ValidAt(levels) : amount[levels[i]] \in Int,
           NEW v, v = [k \in DOMAIN Valid(levels) |-> amount[Valid(levels)[k]]],
           NEW l, l = [k \in DOMAIN Sorted(side, levels) |-> amount[Sorted(side, levels)[k]]]
    PROVE  SumFunction(v) = Total(l, DOMAIN l)
<1> DEFINE keep == ValidAt(levels)
           key == Key(side, levels)
           none == [i \in keep |-> 0]
           N == 1 .. Cardinality(keep)
           f == [i \in keep |-> amount[levels[i]]]
           V == Valid(levels)
           L == Sorted(side, levels)
<1>1. /\ IsFiniteSet(keep) /\ keep \subseteq Int /\ Cardinality(keep) \in Nat
      /\ \A i \in keep : key[i] \in Int
  BY ValidLevels
<1>2. \A i \in keep : none[i] \in Int
  OBVIOUS
<1>3. L = [n \in N |-> levels[Placed(keep, key, n)]]
  BY DEF Sorted, Key, Arranged, Placed
<1>4. V = [n \in N |-> levels[Placed(keep, none, n)]]
  BY DEF Valid, Selected, Arranged, Placed
<1>5. N = 1 .. Cardinality(keep)
  OBVIOUS
<1>6. \A i \in keep : f[i] \in Int /\ f[i] = amount[levels[i]]
  OBVIOUS
<1>7. v = [k \in DOMAIN V |-> amount[V[k]]] /\ l = [k \in DOMAIN L |-> amount[L[k]]]
  OBVIOUS
<1> HIDE DEF keep, key, none, N, f, V, L
<1>8. DOMAIN V = N /\ DOMAIN L = N
  BY <1>3, <1>4
<1>9. \A n \in N : Placed(keep, key, n) \in keep /\ Placed(keep, none, n) \in keep
  BY <1>1, <1>2, <1>5, PlaceReached
<1>10. v = [n \in N |-> f[Places(keep, none)[n]]]
  BY <1>4, <1>5, <1>6, <1>7, <1>8, <1>9 DEF Places
<1>11. l = [n \in N |-> f[Places(keep, key)[n]]]
  BY <1>3, <1>5, <1>6, <1>7, <1>8, <1>9 DEF Places
<1>12. Sortable(keep, none) /\ Sortable(keep, key)
  BY <1>1, <1>2 DEF Sortable
<1>13. ArrangedAs(v, f, keep, none) /\ ArrangedAs(l, f, keep, key)
  BY <1>5, <1>6, <1>10, <1>11 DEF ArrangedAs
<1>14. Total(v, DOMAIN v) = Total(f, keep) /\ Total(l, DOMAIN l) = Total(f, keep)
  BY <1>12, <1>13, ArrangedTotal
<1>15. SumFunction(v) = Total(v, DOMAIN v)
  BY SumIsTotal
<1> QED
  BY <1>13, <1>14, <1>15

\* The valid levels in the feed's order are those of the sorted leg.
LEMMA ValidRange ==
    ASSUME NEW levels \in Seq(Quote), NEW side
    PROVE  /\ \A i \in DOMAIN Valid(levels) : Valid(levels)[i] \in RealQuote
           /\ Range(Valid(levels)) = Range(Sorted(side, levels))
<1> DEFINE keep == ValidAt(levels)
           key == Key(side, levels)
           none == [i \in keep |-> 0]
           N == 1 .. Cardinality(keep)
           V == Valid(levels)
           L == Sorted(side, levels)
<1>1. /\ IsFiniteSet(keep) /\ keep \subseteq Int /\ Cardinality(keep) \in Nat
      /\ \A i \in keep : key[i] \in Int /\ levels[i] \in RealQuote
  BY ValidLevels
<1>2. \A i \in keep : none[i] \in Int
  OBVIOUS
<1>3. L = [n \in N |-> levels[Places(keep, key)[n]]]
  BY DEF Sorted, Key, Arranged, Placed, Places
<1>4. V = [n \in N |-> levels[Places(keep, none)[n]]]
  BY DEF Valid, Selected, Arranged, Placed, Places
<1> HIDE DEF key, none, V, L
<1>5. Renaming(Places(keep, key), N, keep) /\ Renaming(Places(keep, none), N, keep)
  <2> HIDE DEF keep
  <2> QED
    BY <1>1, <1>2, PlacesRename
<1> HIDE DEF N, keep
<1>6. Range(L) = {levels[i] : i \in keep}
  BY <1>3, <1>5 DEF Range, Renaming
<1>7. Range(V) = {levels[i] : i \in keep}
  BY <1>4, <1>5 DEF Range, Renaming
<1>8. \A i \in DOMAIN V : V[i] \in Range(V)
  BY DEF Range
<1>9. \A i \in DOMAIN V : V[i] \in RealQuote
  BY <1>1, <1>7, <1>8
<1> QED
  BY <1>6, <1>7, <1>9 DEF V, L

-----------------------------------------------------------------------------
(* A ladder: how many shares its first levels hold, and which level holds  *)
(* a share.                                                                *)

Sizes(L) == [j \in DOMAIN L |-> L[j].size]

Cum(L, k) == Total(Sizes(L), 1 .. k)

LEMMA LadderType ==
    ASSUME NEW side, NEW L, Ladder(side, L)
    PROVE  /\ Len(L) \in Nat /\ DOMAIN L = 1 .. Len(L) /\ IsFiniteSet(DOMAIN L)
           /\ \A k \in DOMAIN L : /\ L[k] \in RealQuote
                                  /\ L[k].price \in Nat \ {0} /\ L[k].size \in Nat \ {0}
                                  /\ Sizes(L)[k] = L[k].size
<1>1. Len(L) \in Nat /\ DOMAIN L = 1 .. Len(L) /\ \A k \in DOMAIN L : L[k] \in RealQuote
  BY DEF Ladder
<1>2. \A k \in DOMAIN L : Sizes(L)[k] = L[k].size
  BY DEF Sizes
<1>3. IsFiniteSet(1 .. Len(L))
  BY <1>1, FS_Interval
<1>4. \A k \in DOMAIN L : L[k].price \in Nat \ {0} /\ L[k].size \in Nat \ {0}
  BY <1>1 DEF RealQuote
<1> QED
  BY <1>1, <1>2, <1>3, <1>4

LEMMA CumNext ==
    ASSUME NEW side, NEW L, Ladder(side, L)
    PROVE  /\ Cum(L, 0) = 0
           /\ \A k \in 0 .. Len(L) : Cum(L, k) \in Nat
           /\ \A k \in 1 .. Len(L) : Cum(L, k) = Cum(L, k - 1) + L[k].size
<1> DEFINE n == Len(L)
           f == Sizes(L)
<1>1. n \in Nat /\ \A i \in 1 .. n : f[i] \in Nat /\ f[i] = L[i].size
  BY LadderType
<1>2. Cum(L, 0) = 0
  <2>1. 1 .. 0 = {}
    OBVIOUS
  <2> QED
    BY <2>1, TotalEmpty DEF Cum
<1> HIDE DEF n, f
<1>3. ASSUME NEW k \in 0 .. n
      PROVE  Total(f, 1 .. k) \in Nat
  <2>1. IsFiniteSet(1 .. k) /\ \A i \in 1 .. k : f[i] \in Nat
    BY <1>1, FS_Interval
  <2> QED
    BY <2>1, TotalNat
<1>4. ASSUME NEW k \in 1 .. n
      PROVE  Total(f, 1 .. k) = Total(f, 1 .. k - 1) + L[k].size
  <2> DEFINE j == k - 1
  <2>1. j \in Nat /\ k = j + 1 /\ \A i \in 1 .. j + 1 : f[i] \in Int
    BY <1>1
  <2> HIDE DEF j
  <2>2. Total(f, 1 .. j + 1) = Total(f, 1 .. j) + f[j + 1]
    BY <2>1, TotalUpTo
  <2>3. f[k] = L[k].size
    BY <1>1
  <2> QED
    BY <2>1, <2>2, <2>3 DEF j
<1> QED
  BY <1>2, <1>3, <1>4 DEF Cum, n, f

LEMMA CumMonotone ==
    ASSUME NEW side, NEW L, Ladder(side, L), NEW k \in 0 .. Len(L), NEW m \in 0 .. Len(L), m <= k
    PROVE  Cum(L, m) <= Cum(L, k)
<1> DEFINE f == Sizes(L)
           S == 1 .. k
           T == 1 .. m
<1>1. T \in SUBSET S /\ IsFiniteSet(S)
  BY FS_Interval
<1>2. \A i \in S : f[i] \in Nat
  BY LadderType
<1> HIDE DEF f, S, T
<1>3. Total(f, T) <= Total(f, S)
  BY <1>1, <1>2, TotalPart
<1> QED
  BY <1>3 DEF f, S, T, Cum

\* The level that holds the s-th share.
At(L, s) == CHOOSE k \in DOMAIN L : Cum(L, k - 1) < s /\ s <= Cum(L, k)

LEMMA AtExists ==
    ASSUME NEW side, NEW L, Ladder(side, L), NEW s \in Nat, 1 <= s, s <= Cum(L, Len(L))
    PROVE  At(L, s) \in DOMAIN L /\ Cum(L, At(L, s) - 1) < s /\ s <= Cum(L, At(L, s))
<1> DEFINE S == {k \in DOMAIN L : s <= Cum(L, k)}
           k == Min(S)
<1>1. Len(L) \in Nat /\ DOMAIN L = 1 .. Len(L) /\ IsFiniteSet(DOMAIN L)
  BY LadderType
<1>2. /\ Cum(L, 0) = 0
      /\ \A j \in 0 .. Len(L) : Cum(L, j) \in Nat
  BY CumNext
<1>3. Len(L) # 0
  BY <1>2
<1>4. Len(L) \in S
  BY <1>1, <1>3
<1>5. IsFiniteSet(S) /\ S \subseteq Int
  <2>1. S \in SUBSET DOMAIN L
    OBVIOUS
  <2> HIDE DEF S
  <2> QED
    BY <2>1, <1>1, FS_Subset
<1>6. k \in S /\ \A j \in S : k <= j
  <2> HIDE DEF S
  <2> QED
    BY <1>4, <1>5, MinOfSet
<1>7. k \in DOMAIN L /\ s <= Cum(L, k) /\ \A j \in DOMAIN L : s <= Cum(L, j) => k <= j
  BY <1>6
<1> HIDE DEF S, k
<1>8. Cum(L, k - 1) < s
  <2>1. k \in 1 .. Len(L)
    BY <1>1, <1>7
  <2>2. CASE k = 1
    BY <1>2, <2>2
  <2>3. CASE k # 1
    <3>1. k - 1 \in DOMAIN L /\ ~(k <= k - 1)
      BY <1>1, <2>1, <2>3
    <3>2. ~(s <= Cum(L, k - 1))
      BY <1>7, <3>1
    <3>3. Cum(L, k - 1) \in Nat
      BY <1>2, <2>1
    <3> QED
      BY <3>2, <3>3
  <2> QED
    BY <2>2, <2>3
<1> QED
  BY <1>7, <1>8 DEF At

LEMMA AtIs ==
    ASSUME NEW side, NEW L, Ladder(side, L), NEW s \in Nat, NEW k \in DOMAIN L,
           Cum(L, k - 1) < s, s <= Cum(L, k)
    PROVE  At(L, s) = k
<1>1. Len(L) \in Nat /\ DOMAIN L = 1 .. Len(L)
  BY LadderType
<1>2. \A j \in 0 .. Len(L) : Cum(L, j) \in Nat
  BY CumNext
<1>3. ASSUME NEW j \in DOMAIN L, Cum(L, j - 1) < s, s <= Cum(L, j), j # k
      PROVE  FALSE
  <2>1. /\ j \in 0 .. Len(L) /\ k \in 0 .. Len(L) /\ j - 1 \in 0 .. Len(L) /\ k - 1 \in 0 .. Len(L)
        /\ (j <= k - 1 \/ k <= j - 1)
    BY <1>1, <1>3
  <2>2. Cum(L, j) <= Cum(L, k - 1) \/ Cum(L, k) <= Cum(L, j - 1)
    BY <2>1, CumMonotone
  <2>3. /\ Cum(L, j) \in Nat /\ Cum(L, k) \in Nat /\ Cum(L, j - 1) \in Nat /\ Cum(L, k - 1) \in Nat
    BY <1>2, <2>1
  <2> QED
    BY <1>3, <2>2, <2>3
<1>4. \A j \in DOMAIN L : (Cum(L, j - 1) < s /\ s <= Cum(L, j)) <=> j = k
  BY <1>3
<1> QED
  BY <1>4 DEF At

\* A later share is at no earlier level, hence at no better price.
LEMMA AtOrder ==
    ASSUME NEW side, NEW L, Ladder(side, L), NEW s \in Nat, NEW t \in Nat, 1 <= s, s <= t,
           t <= Cum(L, Len(L))
    PROVE  /\ At(L, s) \in DOMAIN L /\ At(L, t) \in DOMAIN L
           /\ Better(side, L[At(L, s)].price, L[At(L, t)].price)
<1> DEFINE j == At(L, s)
           k == At(L, t)
<1>1. Len(L) \in Nat /\ DOMAIN L = 1 .. Len(L)
  BY LadderType
<1>2. \A i \in 0 .. Len(L) : Cum(L, i) \in Nat
  BY CumNext
<1>3. s <= Cum(L, Len(L)) /\ 1 <= t
  BY <1>1, <1>2
<1>4. /\ j \in DOMAIN L /\ Cum(L, j - 1) < s
      /\ k \in DOMAIN L /\ t <= Cum(L, k)
  BY <1>3, AtExists
<1> HIDE DEF j, k
<1>5. ~(k < j)
  <2> SUFFICES ASSUME k < j PROVE FALSE
    OBVIOUS
  <2>1. k \in 0 .. Len(L) /\ j - 1 \in 0 .. Len(L) /\ k <= j - 1
    BY <1>1, <1>4
  <2>2. Cum(L, k) <= Cum(L, j - 1)
    BY <2>1, CumMonotone
  <2>3. Cum(L, k) \in Nat /\ Cum(L, j - 1) \in Nat
    BY <1>2, <2>1
  <2> QED
    BY <1>4, <2>2, <2>3
<1>6. j = k \/ j < k
  BY <1>1, <1>4, <1>5
<1>7. L[j].price \in Nat /\ L[k].price \in Nat
  BY <1>4, LadderType
<1>8. Better(side, L[j].price, L[k].price)
  BY <1>4, <1>6, <1>7 DEF Better, Ladder
<1> QED
  BY <1>4, <1>8 DEF j, k

-----------------------------------------------------------------------------
(* The reference price of a share is the one the ladder gives it.          *)

Upto(side, L, q) == [j \in DOMAIN L |-> IF Better(side, L[j].price, q) THEN L[j].size ELSE 0]

LEMMA DepthIs ==
    ASSUME NEW levels \in Seq(Quote), NEW side, NEW q, NEW L, L = Sorted(side, levels)
    PROVE  DepthAtOrBetter(side, Valid(levels), q) = Total(Upto(side, L, q), DOMAIN L)
<1> DEFINE V == Valid(levels)
           amount == [x \in RealQuote |-> IF Better(side, x.price, q) THEN x.size ELSE 0]
           v == [k \in DOMAIN V |-> amount[V[k]]]
           l == [k \in DOMAIN L |-> amount[L[k]]]
<1>1. \A i \in ValidAt(levels) : levels[i] \in RealQuote
  BY ValidLevels
<1>2. \A i \in ValidAt(levels) : amount[levels[i]] \in Int
  BY <1>1 DEF RealQuote
<1>3. SumFunction(v) = Total(l, DOMAIN l)
  <2> HIDE DEF amount
  <2> QED
    BY <1>2, SortedSums
<1>4. \A k \in DOMAIN V : V[k] \in RealQuote
  BY ValidRange
<1>5. \A k \in DOMAIN L : L[k] \in RealQuote
  BY SortedIsLadder DEF Ladder
<1>6. v = [k \in DOMAIN V |-> IF Better(side, V[k].price, q) THEN V[k].size ELSE 0]
  BY <1>4
<1>7. l = Upto(side, L, q)
  BY <1>5 DEF Upto
<1>8. DepthAtOrBetter(side, V, q) = SumFunction(v)
  BY <1>6 DEF DepthAtOrBetter
<1>9. DOMAIN l = DOMAIN L
  OBVIOUS
<1> QED
  BY <1>3, <1>7, <1>8, <1>9

\* Up to the level of a share there are that many shares.
LEMMA DepthReaches ==
    ASSUME NEW side \in {"buy", "sell"}, NEW L, Ladder(side, L), NEW k \in DOMAIN L
    PROVE  Cum(L, k) <= Total(Upto(side, L, L[k].price), DOMAIN L)
<1> DEFINE f == Upto(side, L, L[k].price)
           S == DOMAIN L
           T == 1 .. k
<1>1. Len(L) \in Nat /\ S = 1 .. Len(L) /\ IsFiniteSet(S)
  BY LadderType
<1>2. T \in SUBSET S /\ IsFiniteSet(T)
  BY <1>1, FS_Interval
<1>3. \A j \in S : f[j] \in Nat
  BY LadderType DEF Upto
<1>4. ASSUME NEW j \in T
      PROVE  f[j] = Sizes(L)[j] /\ f[j] \in Int
  <2>1. j \in DOMAIN L /\ (j = k \/ j < k)
    BY <1>1, <1>2
  <2>2. L[j].price \in Nat /\ L[k].price \in Nat /\ L[j].size \in Nat /\ Sizes(L)[j] = L[j].size
    BY <2>1, LadderType
  <2>3. Better(side, L[j].price, L[k].price)
    BY <2>1, <2>2 DEF Ladder, Better
  <2> QED
    BY <2>1, <2>2, <2>3 DEF Upto
<1> HIDE DEF f, S, T
<1>5. Total(f, T) <= Total(f, S)
  BY <1>1, <1>2, <1>3, TotalPart
<1>6. Total(f, T) = Total(Sizes(L), T)
  BY <1>2, <1>4, TotalCongruent
<1> QED
  BY <1>5, <1>6 DEF f, S, T, Cum

\* A price that is better than a level's has less.
LEMMA DepthStops ==
    ASSUME NEW side \in {"buy", "sell"}, NEW L, Ladder(side, L), NEW k \in DOMAIN L,
           NEW q \in Nat, ~Better(side, L[k].price, q)
    PROVE  Total(Upto(side, L, q), DOMAIN L) <= Cum(L, k - 1)
<1> DEFINE f == Upto(side, L, q)
           S == DOMAIN L
           T == 1 .. k - 1
           R == S \ T
<1>1. Len(L) \in Nat /\ S = 1 .. Len(L) /\ IsFiniteSet(S)
  BY LadderType
<1>2. T \in SUBSET S /\ R \in SUBSET S /\ k \in 1 .. Len(L)
  BY <1>1
<1>3. \A j \in S : f[j] \in Int
  BY LadderType DEF Upto
<1>4. \A j \in T : Sizes(L)[j] \in Int /\ f[j] \in Int /\ f[j] <= Sizes(L)[j]
  BY <1>2, LadderType DEF Upto
<1>5. ASSUME NEW j \in R
      PROVE  f[j] = 0
  <2>1. j \in DOMAIN L /\ (j = k \/ k < j)
    BY <1>1, <1>2
  <2>2. L[j].price \in Nat /\ L[k].price \in Nat
    BY <2>1, LadderType
  <2>3. j = k \/ Better(side, L[k].price, L[j].price)
    BY <2>1 DEF Ladder
  <2>4. ~Better(side, L[j].price, q)
    BY <2>2, <2>3 DEF Better
  <2> QED
    BY <2>1, <2>4 DEF Upto
<1> HIDE DEF f, S, T
<1>6. Total(f, S) = Total(f, T) + Total(f, R)
  <2>1. IsFiniteSet(S)
    BY <1>1
  <2>2. T \in SUBSET S
    BY <1>2
  <2> QED
    BY <1>3, <2>1, <2>2, TotalSplit
<1>7. IsFiniteSet(T) /\ IsFiniteSet(R)
  BY <1>1, <1>2, FS_Subset
<1> HIDE DEF R
<1>8. Total(f, R) = 0
  BY <1>5, <1>7, TotalZero
<1>9. Total(f, T) <= Total(Sizes(L), T) /\ Total(f, T) \in Int
  BY <1>4, <1>7, TotalMonotone, TotalType
<1>10. Total(f, S) <= Total(Sizes(L), T)
  BY <1>6, <1>8, <1>9
<1> QED
  BY <1>10 DEF f, S, T, Cum

\* A leg of the order.
LEMMA ShareIs ==
    ASSUME NEW levels \in Seq(Quote), order.side \in {"buy", "sell"},
           NEW L, L = Sorted(order.side, levels),
           NEW s \in Nat, 1 <= s, s <= Cum(L, Len(L))
    PROVE  Share(Valid(levels), s) = L[At(L, s)].price
<1> DEFINE side == order.side
           V == Valid(levels)
           k == At(L, s)
           p == L[k].price
           within == {x.price : x \in {m \in Range(V) : DepthAtOrBetter(side, V, m.price) >= s}}
<1>1. Ladder(side, L)
  BY SortedIsLadder
<1>2. k \in DOMAIN L /\ Cum(L, k - 1) < s /\ s <= Cum(L, k)
  BY <1>1, AtExists
<1>3. Range(V) = Range(L)
  BY ValidRange
<1>4. \A q : DepthAtOrBetter(side, V, q) = Total(Upto(side, L, q), DOMAIN L)
  BY DepthIs
<1>5. /\ \A j \in DOMAIN L : L[j].price \in Nat /\ L[j] \in RealQuote
      /\ Len(L) \in Nat /\ DOMAIN L = 1 .. Len(L) /\ IsFiniteSet(DOMAIN L)
  BY <1>1, LadderType
<1>6. Cum(L, k) \in Nat /\ Cum(L, k - 1) \in Nat
  <2>1. k \in 0 .. Len(L) /\ k - 1 \in 0 .. Len(L)
    BY <1>2, <1>5
  <2> HIDE DEF k
  <2> QED
    BY <1>1, <2>1, CumNext
<1>7. \A q \in Nat : Total(Upto(side, L, q), DOMAIN L) \in Int
  <2> SUFFICES ASSUME NEW q \in Nat PROVE Total(Upto(side, L, q), DOMAIN L) \in Int
    OBVIOUS
  <2>1. \A j \in DOMAIN L : Upto(side, L, q)[j] \in Int
    BY <1>1, LadderType DEF Upto
  <2> QED
    BY <1>5, <2>1, TotalType
<1> HIDE DEF k, V, side
<1>8. p \in within
  <2>1. L[k] \in Range(V)
    BY <1>2, <1>3 DEF Range
  <2>2. Cum(L, k) <= Total(Upto(side, L, p), DOMAIN L)
    BY <1>1, <1>2, DepthReaches DEF side
  <2>3. p \in Nat /\ Total(Upto(side, L, p), DOMAIN L) \in Int
    BY <1>2, <1>5, <1>7
  <2>4. DepthAtOrBetter(side, V, p) >= s
    BY <1>2, <1>4, <1>6, <2>2, <2>3
  <2> QED
    BY <2>1, <2>4
<1>9. ASSUME NEW q \in within
      PROVE  q \in Nat /\ Better(side, p, q)
  <2>1. PICK j \in DOMAIN L : q = L[j].price /\ DepthAtOrBetter(side, V, q) >= s
    BY <1>3, <1>9 DEF Range
  <2>2. q \in Nat /\ Total(Upto(side, L, q), DOMAIN L) \in Int
    BY <1>5, <1>7, <2>1
  <2>3. Total(Upto(side, L, q), DOMAIN L) >= s
    BY <1>4, <2>1
  <2>4. Better(side, p, q)
    <3> SUFFICES ASSUME ~Better(side, p, q) PROVE FALSE
      OBVIOUS
    <3>1. Total(Upto(side, L, q), DOMAIN L) <= Cum(L, k - 1)
      BY <1>1, <1>2, <2>2, DepthStops DEF side
    <3> QED
      BY <1>2, <1>6, <2>2, <2>3, <3>1
  <2> QED
    BY <2>2, <2>4
<1>10. within \subseteq Int /\ p \in Int
  BY <1>8, <1>9
<1>11. Share(V, s) = IF side = "buy" THEN Min(within) ELSE Max(within)
  BY DEF Share, side
<1> HIDE DEF within, p
<1>12. CASE side = "buy"
  <2>1. \A q \in within : p <= q
    BY <1>9, <1>12 DEF Better
  <2> QED
    BY <1>8, <1>10, <1>11, <1>12, <2>1, MinIs DEF p, k, V
<1>13. CASE side = "sell"
  <2>1. \A q \in within : p >= q
    BY <1>9, <1>13 DEF Better
  <2>2. Max(within) = p
    BY <1>8, <1>10, <2>1, MaxIs
  <2> QED
    BY <1>11, <1>13, <2>2 DEF p, k, V
<1> QED
  BY <1>12, <1>13 DEF side

-----------------------------------------------------------------------------
(* The margin of a set, leg by leg, and its order.                          *)

\* What a share of leg i brings in at a price.
Worth(o, i, p) ==
    IF o.side = "buy" THEN -(Coin * p + TakerFee(p, o.rates[i]))
    ELSE Coin * p - TakerFee(p, o.rates[i])

Gains(o, prices) == [i \in DOMAIN o.legs |-> Worth(o, i, prices[i])]

LEMMA Units ==
    Unit \in Nat \ {0} /\ RateUnit \in Nat \ {0} /\ Coin \in Nat /\ Dollar \in Nat
<1>1. Unit \in Nat \ {0} /\ RateUnit \in Nat \ {0}
  BY SizingAssumption
<1>2. Coin \in Nat
  BY <1>1 DEF Coin
<1> QED
  BY <1>1, <1>2 DEF Dollar

LEMMA TimesMonotone ==
    ASSUME NEW c \in Nat, NEW a \in Int, NEW b \in Int, a <= b
    PROVE  c * a <= c * b
<1>1. b - a \in Nat /\ c * (b - a) \in Nat
  OBVIOUS
<1>2. c * (b - a) = c * b - c * a /\ c * b \in Int /\ c * a \in Int
  OBVIOUS
<1> QED
  BY <1>1, <1>2

LEMMA FeeType ==
    ASSUME NEW p \in Nat, NEW r \in 0 .. RateUnit
    PROVE  TakerFee(p, r) \in Nat /\ (p < Unit => TakerFee(p, r) = r * (p * (Unit - p)))
<1>1. Unit \in Nat /\ r \in Nat
  BY Units
<1>2. CASE 0 < p /\ p < Unit
  <2>1. Unit - p \in Nat
    BY <1>1, <1>2
  <2>2. p * (Unit - p) \in Nat /\ r * (p * (Unit - p)) \in Nat
    BY <1>1, <2>1
  <2>3. r * p * (Unit - p) = r * (p * (Unit - p))
    BY <1>1, <2>1
  <2> QED
    BY <1>2, <2>2, <2>3 DEF TakerFee
<1>3. CASE ~(0 < p /\ p < Unit)
  <2>1. TakerFee(p, r) = 0
    BY <1>3 DEF TakerFee
  <2>2. p < Unit => r * (p * (Unit - p)) = 0
    BY <1>1, <1>3
  <2> QED
    BY <2>1, <2>2
<1> QED
  BY <1>2, <1>3

\* The fee moves no faster than the price: at most by Unit * (q - p) * r.
LEMMA FeeSteps ==
    ASSUME NEW p \in Nat, NEW q \in Nat, NEW r \in 0 .. RateUnit, p <= q
    PROVE  /\ TakerFee(q, r) - TakerFee(p, r) <= Coin * q - Coin * p
           /\ TakerFee(p, r) - TakerFee(q, r) <= Coin * q - Coin * p
<1> DEFINE U == Unit
           d == q - p
<1>1. U \in Nat \ {0} /\ r \in Nat /\ RateUnit \in Nat /\ r <= RateUnit /\ d \in Nat
  BY Units
<1>2. r * (U * d) <= Coin * q - Coin * p
  <2>1. U * d \in Nat
    BY <1>1
  <2>2. (U * d) * r <= (U * d) * RateUnit
    BY <1>1, <2>1, TimesMonotone
  <2>3. (U * d) * r = r * (U * d)
    BY <1>1, <2>1
  <2>4. (U * d) * RateUnit = (U * RateUnit) * q - (U * RateUnit) * p
    BY <1>1
  <2>5. Coin = U * RateUnit
    BY DEF Coin
  <2> QED
    BY <2>2, <2>3, <2>4, <2>5
<1>3. /\ TakerFee(p, r) \in Nat /\ TakerFee(q, r) \in Nat
      /\ p < U => TakerFee(p, r) = r * (p * (U - p))
      /\ q < U => TakerFee(q, r) = r * (q * (U - q))
      /\ p >= U => TakerFee(p, r) = 0
      /\ q >= U => TakerFee(q, r) = 0
  BY <1>1, FeeType DEF TakerFee
<1>4. r * (U * d) \in Nat
  <2>1. U * d \in Nat
    BY <1>1
  <2> QED
    BY <1>1, <2>1
<1>5. CASE q < U
  <2>1. /\ q * (U - q) - p * (U - p) = d * (U - p - q)
        /\ p * (U - p) - q * (U - q) = d * (p + q - U)
    BY <1>1
  <2>2. d * (U - p - q) <= d * U /\ d * (p + q - U) <= d * U
    BY <1>1, <1>5, TimesMonotone
  <2>3. d * U = U * d
    BY <1>1
  <2>4. q * (U - q) \in Int /\ p * (U - p) \in Int /\ U * d \in Int
    BY <1>1
  <2>5. q * (U - q) - p * (U - p) <= U * d /\ p * (U - p) - q * (U - q) <= U * d
    BY <2>1, <2>2, <2>3
  <2>6. /\ r * (q * (U - q) - p * (U - p)) <= r * (U * d)
        /\ r * (p * (U - p) - q * (U - q)) <= r * (U * d)
    <3> DEFINE x == q * (U - q) - p * (U - p)
               y == p * (U - p) - q * (U - q)
               z == U * d
    <3>1. x \in Int /\ y \in Int /\ z \in Int /\ x <= z /\ y <= z
      BY <2>4, <2>5
    <3> HIDE DEF x, y, z
    <3>2. r * x <= r * z /\ r * y <= r * z
      BY <1>1, <3>1, TimesMonotone
    <3> QED
      BY <3>2 DEF x, y, z
  <2>7. /\ r * (q * (U - q) - p * (U - p)) = r * (q * (U - q)) - r * (p * (U - p))
        /\ r * (p * (U - p) - q * (U - q)) = r * (p * (U - p)) - r * (q * (U - q))
    BY <1>1, <2>4
  <2>8. TakerFee(q, r) = r * (q * (U - q)) /\ TakerFee(p, r) = r * (p * (U - p))
    BY <1>1, <1>3, <1>5
  <2>9. /\ TakerFee(q, r) - TakerFee(p, r) <= r * (U * d)
        /\ TakerFee(p, r) - TakerFee(q, r) <= r * (U * d)
    BY <2>6, <2>7, <2>8
  <2>10. Coin * q - Coin * p \in Int
    BY Units
  <2> HIDE DEF U, d
  <2> QED
    BY <1>2, <1>3, <1>4, <2>9, <2>10
<1>6. CASE q >= U /\ p < U
  <2>1. TakerFee(q, r) = 0 /\ TakerFee(p, r) = r * (p * (U - p))
    BY <1>3, <1>6
  <2>2. p * (U - p) <= U * d
    <3>1. p <= U /\ U - p \in Nat /\ U - p <= d
      BY <1>1, <1>6
    <3>2. (U - p) * p <= (U - p) * U
      BY <1>1, <3>1, TimesMonotone
    <3>3. U * (U - p) <= U * d
      BY <1>1, <3>1, TimesMonotone
    <3>4. (U - p) * p = p * (U - p) /\ (U - p) * U = U * (U - p)
      BY <1>1
    <3>5. p * (U - p) \in Int /\ U * (U - p) \in Int /\ U * d \in Int
      BY <1>1, <3>1
    <3> QED
      BY <3>2, <3>3, <3>4, <3>5
  <2>3. r * (p * (U - p)) <= r * (U * d)
    <3> DEFINE x == p * (U - p)
               z == U * d
    <3>1. x \in Int
      BY <1>1, <1>6
    <3>0. z \in Int
      BY <1>1
    <3>3. x <= z
      BY <2>2
    <3> HIDE DEF x, z
    <3>2. r * x <= r * z
      BY <1>1, <3>0, <3>1, <3>3, TimesMonotone
    <3> QED
      BY <3>2 DEF x, z
  <2>4. Coin * q - Coin * p \in Int
    BY Units
  <2> QED
    BY <1>2, <1>3, <1>4, <2>1, <2>3, <2>4
<1>7. CASE p >= U
  <2>1. TakerFee(p, r) = 0 /\ TakerFee(q, r) = 0
    BY <1>1, <1>3, <1>7
  <2>2. Coin * q - Coin * p \in Int
    BY Units
  <2> QED
    BY <1>2, <1>4, <2>1, <2>2
<1> QED
  BY <1>1, <1>5, <1>6, <1>7

\* A better price is worth as much at least.
LEMMA WorthMonotone ==
    ASSUME NEW o, IsOrder(o), NEW i \in DOMAIN o.legs, NEW p \in Nat, NEW q \in Nat,
           Better(o.side, p, q)
    PROVE  Worth(o, i, q) <= Worth(o, i, p) /\ Worth(o, i, q) \in Int /\ Worth(o, i, p) \in Int
<1> DEFINE r == o.rates[i]
           x == Coin * p
           y == Coin * q
<1>1. r \in 0 .. RateUnit /\ o.side \in {"buy", "sell"}
  BY DEF IsOrder
<1>2. TakerFee(p, r) \in Nat /\ TakerFee(q, r) \in Nat
  BY <1>1, FeeType
<1>3. x \in Int /\ y \in Int
  BY Units
<1>4. /\ o.side = "buy" => Worth(o, i, p) = -(x + TakerFee(p, r)) /\ Worth(o, i, q) = -(y + TakerFee(q, r))
      /\ o.side # "buy" => Worth(o, i, p) = x - TakerFee(p, r) /\ Worth(o, i, q) = y - TakerFee(q, r)
  BY DEF Worth
<1>5. CASE o.side = "buy"
  <2>1. p <= q
    BY <1>5 DEF Better
  <2>2. TakerFee(p, r) - TakerFee(q, r) <= y - x
    BY <1>1, <2>1, FeeSteps
  <2> HIDE DEF x, y, r
  <2> QED
    BY <1>2, <1>3, <1>4, <1>5, <2>2
<1>6. CASE o.side = "sell"
  <2>1. q <= p
    BY <1>6 DEF Better
  <2>2. TakerFee(q, r) - TakerFee(p, r) <= x - y
    BY <1>1, <2>1, FeeSteps
  <2>3. TakerFee(p, r) - TakerFee(q, r) <= x - y
    BY <1>1, <2>1, FeeSteps
  <2> HIDE DEF x, y, r
  <2> QED
    BY <1>2, <1>3, <1>4, <1>6, <2>2, <2>3
<1> QED
  BY <1>1, <1>5, <1>6

LEMMA NoElements ==
    ASSUME NEW S, NEW s \in Seq(S)
    PROVE  s = <<>> <=> DOMAIN s = {}
<1>1. DOMAIN s = 1 .. Len(s) /\ Len(s) \in Nat
  OBVIOUS
<1> DEFINE n == Len(s)
<1>2. DOMAIN s = {} <=> n = 0
  <2>1. DOMAIN s = 1 .. n /\ n \in Nat
    BY <1>1
  <2> HIDE DEF n
  <2>2. n = 0 => 1 .. n = {}
    OBVIOUS
  <2>3. n # 0 => n \in 1 .. n
    BY <2>1
  <2> QED
    BY <2>1, <2>2, <2>3
<1>3. Len(s) = 0 => s = <<>>
  OBVIOUS
<1> QED
  BY <1>2, <1>3

LEMMA OrderType ==
    ASSUME NEW o, IsOrder(o)
    PROVE  /\ o.side \in {"buy", "sell"} /\ o.worth \in Nat /\ o.per \in Nat \ {0}
           /\ Len(o.legs) \in Nat /\ DOMAIN o.legs = 1 .. Len(o.legs) /\ IsFiniteSet(DOMAIN o.legs)
           /\ o.legs = <<>> <=> DOMAIN o.legs = {}
           /\ \A i \in DOMAIN o.legs : o.legs[i] \in Seq(Quote) /\ o.rates[i] \in 0 .. RateUnit
<1>1. Len(o.legs) \in Nat /\ DOMAIN o.legs = 1 .. Len(o.legs) /\ o.legs \in Seq(Seq(Quote))
  BY DEF IsOrder
<1>2. IsFiniteSet(1 .. Len(o.legs))
  BY <1>1, FS_Interval
<1>3. o.legs = <<>> <=> DOMAIN o.legs = {}
  BY <1>1, NoElements
<1> QED
  BY <1>1, <1>2, <1>3 DEF IsOrder

LEMMA MarginIs ==
    ASSUME NEW o, IsOrder(o), NEW prices \in [DOMAIN o.legs -> Nat]
    PROVE  /\ Total(Gains(o, prices), DOMAIN o.legs) \in Int
           /\ \A i \in DOMAIN o.legs : Gains(o, prices)[i] \in Int
           /\ Margin(o, prices) =
                o.per * Total(Gains(o, prices), DOMAIN o.legs)
                    + (IF o.side = "buy" THEN o.worth * Dollar ELSE -(o.worth * Dollar))
           /\ Margin(o, prices) \in Int
<1> DEFINE D == DOMAIN o.legs
           fee == [i \in D |-> TakerFee(prices[i], o.rates[i])]
           none == [i \in D |-> 0]
           minus == [i \in D |-> -fee[i]]
           gains == Gains(o, prices)
           c == IF o.side = "buy" THEN -Coin ELSE Coin
           F == Total(fee, D)
           P == Total(prices, D)
           G == Total(gains, D)
<1>1. /\ IsFiniteSet(D) /\ o.side \in {"buy", "sell"} /\ \A i \in D : o.rates[i] \in 0 .. RateUnit
      /\ o.worth \in Nat /\ o.per \in Nat
  BY OrderType
<1>2. \A i \in D : prices[i] \in Nat /\ fee[i] \in Nat
  BY <1>1, FeeType
<1>3. Coin \in Int /\ c \in Int /\ Dollar \in Int
  BY Units
<1>4. \A i \in D : minus[i] \in Int /\ minus[i] = none[i] + (-1) * fee[i] /\ none[i] = 0
  <2>1. \A i \in D : minus[i] = -fee[i] /\ none[i] = 0
    OBVIOUS
  <2> HIDE DEF D, fee, minus, none
  <2> QED
    BY <1>2, <2>1
<1>5. ASSUME NEW i \in D
      PROVE  gains[i] = minus[i] + c * prices[i] /\ gains[i] \in Int
  <2>1. gains[i] = IF o.side = "buy" THEN -(Coin * prices[i] + fee[i]) ELSE Coin * prices[i] - fee[i]
    BY DEF Gains, Worth
  <2>2. minus[i] = -fee[i] /\ fee[i] \in Int /\ prices[i] \in Int
    BY <1>2
  <2>3. (-Coin) * prices[i] = -(Coin * prices[i]) /\ Coin * prices[i] \in Int
    BY <1>3, <2>2
  <2> HIDE DEF gains, minus, fee
  <2> QED
    BY <2>1, <2>2, <2>3
<1>6. SumFunction(prices) = P /\ SetFee(o, prices) = F
  BY SumIsTotal DEF SetFee
<1> HIDE DEF D, fee, none, minus, gains, c
<1>7. F \in Int /\ P \in Int /\ G \in Int
  <2>1. (\A i \in D : fee[i] \in Int) /\ \A i \in D : prices[i] \in Int
    BY <1>2
  <2> QED
    BY <1>1, <1>5, <2>1, TotalType
<1>8. Total(minus, D) = -F
  <2>1. \A i \in D : none[i] \in Int /\ fee[i] \in Int /\ minus[i] = none[i] + (-1) * fee[i]
    BY <1>2, <1>4
  <2>2. Total(minus, D) = Total(none, D) + (-1) * F
    BY <1>1, <2>1, TotalLinear
  <2>3. Total(none, D) = 0
    BY <1>1, <1>4, TotalZero
  <2> QED
    BY <1>7, <2>2, <2>3
<1>9. G = Total(minus, D) + c * P
  <2>1. \A i \in D : minus[i] \in Int /\ prices[i] \in Int /\ gains[i] = minus[i] + c * prices[i]
    BY <1>2, <1>4, <1>5
  <2> QED
    BY <1>1, <1>3, <2>1, TotalLinear
<1> HIDE DEF F, P, G
<1>10. G = c * P - F
  BY <1>3, <1>7, <1>8, <1>9
<1>11. Margin(o, prices) =
        (IF o.side = "buy" THEN -(o.per * Coin * P - o.worth * Dollar)
         ELSE o.per * Coin * P - o.worth * Dollar) - o.per * F
  BY <1>6 DEF Margin
<1>12. Margin(o, prices) = o.per * G + (IF o.side = "buy" THEN o.worth * Dollar ELSE -(o.worth * Dollar))
  <2> DEFINE V == o.worth * Dollar
             k == o.per
  <2>1. V \in Int /\ k \in Int
    BY <1>1, <1>3
  <2> HIDE DEF V, k
  <2>2. Margin(o, prices) =
         (IF o.side = "buy" THEN -(k * Coin * P - V) ELSE k * Coin * P - V) - k * F
    BY <1>11 DEF V, k
  <2>3. k * (Coin * P - F) = k * Coin * P - k * F
    BY <1>3, <1>7, <2>1
  <2>4. k * ((-Coin) * P - F) = -(k * Coin * P) - k * F
    BY <1>3, <1>7, <2>1
  <2>5. k * Coin * P \in Int /\ k * F \in Int
    BY <1>3, <1>7, <2>1
  <2>6. CASE o.side = "buy"
    <3>1. k * G = -(k * Coin * P) - k * F
      BY <1>10, <2>4, <2>6 DEF c
    <3>2. Margin(o, prices) = -(k * Coin * P - V) - k * F
      BY <2>2, <2>6
    <3>3. Margin(o, prices) = k * G + V
      BY <2>1, <2>5, <3>1, <3>2
    <3> QED
      BY <2>6, <3>3 DEF V, k
  <2>7. CASE o.side # "buy"
    <3>1. k * G = k * Coin * P - k * F
      BY <1>10, <2>3, <2>7 DEF c
    <3>2. Margin(o, prices) = (k * Coin * P - V) - k * F
      BY <2>2, <2>7
    <3>3. Margin(o, prices) = k * G + (-V)
      BY <2>1, <2>5, <3>1, <3>2
    <3> QED
      BY <2>7, <3>3 DEF V, k
  <2> QED
    BY <2>6, <2>7
<1>13. Margin(o, prices) \in Int
  <2>1. o.per * G \in Int /\ o.worth * Dollar \in Int
    BY <1>1, <1>3, <1>7
  <2> QED
    BY <1>12, <2>1
<1> QED
  BY <1>5, <1>7, <1>12, <1>13 DEF D, G, gains

\* Worse prices leave no larger margin.
LEMMA MarginMonotone ==
    ASSUME NEW o, IsOrder(o), NEW p \in [DOMAIN o.legs -> Nat], NEW q \in [DOMAIN o.legs -> Nat],
           \A i \in DOMAIN o.legs : Better(o.side, p[i], q[i])
    PROVE  Margin(o, q) <= Margin(o, p)
<1> DEFINE D == DOMAIN o.legs
           f == Gains(o, q)
           h == Gains(o, p)
           A == Total(f, D)
           B == Total(h, D)
           V == IF o.side = "buy" THEN o.worth * Dollar ELSE -(o.worth * Dollar)
<1>1. IsFiniteSet(D) /\ o.per \in Nat /\ o.worth \in Nat
  BY OrderType
<1>2. \A i \in D : f[i] \in Int /\ h[i] \in Int /\ f[i] <= h[i]
  <2> SUFFICES ASSUME NEW i \in D PROVE f[i] \in Int /\ h[i] \in Int /\ f[i] <= h[i]
    OBVIOUS
  <2>1. f[i] = Worth(o, i, q[i]) /\ h[i] = Worth(o, i, p[i]) /\ p[i] \in Nat /\ q[i] \in Nat
    BY DEF Gains
  <2>2. Better(o.side, p[i], q[i])
    OBVIOUS
  <2> HIDE DEF f, h
  <2> QED
    BY <2>1, <2>2, WorthMonotone
<1>3. /\ A \in Int /\ B \in Int
      /\ Margin(o, q) = o.per * A + V /\ Margin(o, p) = o.per * B + V
  BY MarginIs
<1>4. V \in Int
  <2>1. o.worth * Dollar \in Int
    BY <1>1, Units
  <2> QED
    BY <2>1
<1> HIDE DEF D, f, h, V
<1>5. A <= B
  BY <1>1, <1>2, TotalMonotone
<1> HIDE DEF A, B
<1>6. o.per * A <= o.per * B
  BY <1>1, <1>3, <1>5, TimesMonotone
<1>7. o.per * A \in Int /\ o.per * B \in Int
  BY <1>1, <1>3
<1> QED
  BY <1>3, <1>4, <1>6, <1>7

-----------------------------------------------------------------------------
(* The reference, share by share, on the sorted legs.                       *)

Leg(o, i) == Sorted(o.side, o.legs[i])
Depth(o, i) == Cum(Leg(o, i), Len(Leg(o, i)))
PriceAt(o, i, s) == Leg(o, i)[At(Leg(o, i), s)].price
SetAt(o, s) == [i \in DOMAIN o.legs |-> PriceAt(o, i, s)]
PriceRow(o, i) == [s \in Nat |-> PriceAt(o, i, s)]
MarginRow(o) == [s \in Nat |-> Margin(o, SetAt(o, s))]

\* Every leg has an s-th share.
Within(o, s) == s \in Nat \ {0} /\ \A i \in DOMAIN o.legs : s <= Depth(o, i)

LEMMA LegIsLadder ==
    ASSUME NEW o, IsOrder(o), NEW i \in DOMAIN o.legs
    PROVE  Ladder(o.side, Leg(o, i)) /\ Depth(o, i) \in Nat /\ Len(Leg(o, i)) \in Nat
<1>1. o.legs[i] \in Seq(Quote)
  BY OrderType
<1>2. Ladder(o.side, Leg(o, i))
  BY <1>1, SortedIsLadder DEF Leg
<1> DEFINE L == Leg(o, i)
<1>3. Ladder(o.side, L)
  BY <1>2
<1> HIDE DEF L
<1>4. Len(L) \in Nat /\ \A k \in 0 .. Len(L) : Cum(L, k) \in Nat
  BY <1>3, LadderType, CumNext
<1>5. Cum(L, Len(L)) \in Nat
  BY <1>4
<1> QED
  BY <1>2, <1>4, <1>5 DEF L, Depth

LEMMA ShareType ==
    ASSUME NEW o, IsOrder(o), NEW i \in DOMAIN o.legs, NEW s \in Nat \ {0}, s <= Depth(o, i)
    PROVE  PriceAt(o, i, s) \in Nat
<1> DEFINE L == Leg(o, i)
<1>1. Ladder(o.side, L)
  BY LegIsLadder
<1>2. s <= Cum(L, Len(L)) /\ 1 <= s
  BY DEF Depth
<1> HIDE DEF L
<1>3. At(L, s) \in DOMAIN L
  BY <1>1, <1>2, AtExists
<1>4. L[At(L, s)].price \in Nat
  BY <1>1, <1>3, LadderType
<1> QED
  BY <1>4 DEF L, PriceAt

LEMMA SetType ==
    ASSUME NEW o, IsOrder(o), NEW s, Within(o, s)
    PROVE  SetAt(o, s) \in [DOMAIN o.legs -> Nat] /\ MarginRow(o)[s] = Margin(o, SetAt(o, s))
           /\ MarginRow(o)[s] \in Int
<1>1. s \in Nat \ {0} /\ \A i \in DOMAIN o.legs : PriceAt(o, i, s) \in Nat
  BY ShareType DEF Within
<1>2. SetAt(o, s) \in [DOMAIN o.legs -> Nat]
  BY <1>1 DEF SetAt
<1>3. MarginRow(o)[s] = Margin(o, SetAt(o, s))
  BY <1>1 DEF MarginRow
<1>4. Margin(o, SetAt(o, s)) \in Int
  BY <1>2, MarginIs
<1> QED
  BY <1>2, <1>3, <1>4

\* A later set brings in no more.
LEMMA MarginFalls ==
    ASSUME NEW o, IsOrder(o), NEW t, Within(o, t), NEW s \in Nat \ {0}, s <= t
    PROVE  Within(o, s) /\ MarginRow(o)[t] <= MarginRow(o)[s]
<1>1. t \in Nat /\ \A i \in DOMAIN o.legs : t <= Depth(o, i) /\ Depth(o, i) \in Nat
  BY LegIsLadder DEF Within
<1>2. Within(o, s)
  BY <1>1 DEF Within
<1>3. ASSUME NEW i \in DOMAIN o.legs
      PROVE  Better(o.side, SetAt(o, s)[i], SetAt(o, t)[i])
  <2> DEFINE L == Leg(o, i)
  <2>1. Ladder(o.side, L) /\ t <= Cum(L, Len(L)) /\ 1 <= s
    BY <1>1, LegIsLadder DEF Depth
  <2> HIDE DEF L
  <2>2. Better(o.side, L[At(L, s)].price, L[At(L, t)].price)
    BY <1>1, <2>1, AtOrder
  <2> QED
    BY <2>2 DEF L, SetAt, PriceAt
<1>4. /\ SetAt(o, s) \in [DOMAIN o.legs -> Nat] /\ MarginRow(o)[s] = Margin(o, SetAt(o, s))
      /\ SetAt(o, t) \in [DOMAIN o.legs -> Nat] /\ MarginRow(o)[t] = Margin(o, SetAt(o, t))
  BY <1>2, SetType
<1>5. Margin(o, SetAt(o, t)) <= Margin(o, SetAt(o, s))
  BY <1>3, <1>4, MarginMonotone
<1> QED
  BY <1>2, <1>4, <1>5

-----------------------------------------------------------------------------
(* What holds of the walk of an order before every turn.                    *)

\* Of a ladder L, `at` the level in use, `left` of it, after `size` sets.
LegState(L, at, left, size) ==
    /\ at \in 1 .. Len(L) + 1
    /\ at <= Len(L) => left \in 1 .. L[at].size /\ size + left = Cum(L, at)
    /\ ~(at <= Len(L)) => size = Cum(L, Len(L))

LegHolds(o, w, i) ==
    /\ w.sorted[i] = Leg(o, i)
    /\ LegState(Leg(o, i), w.at[i], w.remaining[i], w.size)
    /\ w.spent[i] = Total(PriceRow(o, i), 1 .. w.size)

WalkHolds(o, w) ==
    /\ w.size \in Nat /\ w.fees \in Int /\ DOMAIN w.spent = DOMAIN o.legs
    /\ o.legs = <<>> => w.size = 0
    /\ \A i \in DOMAIN o.legs : LegHolds(o, w, i)
    /\ Net(o, w) = Total(MarginRow(o), 1 .. w.size)
    /\ \A s \in 1 .. w.size : MarginRow(o)[s] > 0

\* No leg has given more than it has, and more is left while a level is.
LEMMA LegLeft ==
    ASSUME NEW o, IsOrder(o), NEW i \in DOMAIN o.legs, NEW w, w.size \in Nat, LegHolds(o, w, i)
    PROVE  /\ w.size <= Depth(o, i)
           /\ w.at[i] <= Len(Leg(o, i)) =>
                 /\ w.at[i] \in DOMAIN Leg(o, i) /\ w.remaining[i] \in Nat \ {0}
                 /\ Cum(Leg(o, i), w.at[i] - 1) <= w.size
                 /\ w.size + w.remaining[i] = Cum(Leg(o, i), w.at[i])
                 /\ w.size + w.remaining[i] <= Depth(o, i)
           /\ ~(w.at[i] <= Len(Leg(o, i))) => w.size = Depth(o, i)
<1> DEFINE L == Leg(o, i)
           k == w.at[i]
           r == w.remaining[i]
           n == Len(L)
           z == w.size
<1>1. Ladder(o.side, L) /\ n \in Nat /\ DOMAIN L = 1 .. n
  BY LegIsLadder, LadderType
<1>2. /\ k \in 1 .. n + 1
      /\ k <= n => r \in 1 .. L[k].size /\ z + r = Cum(L, k)
      /\ ~(k <= n) => z = Cum(L, n)
  BY DEF LegHolds, LegState
<1>3. z \in Nat /\ Depth(o, i) = Cum(L, n)
  BY DEF Depth
<1> HIDE DEF L, k, r, n, z
<1>4. CASE k <= n
  <2>1. k \in 1 .. n /\ k \in 0 .. n /\ k - 1 \in 0 .. n /\ n \in 0 .. n
    BY <1>1, <1>2, <1>4
  <2>2. Cum(L, k) = Cum(L, k - 1) + L[k].size /\ Cum(L, k) \in Nat /\ Cum(L, k - 1) \in Nat
        /\ Cum(L, n) \in Nat
    BY <1>1, <2>1, CumNext DEF n
  <2>3. L[k].size \in Nat
    BY <1>1, <2>1, LadderType
  <2>4. r \in Nat \ {0} /\ r <= L[k].size /\ z + r = Cum(L, k)
    BY <1>2, <1>4, <2>3
  <2>5. Cum(L, k) <= Cum(L, n)
    BY <1>1, <2>1, CumMonotone DEF n
  <2>6. Cum(L, k - 1) <= z /\ z <= Cum(L, n) /\ z + r <= Cum(L, n)
    BY <1>3, <2>2, <2>3, <2>4, <2>5
  <2> QED
    BY <1>1, <1>3, <1>4, <2>1, <2>4, <2>6 DEF L, k, r, n, z
<1>5. CASE ~(k <= n)
  <2>1. z = Cum(L, n)
    BY <1>1, <1>2, <1>5
  <2> QED
    BY <1>3, <1>5, <2>1 DEF L, k, r, n, z
<1> QED
  BY <1>4, <1>5

\* The shares of one turn are all at the leg's current price.
LEMMA LegRun ==
    ASSUME NEW o, IsOrder(o), NEW i \in DOMAIN o.legs, NEW w, w.size \in Nat, LegHolds(o, w, i),
           w.at[i] <= Len(Leg(o, i)), NEW c \in Nat, c <= w.remaining[i],
           NEW s \in w.size + 1 .. w.size + c
    PROVE  s \in Nat \ {0} /\ s <= Depth(o, i) /\ PriceAt(o, i, s) = w.sorted[i][w.at[i]].price
<1> DEFINE L == Leg(o, i)
           k == w.at[i]
           r == w.remaining[i]
           z == w.size
<1>1. Ladder(o.side, L) /\ Depth(o, i) \in Nat /\ w.sorted[i] = L
  BY LegIsLadder DEF LegHolds
<1>2. /\ k \in DOMAIN L /\ r \in Nat \ {0} /\ Cum(L, k - 1) <= z /\ z + r = Cum(L, k)
      /\ z + r <= Depth(o, i)
  BY LegLeft
<1>3. z \in Nat /\ s \in z + 1 .. z + c /\ c <= r
  OBVIOUS
<1>4. PriceAt(o, i, s) = L[At(L, s)].price
  BY DEF PriceAt
<1> HIDE DEF L, k, r, z
<1>5. Len(L) \in Nat /\ DOMAIN L = 1 .. Len(L) /\ \A j \in 0 .. Len(L) : Cum(L, j) \in Nat
  BY <1>1, LadderType, CumNext
<1>6. Cum(L, k - 1) \in Nat
  BY <1>2, <1>5
<1>7. s \in Nat \ {0} /\ Cum(L, k - 1) < s /\ s <= Cum(L, k) /\ s <= Depth(o, i)
  BY <1>1, <1>2, <1>3, <1>6
<1>8. At(L, s) = k
  BY <1>1, <1>2, <1>7, AtIs
<1> QED
  BY <1>1, <1>4, <1>7, <1>8 DEF k

\* A turn on one leg.
LEMMA LegSlice ==
    ASSUME NEW o, IsOrder(o), NEW i \in DOMAIN o.legs, NEW w, w.size \in Nat, LegHolds(o, w, i),
           w.at[i] <= Len(Leg(o, i)), Chunk(o, w) \in Nat, Chunk(o, w) <= w.remaining[i]
    PROVE  LegHolds(o, Slice(o, w), i)
<1> DEFINE L == Leg(o, i)
           k == w.at[i]
           r == w.remaining[i]
           z == w.size
           c == Chunk(o, w)
           p == w.sorted[i][k].price
           v == Slice(o, w)
<1>1. /\ v.sorted = w.sorted /\ v.size = z + c
      /\ v.at[i] = IF r = c THEN k + 1 ELSE k
      /\ v.remaining[i] = IF r = c /\ k + 1 <= Len(w.sorted[i]) THEN w.sorted[i][k + 1].size ELSE r - c
      /\ v.spent[i] = w.spent[i] + c * p
  BY DEF Slice, Prices
<1>2. Ladder(o.side, L) /\ w.sorted[i] = L /\ Len(L) \in Nat /\ DOMAIN L = 1 .. Len(L)
  BY LegIsLadder, LadderType DEF LegHolds
<1>3. /\ k \in DOMAIN L /\ r \in Nat \ {0} /\ z + r = Cum(L, k) /\ r \in 1 .. L[k].size
      /\ z \in Nat /\ c \in Nat /\ c <= r /\ k <= Len(L)
  BY LegLeft DEF LegHolds, LegState
<1>4. w.spent[i] = Total(PriceRow(o, i), 1 .. z)
  BY DEF LegHolds
<1>5. v.spent[i] = Total(PriceRow(o, i), 1 .. z + c)
  <2> DEFINE f == PriceRow(o, i)
  <2>1. ASSUME NEW s \in z + 1 .. z + c
        PROVE  f[s] = p
    <3>1. s \in Nat /\ PriceAt(o, i, s) = p
      BY LegRun
    <3> QED
      BY <3>1 DEF PriceRow
  <2>2. ASSUME NEW s \in 1 .. z
        PROVE  f[s] \in Int
    <3>1. s \in Nat \ {0} /\ s <= Depth(o, i)
      BY <1>3, LegLeft, LegIsLadder
    <3>2. PriceAt(o, i, s) \in Nat
      BY <3>1, ShareType
    <3> QED
      BY <3>1, <3>2 DEF PriceRow
  <2>3. p \in Int
    BY <1>2, <1>3, LadderType
  <2> HIDE DEF f, p, z, c, v
  <2>4. Total(f, 1 .. z + c) = Total(f, 1 .. z) + c * p
    <3>1. EndsIn(f, z, c, p)
      BY <2>1, <2>2 DEF EndsIn
    <3> QED
      BY <1>3, <2>3, <3>1, TotalRun
  <2> QED
    BY <1>1, <1>4, <2>4 DEF f
<1> HIDE DEF L, k, r, z, c, v, p
<1>6. ASSUME r # c
      PROVE  LegState(L, v.at[i], v.remaining[i], v.size)
  <2>1. /\ v.at[i] = k /\ v.remaining[i] = r - c /\ v.size = z + c
    BY <1>1, <1>6
  <2>2. L[k].size \in Nat
    BY <1>2, <1>3, LadderType
  <2>3. r - c \in 1 .. L[k].size /\ (z + c) + (r - c) = Cum(L, k)
    BY <1>3, <1>6, <2>2
  <2>4. k \in 1 .. Len(L) + 1 /\ ~(k > Len(L))
    BY <1>2, <1>3
  <2>5. LegState(L, k, r - c, z + c)
    BY <2>3, <2>4 DEF LegState
  <2> QED
    BY <2>1, <2>5
<1>7. ASSUME r = c /\ k + 1 <= Len(L)
      PROVE  LegState(L, v.at[i], v.remaining[i], v.size)
  <2>1. /\ v.at[i] = k + 1 /\ v.remaining[i] = L[k + 1].size /\ v.size = z + r
    BY <1>1, <1>2, <1>7
  <2>2. k + 1 \in 1 .. Len(L) /\ k + 1 \in DOMAIN L /\ (k + 1) - 1 = k
    BY <1>2, <1>3, <1>7
  <2>3. L[k + 1].size \in Nat \ {0} /\ L[k + 1].size \in 1 .. L[k + 1].size
    BY <1>2, <2>2, LadderType
  <2>4. Cum(L, k + 1) = Cum(L, k) + L[k + 1].size
    BY <1>2, <2>2, CumNext
  <2>5. (z + r) + L[k + 1].size = Cum(L, k + 1)
    BY <1>3, <2>4
  <2>6. k + 1 \in 1 .. Len(L) + 1 /\ ~(k + 1 > Len(L))
    BY <1>2, <2>2
  <2>7. LegState(L, k + 1, L[k + 1].size, z + r)
    BY <2>3, <2>5, <2>6 DEF LegState
  <2> QED
    BY <2>1, <2>7
<1>8. ASSUME r = c /\ ~(k + 1 <= Len(L))
      PROVE  LegState(L, v.at[i], v.remaining[i], v.size)
  <2>1. k = Len(L)
    BY <1>2, <1>3, <1>8
  <2>2. v.at[i] = Len(L) + 1 /\ v.size = Cum(L, Len(L))
    BY <1>1, <1>3, <1>8, <2>1
  <2>3. Len(L) + 1 \in 1 .. Len(L) + 1 /\ ~(Len(L) + 1 <= Len(L))
    BY <1>2
  <2>4. LegState(L, Len(L) + 1, v.remaining[i], Cum(L, Len(L)))
    BY <2>3 DEF LegState
  <2> QED
    BY <2>2, <2>4
<1>9. LegState(L, v.at[i], v.remaining[i], v.size)
  BY <1>6, <1>7, <1>8
<1> QED
  BY <1>1, <1>2, <1>5, <1>9 DEF LegHolds, L, v

\* While no leg is exhausted, a turn takes at least one set and at most what each leg has.
LEMMA ChunkIs ==
    ASSUME NEW o, IsOrder(o), NEW w, WalkHolds(o, w), ~Exhausted(o, w)
    PROVE  /\ Chunk(o, w) \in Nat \ {0}
           /\ \A i \in DOMAIN o.legs : w.at[i] <= Len(Leg(o, i)) /\ Chunk(o, w) <= w.remaining[i]
<1> DEFINE D == DOMAIN o.legs
           S == {w.remaining[i] : i \in D}
<1>1. o.legs # <<>> /\ \A i \in D : ~(w.at[i] > Len(w.sorted[i]))
  BY DEF Exhausted
<1>2. D # {} /\ D = 1 .. Len(o.legs) /\ Len(o.legs) \in Nat
  BY <1>1, OrderType
<1>3. \A i \in D : w.at[i] <= Len(Leg(o, i)) /\ w.remaining[i] \in Nat \ {0}
  <2> SUFFICES ASSUME NEW i \in D
               PROVE  w.at[i] <= Len(Leg(o, i)) /\ w.remaining[i] \in Nat \ {0}
    OBVIOUS
  <2>1. LegHolds(o, w, i) /\ w.size \in Nat
    BY DEF WalkHolds
  <2>2. w.sorted[i] = Leg(o, i) /\ w.at[i] \in 1 .. Len(Leg(o, i)) + 1
    BY <2>1 DEF LegHolds, LegState
  <2>3. Len(Leg(o, i)) \in Nat
    BY LegIsLadder
  <2>4. w.at[i] <= Len(Leg(o, i))
    BY <1>1, <2>2, <2>3
  <2> QED
    BY <2>1, <2>4, LegLeft
<1>4. IsFiniteSet(S)
  <2> DEFINE f == [i \in D |-> w.remaining[i]]
  <2>1. f \in Surjection(D, S)
    BY DEF Surjection
  <2>2. IsFiniteSet(D)
    BY OrderType
  <2> HIDE DEF f, D, S
  <2> QED
    BY <2>1, <2>2, FS_Surjection
<1>5. S # {} /\ S \subseteq Nat \ {0} /\ S \subseteq Int
  BY <1>2, <1>3
<1>6. \A i \in D : w.remaining[i] \in S
  OBVIOUS
<1>7. Chunk(o, w) = Min(S)
  BY DEF Chunk
<1> HIDE DEF D, S
<1>8. Min(S) \in S /\ \A y \in S : Min(S) <= y
  BY <1>4, <1>5, MinOfSet
<1>9. Chunk(o, w) \in Nat \ {0} /\ \A i \in D : Chunk(o, w) <= w.remaining[i]
  BY <1>5, <1>6, <1>7, <1>8
<1> QED
  BY <1>3, <1>9 DEF D

\* The sets of a turn have the turn's prices.
LEMMA TurnSets ==
    ASSUME NEW o, IsOrder(o), NEW w, WalkHolds(o, w), ~Exhausted(o, w),
           NEW s \in w.size + 1 .. w.size + Chunk(o, w)
    PROVE  Within(o, s) /\ SetAt(o, s) = Prices(o, w)
<1> DEFINE D == DOMAIN o.legs
           c == Chunk(o, w)
<1>1. c \in Nat /\ w.size \in Nat /\ s \in w.size + 1 .. w.size + c
  BY ChunkIs DEF WalkHolds
<1>2. ASSUME NEW i \in D
      PROVE  s \in Nat \ {0} /\ s <= Depth(o, i) /\ PriceAt(o, i, s) = w.sorted[i][w.at[i]].price
  <2>1. LegHolds(o, w, i) /\ w.at[i] <= Len(Leg(o, i)) /\ c <= w.remaining[i]
    BY ChunkIs DEF WalkHolds
  <2> HIDE DEF c
  <2> QED
    BY <1>1, <2>1, LegRun
<1>3. s \in Nat \ {0}
  BY <1>1
<1> QED
  BY <1>2, <1>3 DEF Within, SetAt, Prices

\* A turn adds its sets' margins.
LEMMA NetSlice ==
    ASSUME NEW o, IsOrder(o), NEW w, w.size \in Nat, w.fees \in Int,
           DOMAIN w.spent = DOMAIN o.legs, \A i \in DOMAIN o.legs : w.spent[i] \in Int,
           Chunk(o, w) \in Nat, Prices(o, w) \in [DOMAIN o.legs -> Nat]
    PROVE  /\ Net(o, Slice(o, w)) = Net(o, w) + Chunk(o, w) * Margin(o, Prices(o, w))
           /\ SetFee(o, Prices(o, w)) \in Int
<1> DEFINE D == DOMAIN o.legs
           v == Slice(o, w)
           c == Chunk(o, w)
           p == Prices(o, w)
           E == SetFee(o, p)
           P == Total(p, D)
           S == Total(w.spent, D)
           k == o.per
           W == o.worth
<1>1. /\ IsFiniteSet(D) /\ o.side \in {"buy", "sell"} /\ \A i \in D : o.rates[i] \in 0 .. RateUnit
      /\ W \in Nat /\ k \in Nat
  BY OrderType
<1>2. /\ v.size = w.size + c /\ v.fees = w.fees + c * E
      /\ v.spent = [i \in D |-> w.spent[i] + c * p[i]]
  BY DEF Slice
<1>3. E \in Int
  <2> DEFINE fee == [i \in D |-> TakerFee(p[i], o.rates[i])]
  <2>1. \A i \in D : fee[i] \in Int
    BY <1>1, FeeType
  <2>2. E = Total(fee, D)
    BY SumIsTotal DEF SetFee
  <2> HIDE DEF fee, D
  <2> QED
    BY <1>1, <2>1, <2>2, TotalType
<1>4. /\ SumFunction(p) = P /\ SumFunction(w.spent) = S /\ DOMAIN v.spent = D
      /\ SumFunction(v.spent) = Total(v.spent, D)
  <2>1. DOMAIN v.spent = D
    BY <1>2
  <2> HIDE DEF v
  <2> QED
    BY <2>1, SumIsTotal
<1>5. \A i \in D : w.spent[i] \in Int /\ p[i] \in Int /\ v.spent[i] = w.spent[i] + c * p[i]
  <2>1. \A i \in D : p[i] \in Int
    OBVIOUS
  <2> HIDE DEF p, v, c
  <2> QED
    BY <1>2, <2>1
<1>6. c \in Int /\ Coin \in Int /\ Dollar \in Int /\ w.size \in Int /\ w.fees \in Int
  BY Units
<1> HIDE DEF D, v, c, p
<1>7. Total(v.spent, D) = S + c * P
  BY <1>1, <1>5, <1>6, TotalLinear
<1>8. S \in Int /\ P \in Int
  BY <1>1, <1>5, TotalType
<1> HIDE DEF E, S, P, k, W
<1>9. /\ Net(o, w) = (IF o.side = "buy" THEN -(k * Coin * S - w.size * W * Dollar)
                      ELSE k * Coin * S - w.size * W * Dollar) - k * w.fees
      /\ Margin(o, p) = (IF o.side = "buy" THEN -(k * Coin * P - W * Dollar)
                         ELSE k * Coin * P - W * Dollar) - k * E
      /\ Net(o, v) = (IF o.side = "buy" THEN -(k * Coin * (S + c * P) - (w.size + c) * W * Dollar)
                      ELSE k * Coin * (S + c * P) - (w.size + c) * W * Dollar) - k * (w.fees + c * E)
  BY <1>2, <1>4, <1>7 DEF Net, Margin, k, W, E
<1>10. /\ k * Coin * (S + c * P) = k * Coin * S + c * (k * Coin * P)
       /\ (w.size + c) * W * Dollar = w.size * W * Dollar + c * (W * Dollar)
       /\ k * (w.fees + c * E) = k * w.fees + c * (k * E)
  <2>1. k * Coin * (S + c * P) = k * Coin * S + c * (k * Coin * P)
    BY <1>1, <1>6, <1>8
  <2>2. (w.size + c) * W * Dollar = w.size * W * Dollar + c * (W * Dollar)
    BY <1>1, <1>6
  <2>3. k * (w.fees + c * E) = k * w.fees + c * (k * E)
    BY <1>1, <1>3, <1>6
  <2> QED
    BY <2>1, <2>2, <2>3
<1> DEFINE a == k * Coin * S
           b == k * Coin * P
           d == w.size * W * Dollar
           e == W * Dollar
           f == k * w.fees
           g == k * E
<1>11. a \in Int /\ b \in Int /\ d \in Int /\ e \in Int /\ f \in Int /\ g \in Int
  BY <1>1, <1>3, <1>6, <1>8
<1>12. /\ Net(o, w) = (IF o.side = "buy" THEN -(a - d) ELSE a - d) - f
       /\ Margin(o, p) = (IF o.side = "buy" THEN -(b - e) ELSE b - e) - g
       /\ Net(o, v) = (IF o.side = "buy" THEN -((a + c * b) - (d + c * e)) ELSE (a + c * b) - (d + c * e))
                        - (f + c * g)
  BY <1>9, <1>10
<1> HIDE DEF a, b, d, e, f, g
<1>13. Net(o, v) = Net(o, w) + c * Margin(o, p)
  <2>1. CASE o.side = "buy"
    <3>1. c * (-(b - e) - g) = -(c * b - c * e) - c * g
      BY <1>6, <1>11
    <3>2. c * b \in Int /\ c * e \in Int /\ c * g \in Int
      BY <1>6, <1>11
    <3>3. /\ Net(o, w) = -(a - d) - f /\ c * Margin(o, p) = -(c * b - c * e) - c * g
          /\ Net(o, v) = -((a + c * b) - (d + c * e)) - (f + c * g)
      BY <1>12, <2>1, <3>1
    <3> QED
      BY <1>11, <3>2, <3>3
  <2>2. CASE o.side # "buy"
    <3>1. c * ((b - e) - g) = (c * b - c * e) - c * g
      BY <1>6, <1>11
    <3>2. c * b \in Int /\ c * e \in Int /\ c * g \in Int
      BY <1>6, <1>11
    <3>3. /\ Net(o, w) = (a - d) - f /\ c * Margin(o, p) = (c * b - c * e) - c * g
          /\ Net(o, v) = ((a + c * b) - (d + c * e)) - (f + c * g)
      BY <1>12, <2>2, <3>1
    <3> QED
      BY <1>11, <3>2, <3>3
  <2> QED
    BY <2>1, <2>2
<1> QED
  BY <1>3, <1>13 DEF v, c, p, E

LEMMA SliceHolds ==
    ASSUME NEW o, IsOrder(o), NEW w, WalkHolds(o, w), Continues(o, w)
    PROVE  WalkHolds(o, Slice(o, w)) /\ Slice(o, w).size = w.size + Chunk(o, w)
<1> DEFINE D == DOMAIN o.legs
           v == Slice(o, w)
           c == Chunk(o, w)
           p == Prices(o, w)
           n == w.size
           row == MarginRow(o)
<1>1. ~Exhausted(o, w) /\ Margin(o, p) > 0
  BY DEF Continues
<1>2. /\ n \in Nat /\ w.fees \in Int /\ DOMAIN w.spent = D
      /\ Net(o, w) = Total(row, 1 .. n)
      /\ \A s \in 1 .. n : row[s] > 0
      /\ \A i \in D : LegHolds(o, w, i)
  BY DEF WalkHolds
<1>3. c \in Nat \ {0} /\ \A i \in D : w.at[i] <= Len(Leg(o, i)) /\ c <= w.remaining[i]
  BY <1>1, ChunkIs
<1>4. /\ v.size = n + c /\ v.fees = w.fees + c * SetFee(o, p)
      /\ v.spent = [i \in D |-> w.spent[i] + c * p[i]]
  BY DEF Slice
<1>5. \A i \in D : LegHolds(o, v, i)
  BY <1>2, <1>3, LegSlice
<1>6. ASSUME NEW s \in n + 1 .. n + c
      PROVE  Within(o, s) /\ SetAt(o, s) = p /\ row[s] = Margin(o, p) /\ row[s] \in Int
  <2>1. Within(o, s) /\ SetAt(o, s) = p
    BY <1>1, <1>6, TurnSets
  <2> HIDE DEF p, row
  <2> QED
    BY <2>1, SetType DEF row
<1>7. p \in [D -> Nat] /\ Margin(o, p) \in Int
  <2>1. n + 1 \in n + 1 .. n + c
    BY <1>2, <1>3
  <2>2. Within(o, n + 1) /\ SetAt(o, n + 1) = p
    BY <1>6, <2>1
  <2>3. SetAt(o, n + 1) \in [D -> Nat]
    BY <2>2, SetType
  <2>4. p \in [D -> Nat]
    BY <2>2, <2>3
  <2> HIDE DEF p
  <2> QED
    BY <2>4, MarginIs
<1>8. ASSUME NEW s \in 1 .. n
      PROVE  row[s] \in Int
  <2>1. \A i \in D : s <= Depth(o, i)
    <3> SUFFICES ASSUME NEW i \in D PROVE s <= Depth(o, i)
      OBVIOUS
    <3>1. n <= Depth(o, i) /\ Depth(o, i) \in Nat
      BY <1>2, LegLeft, LegIsLadder
    <3> QED
      BY <1>2, <3>1
  <2>2. Within(o, s)
    BY <1>2, <2>1 DEF Within
  <2> QED
    BY <2>2, SetType
<1>9. \A i \in D : w.spent[i] \in Int
  <2> SUFFICES ASSUME NEW i \in D PROVE w.spent[i] \in Int
    OBVIOUS
  <2>1. w.spent[i] = Total(PriceRow(o, i), 1 .. n)
    BY <1>2 DEF LegHolds
  <2>2. \A s \in 1 .. n : PriceRow(o, i)[s] \in Int
    <3> SUFFICES ASSUME NEW s \in 1 .. n PROVE PriceRow(o, i)[s] \in Int
      OBVIOUS
    <3>1. n <= Depth(o, i) /\ Depth(o, i) \in Nat
      BY <1>2, LegLeft, LegIsLadder
    <3>2. s \in Nat \ {0} /\ s <= Depth(o, i)
      BY <1>2, <3>1
    <3>3. PriceAt(o, i, s) \in Nat
      BY <3>2, ShareType
    <3> QED
      BY <3>2, <3>3 DEF PriceRow
  <2>3. IsFiniteSet(1 .. n)
    BY <1>2, FS_Interval
  <2> HIDE DEF n
  <2> QED
    BY <2>1, <2>2, <2>3, TotalType
<1>10. Net(o, v) = Net(o, w) + c * Margin(o, p) /\ SetFee(o, p) \in Int
  BY <1>2, <1>3, <1>7, <1>9, NetSlice
<1>11. Total(row, 1 .. n + c) = Total(row, 1 .. n) + c * Margin(o, p)
  <2> DEFINE m == Margin(o, p)
  <2>1. m \in Int /\ \A s \in n + 1 .. n + c : row[s] = m
    BY <1>6, <1>7
  <2> HIDE DEF row, n, c, m
  <2>2. EndsIn(row, n, c, m)
    BY <1>8, <2>1 DEF EndsIn
  <2>3. Total(row, 1 .. n + c) = Total(row, 1 .. n) + c * m
    BY <1>2, <1>3, <2>1, <2>2, TotalRun
  <2> QED
    BY <2>3 DEF m
<1> HIDE DEF v, c, p, n, row
<1>12. Net(o, v) = Total(row, 1 .. v.size)
  BY <1>2, <1>4, <1>10, <1>11
<1>13. \A s \in 1 .. v.size : row[s] > 0
  <2> SUFFICES ASSUME NEW s \in 1 .. n + c PROVE row[s] > 0
    BY <1>4
  <2>1. s \in 1 .. n \/ s \in n + 1 .. n + c
    BY <1>2, <1>3
  <2> QED
    BY <1>1, <1>2, <1>6, <2>1
<1>14. v.size \in Nat /\ v.fees \in Int /\ DOMAIN v.spent = D
  <2>1. c * SetFee(o, p) \in Int
    BY <1>3, <1>10
  <2> QED
    BY <1>2, <1>3, <1>4, <2>1
<1>15. o.legs # <<>>
  BY <1>1 DEF Exhausted
<1> QED
  BY <1>4, <1>5, <1>12, <1>13, <1>14, <1>15 DEF WalkHolds, v, c, n, row

LEMMA StartHolds ==
    ASSUME NEW o, IsOrder(o)
    PROVE  WalkHolds(o, Start(o)) /\ Start(o).size = 0
<1> DEFINE D == DOMAIN o.legs
           v == Start(o)
<1>1. /\ v.size = 0 /\ v.fees = 0 /\ v.spent = [i \in D |-> 0]
      /\ \A i \in D : /\ v.sorted[i] = Leg(o, i) /\ v.at[i] = 1
                      /\ v.remaining[i] = IF Leg(o, i) = <<>> THEN 0 ELSE Leg(o, i)[1].size
  BY DEF Start, Leg
<1>2. /\ IsFiniteSet(D) /\ o.per \in Nat /\ o.worth \in Nat
  BY OrderType
<1> HIDE DEF v
<1>3. 1 .. 0 = {}
  OBVIOUS
<1>4. ASSUME NEW i \in D
      PROVE  LegHolds(o, v, i)
  <2> DEFINE L == Leg(o, i)
  <2>1. Ladder(o.side, L)
    BY LegIsLadder
  <2>2. v.spent[i] = Total(PriceRow(o, i), 1 .. v.size)
    BY <1>1, <1>3, TotalEmpty
  <2> HIDE DEF L
  <2>3. Len(L) \in Nat /\ DOMAIN L = 1 .. Len(L) /\ (L = <<>> => Len(L) = 0) /\ Cum(L, 0) = 0
    BY <2>1, LadderType, CumNext
  <2>4. CASE 1 <= Len(L)
    <3>1. 1 \in DOMAIN L /\ 1 \in 1 .. Len(L) /\ 1 - 1 = 0 /\ L # <<>> /\ 1 \in 1 .. Len(L) + 1
      BY <2>3, <2>4
    <3>2. L[1].size \in Nat \ {0} /\ Cum(L, 1) = Cum(L, 1 - 1) + L[1].size
      BY <2>1, <3>1, LadderType, CumNext
    <3>3. L[1].size \in 1 .. L[1].size /\ 0 + L[1].size = Cum(L, 1)
      BY <2>3, <3>1, <3>2
    <3>4. LegState(L, 1, L[1].size, 0)
      BY <2>4, <3>1, <3>3 DEF LegState
    <3> QED
      BY <1>1, <2>2, <3>1, <3>4 DEF LegHolds, L
  <2>5. CASE ~(1 <= Len(L))
    <3>1. Len(L) = 0 /\ 1 \in 1 .. Len(L) + 1 /\ Cum(L, Len(L)) = 0
      BY <2>3, <2>5
    <3>2. \A r : LegState(L, 1, r, 0)
      BY <2>5, <3>1 DEF LegState
    <3> QED
      BY <1>1, <2>2, <3>2 DEF LegHolds, L
  <2> QED
    BY <2>4, <2>5
<1>5. SumFunction(v.spent) = 0
  <2> DEFINE f == v.spent
  <2>1. DOMAIN f = D /\ \A i \in D : f[i] = 0
    BY <1>1
  <2>2. SumFunction(f) = Total(f, DOMAIN f)
    BY SumIsTotal
  <2> HIDE DEF f, D
  <2>3. Total(f, D) = 0
    BY <1>2, <2>1, TotalZero
  <2> QED
    BY <2>1, <2>2, <2>3 DEF f
<1>6. Net(o, v) = 0
  <2>1. o.per * Coin * 0 - 0 * o.worth * Dollar = 0 /\ o.per * 0 = 0
    BY <1>2, Units
  <2> QED
    BY <1>1, <1>5, <2>1 DEF Net
<1>7. Net(o, v) = Total(MarginRow(o), 1 .. v.size)
  BY <1>1, <1>3, <1>6, TotalEmpty
<1>8. v.size \in Nat /\ v.fees \in Int /\ DOMAIN v.spent = D /\ \A s \in 1 .. v.size : MarginRow(o)[s] > 0
  BY <1>1, <1>3
<1> QED
  BY <1>1, <1>4, <1>7, <1>8 DEF WalkHolds, v

Peak(f, n, M) ==
    /\ \A s \in 1 .. n : f[s] \in Int /\ f[s] > 0
    /\ \A s \in n + 1 .. M : f[s] \in Int /\ f[s] <= 0

\* A sum of terms that are positive up to n and not after is largest at n, and nowhere before.
LEMMA PeakIsBest ==
    ASSUME NEW f, NEW n \in Nat, NEW M \in Nat, n <= M, Peak(f, n, M), NEW m \in 0 .. M
    PROVE  /\ Total(f, 1 .. m) \in Int /\ Total(f, 1 .. n) \in Int
           /\ Total(f, 1 .. m) <= Total(f, 1 .. n)
           /\ m < n => Total(f, 1 .. m) < Total(f, 1 .. n)
<1>1. \A s \in 1 .. M : f[s] \in Int /\ (s <= n => f[s] > 0) /\ (n < s => f[s] <= 0)
  BY DEF Peak
<1>2. ASSUME NEW k \in 0 .. M
      PROVE  IsFiniteSet(1 .. k) /\ Total(f, 1 .. k) \in Int
  <2>1. k \in Int /\ 1 \in Int
    OBVIOUS
  <2>2. IsFiniteSet(1 .. k)
    BY <2>1, FS_Interval
  <2>3. \A s \in 1 .. k : f[s] \in Int
    BY <1>1
  <2> DEFINE S == 1 .. k
  <2>4. IsFiniteSet(S) /\ \A s \in S : f[s] \in Int
    BY <2>2, <2>3
  <2> HIDE DEF S
  <2>5. Total(f, S) \in Int
    BY <2>4, TotalType
  <2> QED
    BY <2>2, <2>5 DEF S
<1>3. n \in 0 .. M
  OBVIOUS
<1>4. CASE m < n
  <2> DEFINE S == 1 .. n
             T == 1 .. m
             R == S \ T
             Q == R \ {n}
  <2>1. T \in SUBSET S /\ n \in R /\ \A s \in S : f[s] \in Int /\ f[s] > 0
    BY <1>1, <1>4
  <2>10. T \in SUBSET S /\ \A s \in S : f[s] \in Int
    BY <2>1
  <2>2. IsFiniteSet(S) /\ Total(f, T) \in Int /\ Total(f, S) \in Int
    BY <1>2, <1>3
  <2> HIDE DEF S, T
  <2>3. Total(f, S) = Total(f, T) + Total(f, R)
    <3>1. IsFiniteSet(S)
      BY <2>2
    <3> QED
      BY <2>10, <3>1, TotalSplit
  <2>4. IsFiniteSet(R) /\ \A s \in R : f[s] \in Int
    <3>1. R \in SUBSET S
      OBVIOUS
    <3> QED
      BY <2>1, <2>2, <3>1, FS_Subset
  <2>5. IsFiniteSet(Q) /\ (\A s \in Q : f[s] \in Nat) /\ f[n] \in Int /\ f[n] > 0
    <3>1. Q \in SUBSET S /\ Q \in SUBSET R
      OBVIOUS
    <3>2. \A s \in Q : f[s] \in Nat
      BY <2>1, <3>1
    <3> QED
      BY <2>1, <2>4, <3>1, <3>2, FS_Subset
  <2> HIDE DEF R
  <2>6. Total(f, R) = f[n] + Total(f, Q)
    <3>1. n \in R
      BY <2>1
    <3>2. IsFiniteSet(R)
      BY <2>4
    <3>3. \A s \in R : f[s] \in Int
      BY <2>4
    <3> HIDE DEF Q
    <3>4. ASSUME NEW x \in R
          PROVE  Total(f, R) = f[x] + Total(f, R \ {x})
      BY <3>2, <3>3, TotalTake
    <3>5. Total(f, R) = f[n] + Total(f, R \ {n})
      BY <3>1, <3>4
    <3> QED
      BY <3>5 DEF Q
  <2> HIDE DEF Q
  <2>7. Total(f, Q) \in Nat
    BY <2>5, TotalNat
  <2>8. Total(f, T) < Total(f, S)
    BY <2>2, <2>3, <2>5, <2>6, <2>7
  <2>9. Total(f, T) <= Total(f, S)
    BY <2>2, <2>8
  <2> QED
    BY <2>2, <2>8, <2>9 DEF S, T
<1>5. CASE ~(m < n)
  <2> DEFINE S == 1 .. m
             T == 1 .. n
             R == S \ T
             z == [s \in R |-> 0]
  <2>1. T \in SUBSET S /\ (\A s \in S : f[s] \in Int) /\ \A s \in R : f[s] \in Int /\ f[s] <= 0
    BY <1>1, <1>5
  <2>2. IsFiniteSet(S) /\ Total(f, T) \in Int /\ Total(f, S) \in Int
    BY <1>2, <1>3
  <2> HIDE DEF S, T
  <2>3. Total(f, S) = Total(f, T) + Total(f, R)
    BY <2>1, <2>2, TotalSplit
  <2>4. IsFiniteSet(R)
    <3>1. R \in SUBSET S
      OBVIOUS
    <3> QED
      BY <2>2, <3>1, FS_Subset
  <2>5. \A s \in R : z[s] = 0 /\ z[s] \in Int /\ f[s] \in Int /\ f[s] <= z[s]
    BY <2>1
  <2> HIDE DEF R, z
  <2>6. Total(f, R) <= Total(z, R)
    BY <2>4, <2>5, TotalMonotone
  <2>7. Total(z, R) = 0
    BY <2>4, <2>5, TotalZero
  <2>8. Total(f, R) \in Int
    BY <2>4, <2>5, TotalType
  <2>9. Total(f, S) <= Total(f, T)
    BY <2>2, <2>3, <2>6, <2>7, <2>8
  <2> QED
    BY <1>5, <2>2, <2>9 DEF S, T
<1> QED
  BY <1>4, <1>5

\* The shares of a leg's valid levels are those of the sorted leg.
LEMMA DepthOfValid ==
    ASSUME NEW levels \in Seq(Quote), NEW side, NEW L, L = Sorted(side, levels)
    PROVE  SumFunction([k \in DOMAIN Valid(levels) |-> Valid(levels)[k].size]) = Cum(L, Len(L))
<1> DEFINE V == Valid(levels)
           amount == [x \in RealQuote |-> x.size]
           v == [k \in DOMAIN V |-> amount[V[k]]]
           l == [k \in DOMAIN L |-> amount[L[k]]]
<1>1. \A i \in ValidAt(levels) : levels[i] \in RealQuote
  BY ValidLevels
<1>2. \A i \in ValidAt(levels) : amount[levels[i]] \in Int
  BY <1>1 DEF RealQuote
<1>3. SumFunction(v) = Total(l, DOMAIN l)
  <2> HIDE DEF amount
  <2> QED
    BY <1>2, SortedSums
<1>4. \A k \in DOMAIN V : V[k] \in RealQuote
  BY ValidRange
<1>5. (\A k \in DOMAIN L : L[k] \in RealQuote) /\ DOMAIN L = 1 .. Len(L)
  BY SortedIsLadder DEF Ladder
<1>6. v = [k \in DOMAIN V |-> V[k].size]
  BY <1>4
<1>7. l = Sizes(L)
  BY <1>5 DEF Sizes
<1>8. DOMAIN l = DOMAIN L
  OBVIOUS
<1> QED
  BY <1>3, <1>5, <1>6, <1>7, <1>8 DEF Cum

LEMMA MaxSetsIs ==
    ASSUME IsOrder(order)
    PROVE  /\ MaxSets \in Nat /\ \A i \in DOMAIN order.legs : MaxSets <= Depth(order, i)
           /\ order.legs = <<>> => MaxSets = 0
           /\ order.legs # <<>> => \E i \in DOMAIN order.legs : MaxSets = Depth(order, i)
<1> DEFINE D == DOMAIN order.legs
           g == [i \in D |-> Depth(order, i)]
           S == {g[i] : i \in D}
<1>1. IsFiniteSet(D) /\ (order.legs = <<>> <=> D = {}) /\ \A i \in D : order.legs[i] \in Seq(Quote)
  BY OrderType
<1>2. \A i \in D : g[i] \in Nat /\ g[i] = Depth(order, i)
  BY LegIsLadder
<1>3. CASE order.legs = <<>>
  BY <1>1, <1>3 DEF MaxSets
<1>4. CASE order.legs # <<>>
  <2>1. ASSUME NEW i \in D
        PROVE  SumFunction([k \in DOMAIN Valid(order.legs[i]) |-> Valid(order.legs[i])[k].size]) = g[i]
    BY <1>1, DepthOfValid DEF Depth, Leg
  <2> HIDE DEF g
  <2>2. MaxSets = Min(S)
    <3>1. S = {SumFunction([k \in DOMAIN Valid(order.legs[i]) |-> Valid(order.legs[i])[k].size]) : i \in D}
      BY <2>1
    <3>2. MaxSets = Min({SumFunction([k \in DOMAIN Valid(order.legs[i]) |-> Valid(order.legs[i])[k].size]) : i \in D})
      BY <1>4 DEF MaxSets
    <3> HIDE DEF S
    <3> QED
      BY <3>1, <3>2
  <2>3. IsFiniteSet(S)
    <3> DEFINE h == [i \in D |-> g[i]]
    <3>1. h \in Surjection(D, S)
      BY DEF Surjection
    <3> HIDE DEF h, D, S
    <3> QED
      BY <1>1, <3>1, FS_Surjection
  <2>4. S # {} /\ S \subseteq Nat /\ S \subseteq Int /\ (\A i \in D : g[i] \in S)
        /\ \A x \in S : \E i \in D : x = g[i]
    BY <1>1, <1>2, <1>4
  <2> HIDE DEF S, D
  <2>5. MaxSets \in S /\ \A y \in S : MaxSets <= y
    BY <2>2, <2>3, <2>4, MinOfSet
  <2> QED
    BY <1>2, <1>4, <2>4, <2>5 DEF D
<1> QED
  BY <1>3, <1>4

LEMMA SharesAre ==
    ASSUME IsOrder(order), NEW s \in 1 .. MaxSets
    PROVE  /\ Within(order, s)
           /\ \A i \in DOMAIN order.legs : Share(Valid(order.legs[i]), s) = PriceRow(order, i)[s]
           /\ Margin(order, SetPrices(s)) = MarginRow(order)[s]
<1>1. s \in Nat \ {0} /\ \A i \in DOMAIN order.legs : s <= Depth(order, i)
  <2>1. MaxSets \in Nat /\ s \in Nat \ {0} /\ s <= MaxSets
    BY MaxSetsIs
  <2>2. \A i \in DOMAIN order.legs : MaxSets <= Depth(order, i) /\ Depth(order, i) \in Nat
    BY MaxSetsIs, LegIsLadder
  <2> QED
    BY <2>1, <2>2
<1>2. Within(order, s)
  BY <1>1 DEF Within
<1>3. ASSUME NEW i \in DOMAIN order.legs
      PROVE  Share(Valid(order.legs[i]), s) = PriceAt(order, i, s)
  <2> DEFINE L == Leg(order, i)
  <2>1. order.legs[i] \in Seq(Quote) /\ order.side \in {"buy", "sell"}
    BY OrderType
  <2>2. L = Sorted(order.side, order.legs[i]) /\ s \in Nat /\ 1 <= s /\ s <= Cum(L, Len(L))
    BY <1>1 DEF Leg, Depth
  <2> HIDE DEF L
  <2>3. Share(Valid(order.legs[i]), s) = L[At(L, s)].price
    BY <2>1, <2>2, ShareIs
  <2> QED
    BY <2>3 DEF L, PriceAt
<1>4. SetPrices(s) = SetAt(order, s)
  BY <1>3 DEF SetPrices, SetAt
<1>5. MarginRow(order)[s] = Margin(order, SetAt(order, s))
  BY <1>2, SetType
<1>6. \A i \in DOMAIN order.legs : PriceRow(order, i)[s] = PriceAt(order, i, s)
  BY <1>1 DEF PriceRow
<1> QED
  BY <1>2, <1>3, <1>4, <1>5, <1>6

LEMMA NetOfIs ==
    ASSUME IsOrder(order), NEW m \in 0 .. MaxSets
    PROVE  NetOf(m) = Total(MarginRow(order), 1 .. m)
<1> DEFINE S == 1 .. m
           g == [s \in S |-> Margin(order, SetPrices(s))]
           row == MarginRow(order)
<1>1. MaxSets \in Nat
  BY MaxSetsIs
<1>2. ASSUME NEW s \in S
      PROVE  g[s] = row[s] /\ g[s] \in Int
  <2>1. s \in 1 .. MaxSets
    BY <1>1
  <2>2. Within(order, s) /\ Margin(order, SetPrices(s)) = row[s]
    BY <2>1, SharesAre
  <2>3. row[s] \in Int
    BY <2>2, SetType
  <2> QED
    BY <2>2, <2>3
<1>3. IsFiniteSet(S)
  BY <1>1, FS_Interval
<1>4. NetOf(m) = SumFunction(g) /\ DOMAIN g = S
  BY DEF NetOf
<1>5. SumFunction(g) = Total(g, DOMAIN g)
  BY SumIsTotal
<1> HIDE DEF S, g, row
<1>6. Total(g, S) = Total(row, S)
  BY <1>2, <1>3, TotalCongruent
<1> QED
  BY <1>4, <1>5, <1>6 DEF S, row

\* The walk ends where the margins do.
LEMMA EndIsPeak ==
    ASSUME IsOrder(order), WalkHolds(order, walk), Ended
    PROVE  /\ walk.size \in Nat /\ MaxSets \in Nat /\ walk.size <= MaxSets
           /\ Peak(MarginRow(order), walk.size, MaxSets)
<1> DEFINE n == walk.size
           M == MaxSets
           D == DOMAIN order.legs
           row == MarginRow(order)
<1>1. /\ M \in Nat /\ (\A i \in D : M <= Depth(order, i))
      /\ order.legs = <<>> => M = 0
      /\ order.legs # <<>> => \E i \in D : M = Depth(order, i)
  BY MaxSetsIs
<1>2. /\ n \in Nat /\ (\A i \in D : LegHolds(order, walk, i)) /\ (\A s \in 1 .. n : row[s] > 0)
      /\ order.legs = <<>> => n = 0
  BY DEF WalkHolds
<1>3. \A i \in D : Depth(order, i) \in Nat /\ n <= Depth(order, i)
  BY <1>2, LegIsLadder, LegLeft
<1>4. n <= M
  BY <1>1, <1>2, <1>3
<1>5. \A s \in 1 .. M : Within(order, s) /\ row[s] \in Int
  BY SharesAre, SetType
<1>6. ASSUME NEW s \in n + 1 .. M
      PROVE  row[s] <= 0
  <2>1. s \in 1 .. M /\ n < s /\ s <= M
    BY <1>1, <1>2
  <2>2. ~Exhausted(order, walk)
    <3> SUFFICES ASSUME Exhausted(order, walk) PROVE FALSE
      OBVIOUS
    <3>1. order.legs # <<>>
      BY <1>1, <2>1
    <3>2. PICK i \in D : walk.at[i] > Len(walk.sorted[i])
      BY <3>1 DEF Exhausted
    <3>3. /\ walk.sorted[i] = Leg(order, i) /\ Len(Leg(order, i)) \in Nat
          /\ walk.at[i] \in 1 .. Len(Leg(order, i)) + 1
      BY <1>2, LegIsLadder DEF LegHolds, LegState
    <3>4. ~(walk.at[i] <= Len(Leg(order, i)))
      BY <3>2, <3>3
    <3>5. n = Depth(order, i)
      BY <1>2, <3>4, LegLeft
    <3>6. M <= n
      BY <1>1, <3>5
    <3> QED
      BY <1>1, <1>2, <2>1, <3>6
  <2>3. ~(Margin(order, Prices(order, walk)) > 0)
    BY <2>2 DEF Ended, Continues
  <2>4. Chunk(order, walk) \in Nat \ {0}
    BY <2>2, ChunkIs
  <2>5. n + 1 \in n + 1 .. n + Chunk(order, walk) /\ n + 1 \in Nat \ {0}
    BY <1>2, <2>4
  <2>6. Within(order, n + 1) /\ SetAt(order, n + 1) = Prices(order, walk)
    BY <2>2, <2>5, TurnSets
  <2>7. row[n + 1] = Margin(order, SetAt(order, n + 1)) /\ row[n + 1] \in Int
    BY <2>6, SetType
  <2>8. row[n + 1] <= 0
    BY <2>3, <2>6, <2>7
  <2>9. Within(order, s) /\ row[s] \in Int
    BY <1>5, <2>1
  <2>10. n + 1 <= s
    BY <1>1, <1>2, <2>1
  <2> HIDE DEF row
  <2>11. row[s] <= row[n + 1]
    BY <2>5, <2>9, <2>10, MarginFalls DEF row
  <2> QED
    BY <2>7, <2>8, <2>9, <2>11
<1>7. \A s \in 1 .. n : s \in 1 .. M
  BY <1>1, <1>2, <1>4
<1>8. \A s \in n + 1 .. M : s \in 1 .. M
  BY <1>1, <1>2, <1>4
<1> HIDE DEF n, M, row
<1>9. Peak(row, n, M)
  BY <1>2, <1>5, <1>6, <1>7, <1>8 DEF Peak
<1> QED
  BY <1>1, <1>2, <1>4, <1>9 DEF n, M, row

LEMMA EndIsBest ==
    ASSUME IsOrder(order), WalkHolds(order, walk)
    PROVE  WalkIsOptimal
<1> SUFFICES ASSUME Ended PROVE WalkIsOptimal
  BY DEF WalkIsOptimal
<1> DEFINE n == walk.size
           M == MaxSets
           row == MarginRow(order)
           net == [m \in 0 .. M |-> NetOf(m)]
           S == {NetOf(m) : m \in 0 .. M}
           best == Net(order, walk)
           T == {m \in 0 .. M : NetOf(m) = best}
<1>1. n \in Nat /\ M \in Nat /\ n <= M /\ Peak(row, n, M)
  BY EndIsPeak
<1>2. best = Total(row, 1 .. n)
  BY DEF WalkHolds
<1>3. \A m \in 0 .. M : NetOf(m) = Total(row, 1 .. m)
  BY NetOfIs
<1>4. \A m \in 0 .. M : NetOf(m) \in Int /\ NetOf(m) <= best /\ (m < n => NetOf(m) < best)
  <2> SUFFICES ASSUME NEW m \in 0 .. M
               PROVE  NetOf(m) \in Int /\ NetOf(m) <= best /\ (m < n => NetOf(m) < best)
    OBVIOUS
  <2>1. NetOf(m) = Total(row, 1 .. m)
    BY <1>3
  <2> HIDE DEF row, n, M, best
  <2>2. /\ Total(row, 1 .. m) \in Int
        /\ Total(row, 1 .. m) <= Total(row, 1 .. n)
        /\ m < n => Total(row, 1 .. m) < Total(row, 1 .. n)
    BY <1>1, PeakIsBest
  <2> QED
    BY <1>2, <2>1, <2>2
<1>5. n \in 0 .. M /\ NetOf(n) = best /\ best \in Int
  <2>1. n \in 0 .. M
    BY <1>1
  <2> HIDE DEF best, row
  <2> QED
    BY <1>2, <1>3, <1>4, <2>1
<1> HIDE DEF best
<1>6. Max(S) = best
  <2>1. best \in S /\ S \subseteq Int /\ \A y \in S : best >= y
    BY <1>4, <1>5
  <2> HIDE DEF S
  <2> QED
    BY <2>1, MaxIs
<1>7. Min(T) = n
  <2>1. \A m \in T : n <= m
    BY <1>1, <1>4
  <2>2. n \in T /\ T \subseteq Int
    BY <1>5
  <2> HIDE DEF T, n
  <2> QED
    BY <2>1, <2>2, MinIs
<1>8. ASSUME NEW i \in DOMAIN order.legs
      PROVE  walk.spent[i] = SumFunction([s \in 1 .. n |-> Share(Valid(order.legs[i]), s)])
  <2> DEFINE R == 1 .. n
             g == [s \in R |-> Share(Valid(order.legs[i]), s)]
             f == PriceRow(order, i)
  <2>1. walk.spent[i] = Total(f, R)
    BY DEF WalkHolds, LegHolds
  <2>2. ASSUME NEW s \in R
        PROVE  g[s] = f[s] /\ g[s] \in Int
    <3>1. s \in 1 .. MaxSets
      BY <1>1
    <3>2. Within(order, s) /\ Share(Valid(order.legs[i]), s) = f[s]
      BY <3>1, SharesAre
    <3>3. s \in Nat /\ s \in Nat \ {0} /\ s <= Depth(order, i) /\ f[s] = PriceAt(order, i, s)
      BY <3>2 DEF Within, PriceRow
    <3>4. f[s] \in Nat
      BY <3>3, ShareType
    <3> QED
      BY <3>2, <3>4
  <2>3. IsFiniteSet(R)
    BY <1>1, FS_Interval
  <2>4. SumFunction(g) = Total(g, DOMAIN g) /\ DOMAIN g = R
    BY SumIsTotal
  <2> HIDE DEF R, g, f
  <2>5. Total(g, R) = Total(f, R)
    BY <2>2, <2>3, TotalCongruent
  <2> QED
    BY <2>1, <2>4, <2>5 DEF g, R
<1> QED
  BY <1>6, <1>7, <1>8 DEF WalkIsOptimal, best

\* Until the first turn the walk is where it started; that turn takes the one-shot size.
FirstTurn(o, w) ==
    /\ w.size = 0 => w = Start(o)
    /\ w.size > 0 => TopLevelMinDepth(o.side, o.legs) \in 1 .. w.size

LEMMA FirstChunk ==
    ASSUME NEW o, IsOrder(o), ~Exhausted(o, Start(o))
    PROVE  TopLevelMinDepth(o.side, o.legs) = Chunk(o, Start(o))
<1> DEFINE D == DOMAIN o.legs
           w == Start(o)
<1>1. /\ \A i \in D : /\ w.sorted[i] = Leg(o, i) /\ w.at[i] = 1
                      /\ w.remaining[i] = IF Leg(o, i) = <<>> THEN 0 ELSE Leg(o, i)[1].size
  BY DEF Start, Leg
<1>2. \A i \in D : ~(1 > Len(Leg(o, i)))
  BY <1>1 DEF Exhausted
<1> HIDE DEF w
<1>3. ASSUME NEW i \in D
      PROVE  ValidAt(o.legs[i]) # {} /\ w.remaining[i] = Sorted(o.side, o.legs[i])[1].size
  <2>1. o.legs[i] \in Seq(Quote)
    BY OrderType
  <2>2. Len(Leg(o, i)) = Cardinality(ValidAt(o.legs[i])) /\ Leg(o, i) \in Seq(RealQuote)
    BY <2>1, SortedIsLadder DEF Leg, Ladder
  <2>3. ValidAt(o.legs[i]) # {}
    <3>1. Cardinality({}) = 0
      BY FS_EmptySet
    <3>2. ~(1 > Cardinality(ValidAt(o.legs[i])))
      BY <1>2, <2>2
    <3> QED
      BY <3>1, <3>2
  <2>4. Leg(o, i) # <<>>
    BY <1>2
  <2> QED
    BY <1>1, <2>3, <2>4 DEF Leg
<1>4. {w.remaining[i] : i \in D} = {Sorted(o.side, o.legs[i])[1].size : i \in D}
  BY <1>3
<1>5. TopLevelMinDepth(o.side, o.legs) = Min({Sorted(o.side, o.legs[i])[1].size : i \in D})
  BY <1>3 DEF TopLevelMinDepth
<1> HIDE DEF D
<1>6. Chunk(o, w) = Min({w.remaining[i] : i \in D})
  BY DEF Chunk, D
<1> QED
  BY <1>4, <1>5, <1>6 DEF w

LEMMA FirstTurnKept ==
    ASSUME NEW o, IsOrder(o), NEW w, WalkHolds(o, w), FirstTurn(o, w), Continues(o, w)
    PROVE  FirstTurn(o, Slice(o, w))
<1>1. ~Exhausted(o, w)
  BY DEF Continues
<1>2. Chunk(o, w) \in Nat \ {0} /\ w.size \in Nat /\ Slice(o, w).size = w.size + Chunk(o, w)
  BY <1>1, ChunkIs, SliceHolds DEF WalkHolds
<1> DEFINE t == TopLevelMinDepth(o.side, o.legs)
           c == Chunk(o, w)
<1>3. CASE w.size = 0
  <2>1. w = Start(o)
    BY <1>3 DEF FirstTurn
  <2>2. t = c
    BY <1>1, <2>1, FirstChunk
  <2> QED
    BY <1>2, <1>3, <2>2 DEF FirstTurn
<1>4. CASE w.size # 0
  <2>1. t \in 1 .. w.size
    BY <1>2, <1>4 DEF FirstTurn
  <2> QED
    BY <1>2, <1>4, <2>1 DEF FirstTurn
<1> QED
  BY <1>3, <1>4

-----------------------------------------------------------------------------
WalkInv == IsOrder(order) /\ WalkHolds(order, walk) /\ FirstTurn(order, walk)

(* Before every turn, for all orders: each leg stands at the level whose   *)
(* shares up to it make the size, it has been charged the shares before,   *)
(* and every set so far paid.                                              *)
THEOREM WalkKept == WalkSpec => []WalkInv
<1>1. WalkInit => WalkInv
  <2> SUFFICES ASSUME WalkInit PROVE WalkInv
    OBVIOUS
  <2>1. IsOrder(order) /\ walk = Start(order)
    BY DepthWalkAssumption DEF WalkInit
  <2>2. WalkHolds(order, walk) /\ walk.size = 0
    BY <2>1, StartHolds
  <2> QED
    BY <2>1, <2>2 DEF WalkInv, FirstTurn
<1>2. WalkInv /\ [WalkNext]_walkVars => WalkInv'
  <2> SUFFICES ASSUME WalkInv, [WalkNext]_walkVars PROVE WalkInv'
    OBVIOUS
  <2>1. CASE WalkNext
    <3>1. Continues(order, walk) /\ walk' = Slice(order, walk) /\ order' = order
      BY <2>1 DEF WalkNext, Turn
    <3>2. IsOrder(order) /\ WalkHolds(order, walk) /\ FirstTurn(order, walk)
      BY DEF WalkInv
    <3>3. WalkHolds(order, Slice(order, walk)) /\ FirstTurn(order, Slice(order, walk))
      BY <3>1, <3>2, SliceHolds, FirstTurnKept
    <3>4. IsOrder(order') /\ WalkHolds(order', walk') /\ FirstTurn(order', walk')
      BY <3>1, <3>2, <3>3
    <3> QED
      BY <3>4 DEF WalkInv
  <2>2. CASE UNCHANGED walkVars
    <3>1. order' = order /\ walk' = walk
      BY <2>2 DEF walkVars
    <3>2. IsOrder(order') /\ WalkHolds(order', walk') /\ FirstTurn(order', walk')
      BY <3>1 DEF WalkInv
    <3> QED
      BY <3>2 DEF WalkInv
  <2> QED
    BY <2>1, <2>2
<1> QED
  BY <1>1, <1>2, PTL DEF WalkSpec

(* The walk is as good as trading share by share, for all orders.          *)
THEOREM WalkIsBest == WalkSpec => []WalkIsOptimal
<1>1. WalkInv => WalkIsOptimal
  BY EndIsBest DEF WalkInv
<1> QED
  BY <1>1, WalkKept, PTL

(* The one-shot size is within the size of a walk, for all orders.         *)
THEOREM ConservativeHolds == WalkSpec => []ConservativeIsWithin
<1>1. WalkInv => ConservativeIsWithin
  BY DEF WalkInv, FirstTurn, ConservativeIsWithin
<1> QED
  BY <1>1, WalkKept, PTL

-----------------------------------------------------------------------------
(* The walk as the function the detectors call: it is the loop, so what     *)
(* holds before every turn holds of what it returns.                        *)

IsRun(g, o, turns) ==
    g = [n \in 0..turns |->
            IF n = 0 THEN Start(o)
            ELSE LET w == g[n - 1] IN IF Continues(o, w) THEN Slice(o, w) ELSE w]

LEMMA WalkedDefined ==
    ASSUME NEW o, NEW turns
    PROVE  WalkedFor(o, turns) = (CHOOSE g : IsRun(g, o, turns))[turns]
BY DEF WalkedFor, IsRun

LEMMA RunExists ==
    ASSUME NEW o, NEW turns \in Nat
    PROVE  \E g : IsRun(g, o, turns)
<1> DEFINE P == {n \in Nat : \E g : IsRun(g, o, n)}
           turned(w) == IF Continues(o, w) THEN Slice(o, w) ELSE w
<1>1. 0 \in P
  <2>1. IsRun([n \in 0..0 |-> Start(o)], o, 0)
    BY DEF IsRun
  <2> QED
    BY <2>1
<1>2. ASSUME NEW n \in Nat, n \in P
      PROVE  n + 1 \in P
  <2>1. PICK g : IsRun(g, o, n)
    BY <1>2
  <2> DEFINE h == [k \in 0..(n + 1) |-> IF k = n + 1 THEN turned(g[n]) ELSE g[k]]
  <2>2. \A k \in 0..n : g[k] = IF k = 0 THEN Start(o) ELSE turned(g[k - 1])
    BY <2>1 DEF IsRun
  <2>3. ASSUME NEW k \in 0..(n + 1)
        PROVE  h[k] = IF k = 0 THEN Start(o) ELSE turned(h[k - 1])
    <3> HIDE DEF turned
    <3>1. CASE k = n + 1
      <4>1. k # 0 /\ k - 1 = n /\ n \in 0..(n + 1) /\ n # n + 1
        BY <3>1
      <4> QED
        BY <3>1, <4>1
    <3>2. CASE k # n + 1
      <4>1. k \in 0..n /\ (k # 0 => k - 1 \in 0..(n + 1) /\ k - 1 # n + 1)
        BY <3>2
      <4> QED
        BY <2>2, <3>2, <4>1
    <3> QED
      BY <3>1, <3>2
  <2>4. h = [k \in 0..(n + 1) |-> h[k]]
    OBVIOUS
  <2> HIDE DEF h
  <2>5. h = [k \in 0..(n + 1) |-> IF k = 0 THEN Start(o) ELSE turned(h[k - 1])]
    BY <2>3, <2>4
  <2>6. IsRun(h, o, n + 1)
    BY <2>5 DEF IsRun
  <2> QED
    BY <2>6
<1> HIDE DEF P
<1>3. turns \in P
  BY <1>1, <1>2, NumberInduction
<1> QED
  BY <1>3 DEF P

LEMMA WalkedForHolds ==
    ASSUME NEW o, IsOrder(o), NEW turns \in Nat
    PROVE  WalkHolds(o, WalkedFor(o, turns))
<1> DEFINE g == CHOOSE g : IsRun(g, o, turns)
           P == {n \in Nat : n <= turns => WalkHolds(o, g[n])}
<1>1. IsRun(g, o, turns)
  BY RunExists
<1>2. WalkedFor(o, turns) = g[turns]
  BY WalkedDefined
<1> HIDE DEF g
<1>3. \A n \in 0..turns :
        g[n] = IF n = 0 THEN Start(o)
               ELSE IF Continues(o, g[n - 1]) THEN Slice(o, g[n - 1]) ELSE g[n - 1]
  BY <1>1 DEF IsRun
<1>4. 0 \in P
  BY <1>3, StartHolds
<1>5. ASSUME NEW n \in Nat, n \in P
      PROVE  n + 1 \in P
  <2> SUFFICES ASSUME n + 1 <= turns PROVE WalkHolds(o, g[n + 1])
    OBVIOUS
  <2>1. n + 1 \in 0..turns /\ n + 1 # 0 /\ (n + 1) - 1 = n /\ n <= turns
    OBVIOUS
  <2>2. WalkHolds(o, g[n])
    BY <1>5, <2>1
  <2> DEFINE w == g[n]
  <2>3. g[n + 1] = IF Continues(o, w) THEN Slice(o, w) ELSE w
    BY <1>3, <2>1
  <2>4. WalkHolds(o, w)
    BY <2>2
  <2> HIDE DEF w
  <2> QED
    BY <2>3, <2>4, SliceHolds
<1> HIDE DEF P
<1>6. turns \in P
  BY <1>4, <1>5, NumberInduction
<1> QED
  BY <1>2, <1>6 DEF P

LEMMA WalkedHolds ==
    ASSUME NEW o, IsOrder(o)
    PROVE  WalkHolds(o, Walked(o))
<1> DEFINE lens == [i \in DOMAIN o.legs |-> Len(o.legs[i])]
<1>1. IsFiniteSet(DOMAIN o.legs) /\ \A i \in DOMAIN o.legs : o.legs[i] \in Seq(Quote)
  BY OrderType
<1>2. DOMAIN lens = DOMAIN o.legs /\ \A i \in DOMAIN o.legs : lens[i] \in Nat
  BY <1>1
<1>3. Walked(o) = WalkedFor(o, SumFunction(lens))
  BY DEF Walked
<1> HIDE DEF lens
<1>4. SumFunction(lens) \in Nat
  <2>1. SumFunction(lens) = Total(lens, DOMAIN lens)
    BY SumIsTotal
  <2>2. Total(lens, DOMAIN lens) \in Nat
    BY <1>1, <1>2, TotalNat
  <2> QED
    BY <2>1, <2>2
<1> QED
  BY <1>3, <1>4, WalkedForHolds

\* The first set of a trade pays, and is bought or sold at real levels of the books.
LEMMA FirstSet ==
    ASSUME NEW o, IsOrder(o), NEW w, WalkHolds(o, w), w.size > 0
    PROVE  /\ SetAt(o, 1) \in [DOMAIN o.legs -> Nat] /\ Margin(o, SetAt(o, 1)) > 0
           /\ \A i \in DOMAIN o.legs : \E j \in ValidAt(o.legs[i]) :
                o.legs[i][j].price = SetAt(o, 1)[i]
<1>1. w.size \in Nat /\ 1 \in 1 .. w.size /\ 1 \in Nat \ {0}
  BY DEF WalkHolds
<1>2. \A i \in DOMAIN o.legs : w.size <= Depth(o, i) /\ Depth(o, i) \in Nat
  BY LegLeft, LegIsLadder DEF WalkHolds
<1>3. \A i \in DOMAIN o.legs : 1 <= Depth(o, i)
  BY <1>1, <1>2
<1>4. Within(o, 1)
  BY <1>3 DEF Within
<1>5. SetAt(o, 1) \in [DOMAIN o.legs -> Nat] /\ MarginRow(o)[1] = Margin(o, SetAt(o, 1))
  BY <1>4, SetType
<1>6. MarginRow(o)[1] > 0
  BY <1>1 DEF WalkHolds
<1>7. ASSUME NEW i \in DOMAIN o.legs
      PROVE  \E j \in ValidAt(o.legs[i]) : o.legs[i][j].price = SetAt(o, 1)[i]
  <2> DEFINE levels == o.legs[i]
             L == Leg(o, i)
             keep == ValidAt(levels)
             key == Key(o.side, levels)
             n == At(L, 1)
             N == 1 .. Cardinality(keep)
  <2>1. levels \in Seq(Quote)
    BY OrderType
  <2>2. Ladder(o.side, L) /\ Len(L) = Cardinality(keep)
    BY <2>1, SortedIsLadder DEF Leg
  <2>3. 1 <= Cum(L, Len(L))
    BY <1>3 DEF Depth
  <2>4. /\ IsFiniteSet(keep) /\ keep \subseteq Int
        /\ \A k \in keep : key[k] \in Int
    BY <2>1, ValidLevels
  <2>5. L = Arranged(levels, keep, key)
    BY DEF Sorted, Key, Leg
  <2>6. SetAt(o, 1)[i] = L[n].price
    BY DEF SetAt, PriceAt
  <2>7. N = 1 .. Cardinality(keep)
    OBVIOUS
  <2> HIDE DEF L, keep, key, levels, N
  <2>8. n \in DOMAIN L
    BY <2>2, <2>3, AtExists
  <2>9. n \in N
    BY <2>2, <2>8, LadderType DEF N
  <2> HIDE DEF n
  <2>10. Placed(keep, key, n) \in keep
    BY <2>4, <2>7, <2>9, PlaceReached
  <2>12. Arranged(levels, keep, key)[n] = levels[Placed(keep, key, n)]
    BY <2>7, <2>9 DEF Arranged, Placed
  <2>11. levels[Placed(keep, key, n)].price = SetAt(o, 1)[i]
    BY <2>5, <2>6, <2>12
  <2> QED
    BY <2>10, <2>11 DEF levels, keep
<1> QED
  BY <1>5, <1>6, <1>7

-----------------------------------------------------------------------------
(* What the detectors trade.  A trade is the arguments of Opportunities; a  *)
(* detector is the opportunities of the trades its guards let through.      *)

Trade(detector, side, markets, tokens, worth, per, realizes) ==
    [detector |-> detector, side |-> side, markets |-> markets, tokens |-> tokens,
     worth |-> worth, per |-> per, realizes |-> realizes]

Of(snap, t) ==
    Opportunities(t.detector, snap, t.side, t.markets, t.tokens, t.worth, t.per, t.realizes)

OrderFor(snap, t) ==
    [side |-> t.side, worth |-> t.worth, per |-> t.per,
     legs |-> [i \in 1 .. Len(t.tokens) |->
                 IF t.side = "buy" THEN snap.books[t.tokens[i]].asks ELSE snap.books[t.tokens[i]].bids],
     rates |-> [i \in 1 .. Len(t.tokens) |-> FeeRate(t.markets[i])]]

IsSnapshot(snap) ==
    /\ snap.books \in [DOMAIN snap.books -> OrderBooks]
    /\ Range(snap.markets) \subseteq Markets /\ snap.event \in Events
    /\ snap.gas \in Nat /\ snap.gas_per_leg \in Nat

IsTrade(snap, t) ==
    /\ t.side \in {"buy", "sell"} /\ t.worth \in Nat /\ t.per \in Nat \ {0}
    /\ t.markets \in Seq(Markets) /\ t.tokens \in Seq(DOMAIN snap.books)
    /\ Len(t.markets) = Len(t.tokens)
    /\ \A i \in DOMAIN t.tokens : t.tokens[i] \in Range(t.markets[i].tokens)

\* The walk of a trade.
LEMMA TradeIsOrder ==
    ASSUME NEW snap, IsSnapshot(snap), NEW t, IsTrade(snap, t)
    PROVE  IsOrder(OrderFor(snap, t))
<1> DEFINE n == Len(t.tokens)
           o == OrderFor(snap, t)
<1>1. n \in Nat /\ \A i \in 1 .. n : t.tokens[i] \in DOMAIN snap.books /\ t.markets[i] \in Markets
  BY DEF IsTrade
<1>2. ASSUME NEW i \in 1 .. n
      PROVE  o.legs[i] \in Seq(Quote) /\ o.rates[i] \in 0 .. RateUnit
  <2>1. snap.books[t.tokens[i]] \in OrderBooks
    BY <1>1 DEF IsSnapshot
  <2>2. o.legs[i] \in Seq(Quote)
    BY <2>1 DEF OrderBooks, OrderFor
  <2>3. t.markets[i].fee_rate \in 0 .. RateUnit /\ 0 \in 0 .. RateUnit
    BY <1>1, Units DEF Markets
  <2>4. o.rates[i] \in 0 .. RateUnit
    BY <2>3 DEF OrderFor, FeeRate
  <2> QED
    BY <2>2, <2>4
<1>3. o.legs = [i \in 1 .. n |-> o.legs[i]] /\ o.rates = [i \in 1 .. n |-> o.rates[i]]
  BY DEF OrderFor
<1>4. o.side = t.side /\ o.worth = t.worth /\ o.per = t.per
  BY DEF OrderFor
<1> HIDE DEF o, n
<1>5. o.legs \in [1 .. n -> Seq(Quote)] /\ o.rates \in [1 .. n -> 0 .. RateUnit]
  BY <1>2, <1>3
<1>6. o.legs \in Seq(Seq(Quote)) /\ DOMAIN o.legs = 1 .. n
  BY <1>1, <1>5
<1>7. IsOrder(o)
  BY <1>4, <1>5, <1>6 DEF IsOrder, IsTrade
<1> QED
  BY <1>7 DEF o

\* What a reported trade says of itself.
IsOpportunityOf(p, snap, t) ==
    LET o == OrderFor(snap, t)
        w == Walked(o)
        n == Len(t.tokens)
    IN  /\ w.size # 0 /\ Net(o, w) - t.per * GasFor(snap, n) > 0
        /\ p.detector = t.detector /\ p.side = t.side /\ p.realizes = t.realizes
        /\ p.markets = Range(t.markets) /\ p.size = w.size
        /\ p.legs = [i \in 1 .. n |-> [token |-> t.tokens[i], spent |-> w.spent[i]]]
        /\ p.fees = w.fees /\ p.gas = GasFor(snap, n)
        /\ p.net = Net(o, w) - t.per * GasFor(snap, n)

\* An opportunity is of the trade it was sized for.
LEMMA OpportunityIs ==
    ASSUME NEW snap, NEW t, NEW p \in Of(snap, t)
    PROVE  IsOpportunityOf(p, snap, t)
<1> DEFINE o == OrderFor(snap, t)
           w == Walked(o)
           n == Len(t.tokens)
           g == GasFor(snap, n)
<1>1. Of(snap, t) =
        IF w.size = 0 \/ ~Clears(o, w, g) THEN {}
        ELSE {[detector |-> t.detector, side |-> t.side, realizes |-> t.realizes,
               markets |-> Range(t.markets), size |-> w.size,
               conservative |-> TopLevelMinDepth(t.side, o.legs),
               legs |-> [i \in 1 .. n |-> [token |-> t.tokens[i], spent |-> w.spent[i]]],
               fees |-> w.fees, gas |-> g, net |-> Net(o, w) - t.per * g]}
  BY DEF Of, Opportunities, OrderFor
<1>2. o.per = t.per
  BY DEF OrderFor
<1> HIDE DEF o, w, n, g
<1>3. w.size # 0 /\ Net(o, w) - t.per * g > 0
  BY <1>1, <1>2 DEF Clears
<1>4. p = [detector |-> t.detector, side |-> t.side, realizes |-> t.realizes,
           markets |-> Range(t.markets), size |-> w.size,
           conservative |-> TopLevelMinDepth(t.side, o.legs),
           legs |-> [i \in 1 .. n |-> [token |-> t.tokens[i], spent |-> w.spent[i]]],
           fees |-> w.fees, gas |-> g, net |-> Net(o, w) - t.per * g]
  BY <1>1, <1>3
<1> QED
  BY <1>3, <1>4 DEF IsOpportunityOf, o, w, n, g

\* There is at most one opportunity to a trade.
LEMMA OpportunityOnce ==
    ASSUME NEW snap, NEW t, NEW p \in Of(snap, t), NEW q \in Of(snap, t)
    PROVE  p = q
BY DEF Of, Opportunities

\* It depends on the books of its tokens only.
LEMMA OpportunitySame ==
    ASSUME NEW snap, NEW other, NEW t,
           snap.gas = other.gas, snap.gas_per_leg = other.gas_per_leg,
           \A i \in 1 .. Len(t.tokens) : snap.books[t.tokens[i]] = other.books[t.tokens[i]]
    PROVE  Of(snap, t) = Of(other, t)
<1>1. [i \in 1 .. Len(t.tokens) |->
         IF t.side = "buy" THEN snap.books[t.tokens[i]].asks ELSE snap.books[t.tokens[i]].bids]
      = [i \in 1 .. Len(t.tokens) |->
         IF t.side = "buy" THEN other.books[t.tokens[i]].asks ELSE other.books[t.tokens[i]].bids]
  OBVIOUS
<1> QED
  BY <1>1 DEF Of, Opportunities, GasFor

\* A reported trade has a size and a profit.
LEMMA OpportunityPays ==
    ASSUME NEW snap, IsSnapshot(snap), NEW t, IsTrade(snap, t), NEW p \in Of(snap, t)
    PROVE  p.size \in Nat \ {0} /\ p.net > 0
<1> DEFINE o == OrderFor(snap, t)
<1>1. IsOrder(o)
  BY TradeIsOrder
<1>2. IsOpportunityOf(p, snap, t)
  BY OpportunityIs
<1>3. p.size = Walked(o).size /\ p.size # 0 /\ p.net > 0
  BY <1>2 DEF IsOpportunityOf
<1> HIDE DEF o
<1>4. Walked(o).size \in Nat
  BY <1>1, WalkedHolds DEF WalkHolds
<1> QED
  BY <1>3, <1>4

-----------------------------------------------------------------------------
(* Markets, partitions of an event.                                         *)

\* A binary market has its YES and its NO token.
LEMMA MarketTokens ==
    ASSUME NEW m \in Markets
    PROVE  /\ YesIndex(m) \in {1, 2} /\ Len(m.tokens) \in Nat
           /\ IsBinary(m) => /\ DOMAIN m.tokens = 1 .. 2
                             /\ YesIndex(m) \in DOMAIN m.tokens /\ 3 - YesIndex(m) \in DOMAIN m.tokens
                             /\ YesToken(m) \in Range(m.tokens) /\ NoToken(m) \in Range(m.tokens)
<1>1. m.tokens \in Seq(STRING)
  BY DEF Markets
<1>2. YesIndex(m) \in {1, 2}
  BY DEF YesIndex
<1>3. ASSUME IsBinary(m)
      PROVE  /\ DOMAIN m.tokens = 1 .. 2
             /\ YesIndex(m) \in DOMAIN m.tokens /\ 3 - YesIndex(m) \in DOMAIN m.tokens
             /\ YesToken(m) \in Range(m.tokens) /\ NoToken(m) \in Range(m.tokens)
  <2>1. DOMAIN m.tokens = 1 .. 2
    BY <1>1, <1>3 DEF IsBinary
  <2>2. YesIndex(m) \in DOMAIN m.tokens /\ 3 - YesIndex(m) \in DOMAIN m.tokens
    BY <1>2, <2>1
  <2> QED
    BY <2>1, <2>2 DEF YesToken, NoToken, Range
<1> QED
  BY <1>1, <1>2, <1>3

\* The live partition of an event: its open markets, at least two, all of them live, and
\* what is not in it has lost.
IsPartition(e, live, pos) ==
    /\ live \in Seq(Markets) /\ Len(live) >= 2
    /\ IsSelection(live, e.markets, {i \in DOMAIN e.markets : ~e.markets[i].closed}, pos)
    /\ \A i \in DOMAIN e.markets : LostOrLive(e.markets[i])

LEMMA PartitionIs ==
    ASSUME NEW e \in Events, NEW skip \in BOOLEAN, LivePartition(e, skip) # <<>>
    PROVE  /\ \E pos : IsPartition(e, LivePartition(e, skip), pos)
           /\ skip => ~e.augmented
<1> DEFINE keep == {i \in DOMAIN e.markets : ~e.markets[i].closed}
           live == Selected(e.markets, keep)
<1>1. e.markets \in Seq(Markets)
  BY DEF Events
<1>2. keep \in SUBSET DOMAIN e.markets
  OBVIOUS
<1>3. /\ LivePartition(e, skip) = live /\ ~(skip /\ e.augmented)
      /\ \A m \in Range(e.markets) : LostOrLive(m)
      /\ Len(live) >= 2
  BY DEF LivePartition
<1>4. \A i \in DOMAIN e.markets : LostOrLive(e.markets[i])
  BY <1>3 DEF Range
<1>5. keep = {i \in DOMAIN e.markets : ~e.markets[i].closed}
  OBVIOUS
<1> HIDE DEF keep
<1>6. live \in Seq(Markets) /\ \E pos : IsSelection(live, e.markets, keep, pos)
  BY <1>1, <1>2, SelectedIs
<1>7. \E pos : IsPartition(e, live, pos)
  BY <1>3, <1>4, <1>5, <1>6 DEF IsPartition
<1> QED
  BY <1>3, <1>7

\* A member of the live partition.
LEMMA PartitionLive ==
    ASSUME NEW e \in Events, NEW live, NEW pos, IsPartition(e, live, pos), NEW n \in DOMAIN live
    PROVE  /\ live[n] \in Markets /\ Live(live[n]) /\ IsBinary(live[n])
           /\ pos[n] \in DOMAIN e.markets /\ live[n] = e.markets[pos[n]] /\ ~live[n].closed
<1>1. e.markets \in Seq(Markets)
  BY DEF Events
<1>2. pos[n] \in {i \in DOMAIN e.markets : ~e.markets[i].closed} /\ live[n] = e.markets[pos[n]]
  BY DEF IsPartition, IsSelection
<1>3. pos[n] \in DOMAIN e.markets /\ ~live[n].closed /\ LostOrLive(live[n]) /\ live[n] \in Markets
  BY <1>1, <1>2 DEF IsPartition
<1>4. Live(live[n])
  BY <1>3 DEF LostOrLive
<1> QED
  BY <1>2, <1>3, <1>4 DEF Live

-----------------------------------------------------------------------------
(* The detectors as sets of trades.                                         *)

SoundBook(snap, k) ==
    /\ k \in DOMAIN snap.books
    /\ ~IsCrossed(snap.books[k]) /\ ~IsCorrupt(snap.books[k])

ComplementTrade(snap, t) ==
    \E m \in Range(snap.markets), side \in {"buy", "sell"} :
        /\ IsBinary(m) /\ SoundBook(snap, YesToken(m)) /\ SoundBook(snap, NoToken(m))
        /\ t = Trade("complement", side, <<m, m>>, <<YesToken(m), NoToken(m)>>, 1, 1, "instant")

DependencyTrade(snap, t) ==
    \E a \in Range(snap.markets), b \in Range(snap.markets) :
        /\ <<a.id, b.id>> \in snap.relations /\ a # b
        /\ IsBinary(a) /\ IsBinary(b)
        /\ ClassifyMarket(a) = "objective" /\ ClassifyMarket(b) = "objective"
        /\ Buyable(snap, NoToken(a)) /\ Buyable(snap, YesToken(b))
        /\ t = Trade("dependency", "buy", <<b, a>>, <<YesToken(b), NoToken(a)>>, 1, 1, "resolution")

YesTokens(live) == [i \in DOMAIN live |-> YesToken(live[i])]
NoTokens(live) == [i \in DOMAIN live |-> NoToken(live[i])]

BasketTrade(snap, t) ==
    LET live == LivePartition(snap.event, TRUE)
    IN  /\ IsMultiOutcome(snap.event) /\ live # <<>>
        /\ \A i \in DOMAIN live : Sound(snap, YesToken(live[i]))
        /\ t = Trade("negrisk_basket", "buy", live, YesTokens(live), 1, 1, "resolution")

DualTrade(snap, t) ==
    LET live == LivePartition(snap.event, FALSE)
    IN  /\ IsMultiOutcome(snap.event) /\ live # <<>>
        /\ \A i \in DOMAIN live : ClassifyMarket(live[i]) = "objective"
        /\ \A i \in DOMAIN live : Sound(snap, NoToken(live[i]))
        /\ t = Trade("negrisk_dual", "buy", live, NoTokens(live), Len(live) - 1, 1, "resolution")

AskOf(snap, m) ==
    IF Buyable(snap, YesToken(m)) THEN BestAsk(snap.books[YesToken(m)]) ELSE m.best_ask

AsksOf(snap, ms) == SumFunction([i \in DOMAIN ms |-> AskOf(snap, ms[i])])

BuyablePart(snap, live) == Selected(live, {i \in DOMAIN live : Buyable(snap, YesToken(live[i]))})

PartialTrade(snap, t) ==
    LET live == LivePartition(snap.event, TRUE)
        some == BuyablePart(snap, live)
    IN  /\ IsMultiOutcome(snap.event)
        /\ Len(some) >= 2 /\ Len(some) < Len(live)
        /\ \A i \in DOMAIN live : AskOf(snap, live[i]) > 0
        /\ t = Trade("partial_basket", "buy", some, YesTokens(some),
                     AsksOf(snap, some), AsksOf(snap, live), "resolution")

IsTradeOf(d, snap, t) ==
    \/ d = "complement" /\ ComplementTrade(snap, t)
    \/ d = "dependency" /\ DependencyTrade(snap, t)
    \/ d = "negrisk_basket" /\ BasketTrade(snap, t)
    \/ d = "negrisk_dual" /\ DualTrade(snap, t)
    \/ d = "partial_basket" /\ PartialTrade(snap, t)

DetectorNames == {"complement", "dependency", "negrisk_basket", "negrisk_dual", "partial_basket"}

LEMMA DetectorsAre ==
    ASSUME NEW snap
    PROVE  /\ Detect("complement", snap) = Complement(snap)
           /\ Detect("dependency", snap) = Dependency(snap)
           /\ Detect("negrisk_basket", snap) = IF IsMultiOutcome(snap.event) THEN NegRiskBasket(snap) ELSE {}
           /\ Detect("negrisk_dual", snap) = IF IsMultiOutcome(snap.event) THEN NegRiskDual(snap) ELSE {}
           /\ Detect("partial_basket", snap) = IF IsMultiOutcome(snap.event) THEN PartialBasket(snap) ELSE {}
BY DEF Detect, EventDetectors

LEMMA ComplementIs ==
    ASSUME NEW snap, NEW p
    PROVE  p \in Complement(snap) <=> \E t : ComplementTrade(snap, t) /\ p \in Of(snap, t)
<1> DEFINE pair(m) == <<YesToken(m), NoToken(m)>>
           trade(m, side) == Trade("complement", side, <<m, m>>, pair(m), 1, 1, "instant")
           ok(m) == IsBinary(m) /\ \A k \in Range(pair(m)) : SoundBook(snap, k)
<1>1. Complement(snap) =
        UNION {Of(snap, trade(m, side)) : m \in {k \in Range(snap.markets) : ok(k)}, side \in {"buy", "sell"}}
  BY DEF Complement, Of, Trade, SoundBook
<1>2. \A m : Range(pair(m)) = {YesToken(m), NoToken(m)}
  BY DEF Range
<1>3. \A m : ok(m) <=> IsBinary(m) /\ SoundBook(snap, YesToken(m)) /\ SoundBook(snap, NoToken(m))
  BY <1>2
<1>4. ASSUME NEW t
      PROVE  ComplementTrade(snap, t) <=>
               \E m \in {k \in Range(snap.markets) : ok(k)}, side \in {"buy", "sell"} : t = trade(m, side)
  <2> HIDE DEF ok
  <2>1. ComplementTrade(snap, t) <=>
          \E m \in Range(snap.markets), side \in {"buy", "sell"} : ok(m) /\ t = trade(m, side)
    BY <1>3 DEF ComplementTrade
  <2> QED
    BY <2>1
<1> HIDE DEF ok, trade
<1>5. p \in Complement(snap) <=>
        \E m \in {k \in Range(snap.markets) : ok(k)}, side \in {"buy", "sell"} : p \in Of(snap, trade(m, side))
  BY <1>1
<1> QED
  BY <1>4, <1>5

LEMMA DependencyIs ==
    ASSUME NEW snap, NEW p
    PROVE  p \in Dependency(snap) <=> \E t : DependencyTrade(snap, t) /\ p \in Of(snap, t)
<1> DEFINE trade(a, b) == Trade("dependency", "buy", <<b, a>>, <<YesToken(b), NoToken(a)>>, 1, 1, "resolution")
           ok(a, b) == /\ <<a.id, b.id>> \in snap.relations /\ a # b
                       /\ IsBinary(a) /\ IsBinary(b)
                       /\ ClassifyMarket(a) = "objective" /\ ClassifyMarket(b) = "objective"
                       /\ Buyable(snap, NoToken(a)) /\ Buyable(snap, YesToken(b))
           M == Range(snap.markets)
           Q == {q \in M \X M : ok(q[1], q[2])}
<1>1. ASSUME NEW q \in M \X M
      PROVE  ok(q[1], q[2]) <=>
               /\ <<q[1].id, q[2].id>> \in snap.relations /\ q[1] # q[2]
               /\ \A m \in Range(q) : IsBinary(m) /\ ClassifyMarket(m) = "objective"
               /\ Buyable(snap, NoToken(q[1])) /\ Buyable(snap, YesToken(q[2]))
  <2>1. Range(q) = {q[1], q[2]}
    BY DEF Range
  <2> QED
    BY <2>1
<1>2. Q = {q \in M \X M :
             /\ <<q[1].id, q[2].id>> \in snap.relations /\ q[1] # q[2]
             /\ \A m \in Range(q) : IsBinary(m) /\ ClassifyMarket(m) = "objective"
             /\ Buyable(snap, NoToken(q[1])) /\ Buyable(snap, YesToken(q[2]))}
  <2> HIDE DEF M, ok
  <2> QED
    BY <1>1
<1>3. Dependency(snap) =
        UNION {Of(snap, trade(q[1], q[2])) : q \in
          {q \in M \X M :
             /\ <<q[1].id, q[2].id>> \in snap.relations /\ q[1] # q[2]
             /\ \A m \in Range(q) : IsBinary(m) /\ ClassifyMarket(m) = "objective"
             /\ Buyable(snap, NoToken(q[1])) /\ Buyable(snap, YesToken(q[2]))}}
  BY DEF Dependency, Of, Trade
<1>4. Dependency(snap) = UNION {Of(snap, trade(q[1], q[2])) : q \in Q}
  BY <1>2, <1>3
<1>5. \A t : DependencyTrade(snap, t) <=> \E a \in M, b \in M : ok(a, b) /\ t = trade(a, b)
  BY DEF DependencyTrade
<1> HIDE DEF ok, trade, M
<1>6. p \in Dependency(snap) <=> \E q \in Q : p \in Of(snap, trade(q[1], q[2]))
  <2> HIDE DEF Q
  <2> QED
    BY <1>4
<1>7. (\E q \in Q : p \in Of(snap, trade(q[1], q[2]))) <=>
        \E a \in M, b \in M : ok(a, b) /\ p \in Of(snap, trade(a, b))
  <2>1. ASSUME NEW a \in M, NEW b \in M, ok(a, b), p \in Of(snap, trade(a, b))
        PROVE  \E q \in Q : p \in Of(snap, trade(q[1], q[2]))
    <3>1. <<a, b>> \in Q /\ <<a, b>>[1] = a /\ <<a, b>>[2] = b
      BY <2>1
    <3> QED
      BY <2>1, <3>1
  <2>2. ASSUME NEW q \in Q, p \in Of(snap, trade(q[1], q[2]))
        PROVE  \E a \in M, b \in M : ok(a, b) /\ p \in Of(snap, trade(a, b))
    <3>1. q[1] \in M /\ q[2] \in M /\ ok(q[1], q[2])
      OBVIOUS
    <3> QED
      BY <2>2, <3>1
  <2> QED
    BY <2>1, <2>2
<1> QED
  BY <1>5, <1>6, <1>7

LEMMA EventTradesAre ==
    ASSUME NEW snap, NEW p
    PROVE  /\ p \in Detect("negrisk_basket", snap) <=> \E t : BasketTrade(snap, t) /\ p \in Of(snap, t)
           /\ p \in Detect("negrisk_dual", snap) <=> \E t : DualTrade(snap, t) /\ p \in Of(snap, t)
<1>1. \A live : Range(YesTokens(live)) = {YesToken(live[i]) : i \in DOMAIN live}
                /\ Range(NoTokens(live)) = {NoToken(live[i]) : i \in DOMAIN live}
                /\ Range(live) = {live[i] : i \in DOMAIN live}
  BY DEF Range, YesTokens, NoTokens
<1>2. p \in Detect("negrisk_basket", snap) <=> \E t : BasketTrade(snap, t) /\ p \in Of(snap, t)
  <2> DEFINE live == LivePartition(snap.event, TRUE)
             t0 == Trade("negrisk_basket", "buy", live, YesTokens(live), 1, 1, "resolution")
             ok == IsMultiOutcome(snap.event) /\ live # <<>>
                   /\ \A i \in DOMAIN live : Sound(snap, YesToken(live[i]))
  <2>1. Detect("negrisk_basket", snap) =
          IF IsMultiOutcome(snap.event)
          THEN IF live # <<>> /\ \A k \in Range(YesTokens(live)) : Sound(snap, k) THEN Of(snap, t0) ELSE {}
          ELSE {}
    BY DetectorsAre DEF NegRiskBasket, Of, Trade, YesTokens
  <2>2. \A t : BasketTrade(snap, t) <=> ok /\ t = t0
    BY DEF BasketTrade
  <2> HIDE DEF t0, live
  <2>3. (\A k \in Range(YesTokens(live)) : Sound(snap, k)) <=> \A i \in DOMAIN live : Sound(snap, YesToken(live[i]))
    BY <1>1
  <2>4. p \in Detect("negrisk_basket", snap) <=> ok /\ p \in Of(snap, t0)
    BY <2>1, <2>3
  <2> QED
    BY <2>2, <2>4
<1>3. p \in Detect("negrisk_dual", snap) <=> \E t : DualTrade(snap, t) /\ p \in Of(snap, t)
  <2> DEFINE live == LivePartition(snap.event, FALSE)
             t0 == Trade("negrisk_dual", "buy", live, NoTokens(live), Len(live) - 1, 1, "resolution")
             ok == IsMultiOutcome(snap.event) /\ live # <<>>
                   /\ (\A i \in DOMAIN live : ClassifyMarket(live[i]) = "objective")
                   /\ \A i \in DOMAIN live : Sound(snap, NoToken(live[i]))
  <2>1. Detect("negrisk_dual", snap) =
          IF IsMultiOutcome(snap.event)
          THEN IF /\ live # <<>> /\ \A m \in Range(live) : ClassifyMarket(m) = "objective"
                  /\ \A k \in Range(NoTokens(live)) : Sound(snap, k)
               THEN Of(snap, t0) ELSE {}
          ELSE {}
    BY DetectorsAre DEF NegRiskDual, Of, Trade, NoTokens
  <2>2. \A t : DualTrade(snap, t) <=> ok /\ t = t0
    BY DEF DualTrade
  <2> HIDE DEF t0, live
  <2>3. /\ (\A k \in Range(NoTokens(live)) : Sound(snap, k)) <=> \A i \in DOMAIN live : Sound(snap, NoToken(live[i]))
        /\ (\A m \in Range(live) : ClassifyMarket(m) = "objective")
             <=> \A i \in DOMAIN live : ClassifyMarket(live[i]) = "objective"
    BY <1>1
  <2>4. p \in Detect("negrisk_dual", snap) <=> ok /\ p \in Of(snap, t0)
    BY <2>1, <2>3
  <2> QED
    BY <2>2, <2>4
<1> QED
  BY <1>2, <1>3

LEMMA PartialIs ==
    ASSUME NEW snap, NEW p, p \in Detect("partial_basket", snap)
    PROVE  \E t : PartialTrade(snap, t) /\ p \in Of(snap, t)
<1> DEFINE live == LivePartition(snap.event, TRUE)
           some == BuyablePart(snap, live)
           t0 == Trade("partial_basket", "buy", some, YesTokens(some),
                       AsksOf(snap, some), AsksOf(snap, live), "resolution")
<1>1. IsMultiOutcome(snap.event) /\ p \in PartialBasket(snap)
  BY DetectorsAre
<1>2. PartialBasket(snap) =
        IF /\ Len(some) >= 2 /\ Len(some) < Len(live)
           /\ \A m \in Range(live) : AskOf(snap, m) > 0
           /\ AsksOf(snap, live) < Unit
        THEN Of(snap, t0) ELSE {}
  BY DEF PartialBasket, Of, Trade, AskOf, AsksOf, BuyablePart, YesTokens
<1>3. PartialTrade(snap, t0) <=>
        /\ IsMultiOutcome(snap.event)
        /\ Len(some) >= 2 /\ Len(some) < Len(live)
        /\ \A i \in DOMAIN live : AskOf(snap, live[i]) > 0
  BY DEF PartialTrade
<1> HIDE DEF t0, live, some
<1>4. p \in Of(snap, t0) /\ Len(some) >= 2 /\ Len(some) < Len(live) /\ \A m \in Range(live) : AskOf(snap, m) > 0
  BY <1>1, <1>2
<1>5. PartialTrade(snap, t0)
  BY <1>1, <1>3, <1>4 DEF Range
<1> QED
  BY <1>4, <1>5

\* A detector finds the opportunities of its trades, of a partial basket only when it is cheap.
LEMMA DetectIs ==
    ASSUME NEW snap, NEW d \in DetectorNames, NEW p
    PROVE  /\ p \in Detect(d, snap) => \E t : IsTradeOf(d, snap, t) /\ p \in Of(snap, t)
           /\ d # "partial_basket" =>
                \A t : IsTradeOf(d, snap, t) /\ p \in Of(snap, t) => p \in Detect(d, snap)
<1>1. CASE d = "complement"
  BY <1>1, DetectorsAre, ComplementIs DEF IsTradeOf
<1>2. CASE d = "dependency"
  BY <1>2, DetectorsAre, DependencyIs DEF IsTradeOf
<1>3. CASE d = "negrisk_basket"
  BY <1>3, EventTradesAre DEF IsTradeOf
<1>4. CASE d = "negrisk_dual"
  BY <1>4, EventTradesAre DEF IsTradeOf
<1>5. CASE d = "partial_basket"
  BY <1>5, PartialIs DEF IsTradeOf
<1> QED
  BY <1>1, <1>2, <1>3, <1>4, <1>5 DEF DetectorNames

-----------------------------------------------------------------------------
(* Types of trades.                                                         *)

LEMMA BestAskType ==
    ASSUME NEW snap, IsSnapshot(snap), NEW k, Buyable(snap, k)
    PROVE  BestAsk(snap.books[k]) \in Nat /\ k \in DOMAIN snap.books
<1> DEFINE levels == snap.books[k].asks
           S == {levels[i].price : i \in ValidAt(levels)}
<1>1. k \in DOMAIN snap.books /\ ValidAt(levels) # {}
  BY DEF Buyable, Quoted
<1>2. levels \in Seq(Quote)
  BY <1>1 DEF IsSnapshot, OrderBooks
<1>3. IsFiniteSet(ValidAt(levels)) /\ \A i \in ValidAt(levels) : levels[i] \in RealQuote
  BY <1>2, ValidLevels
<1>4. \A i \in ValidAt(levels) : levels[i].price \in Nat
  BY <1>3 DEF RealQuote
<1>5. BestAsk(snap.books[k]) = Min(S)
  BY DEF BestAsk
<1> DEFINE V == ValidAt(levels)
           f == [i \in V |-> levels[i].price]
<1>6. IsFiniteSet(S)
  <2>1. IsFiniteSet(V) /\ S = {f[i] : i \in V}
    BY <1>3
  <2>2. f \in Surjection(V, {f[i] : i \in V})
    BY DEF Surjection
  <2> HIDE DEF V, f, S
  <2> QED
    BY <2>1, <2>2, FS_Surjection
<1> HIDE DEF levels
<1>7. S \subseteq Nat /\ S \subseteq Int /\ S # {}
  BY <1>1, <1>4
<1> HIDE DEF S
<1>8. Min(S) \in S
  BY <1>6, <1>7, MinOfSet
<1> QED
  BY <1>1, <1>5, <1>7, <1>8

LEMMA AsksType ==
    ASSUME NEW snap, IsSnapshot(snap), NEW ms \in Seq(Markets)
    PROVE  /\ AsksOf(snap, ms) \in Nat
           /\ Len(ms) >= 2 /\ (\A i \in DOMAIN ms : AskOf(snap, ms[i]) > 0) => AsksOf(snap, ms) \in Nat \ {0}
<1> DEFINE f == [i \in DOMAIN ms |-> AskOf(snap, ms[i])]
           D == DOMAIN ms
<1>1. D = 1 .. Len(ms) /\ Len(ms) \in Nat
  OBVIOUS
<1>2. IsFiniteSet(D)
  BY <1>1, FS_Interval
<1>3. ASSUME NEW i \in D
      PROVE  f[i] \in Nat /\ f[i] = AskOf(snap, ms[i])
  <2>1. ms[i] \in Markets
    OBVIOUS
  <2>2. ms[i].best_ask \in Nat
    BY <2>1, Units DEF Markets
  <2> QED
    BY <2>2, BestAskType DEF AskOf
<1>4. AsksOf(snap, ms) = SumFunction(f) /\ DOMAIN f = D
  BY DEF AsksOf
<1> HIDE DEF f, D
<1>5. AsksOf(snap, ms) = Total(f, D)
  BY <1>4, SumIsTotal
<1>6. Total(f, D) \in Nat
  BY <1>2, <1>3, TotalNat
<1>7. ASSUME Len(ms) >= 2, \A i \in D : AskOf(snap, ms[i]) > 0
      PROVE  Total(f, D) # 0
  <2>1. 1 \in D
    BY <1>1, <1>7
  <2>2. f[1] \in Nat /\ f[1] > 0
    BY <1>3, <1>7, <2>1
  <2>3. IsFiniteSet(D \ {1})
    BY <1>2, FS_Subset
  <2>4. \A i \in D : f[i] \in Int
    BY <1>3
  <2>5. Total(f, D) = f[1] + Total(f, D \ {1})
    BY <1>2, <2>1, <2>4, TotalTake
  <2>6. \A i \in D \ {1} : f[i] \in Nat
    BY <1>3
  <2>7. Total(f, D \ {1}) \in Nat
    BY <2>3, <2>6, TotalNat
  <2> QED
    BY <2>2, <2>5, <2>7
<1> QED
  BY <1>5, <1>6, <1>7 DEF D

\* A trade of one share of each of the `k` of live markets.
LEMMA EventTradeType ==
    ASSUME NEW snap, IsSnapshot(snap), NEW ms \in Seq(Markets), NEW tokens,
           tokens = YesTokens(ms) \/ tokens = NoTokens(ms),
           \A i \in DOMAIN ms : IsBinary(ms[i]) /\ tokens[i] \in DOMAIN snap.books,
           NEW d, NEW worth \in Nat, NEW per \in Nat \ {0}, NEW realizes
    PROVE  IsTrade(snap, Trade(d, "buy", ms, tokens, worth, per, realizes))
<1> DEFINE n == Len(ms)
<1>1. n \in Nat /\ DOMAIN ms = 1 .. n
  OBVIOUS
<1>2. tokens \in [1 .. n -> DOMAIN snap.books]
  BY <1>1 DEF YesTokens, NoTokens
<1> HIDE DEF n
<1>3. tokens \in Seq(DOMAIN snap.books) /\ Len(tokens) = n /\ DOMAIN tokens = 1 .. n
  BY <1>1, <1>2
<1>4. ASSUME NEW i \in 1 .. n
      PROVE  tokens[i] \in Range(ms[i].tokens)
  <2>1. ms[i] \in Markets /\ IsBinary(ms[i]) /\ i \in DOMAIN ms
    BY <1>1
  <2>2. tokens[i] = YesToken(ms[i]) \/ tokens[i] = NoToken(ms[i])
    BY <2>1 DEF YesTokens, NoTokens
  <2> QED
    BY <2>1, <2>2, MarketTokens
<1> QED
  BY <1>3, <1>4 DEF IsTrade, Trade, n

LEMMA PairTradeType ==
    ASSUME NEW snap, IsSnapshot(snap), NEW a \in Markets, NEW b \in Markets,
           NEW k \in DOMAIN snap.books, NEW l \in DOMAIN snap.books,
           k \in Range(a.tokens), l \in Range(b.tokens), NEW d, NEW side \in {"buy", "sell"}, NEW realizes
    PROVE  IsTrade(snap, Trade(d, side, <<a, b>>, <<k, l>>, 1, 1, realizes))
<1>1. <<a, b>> \in Seq(Markets)
  OBVIOUS
<1> DEFINE K == DOMAIN snap.books
<1>2. k \in K /\ l \in K
  OBVIOUS
<1> HIDE DEF K
<1>3. <<k, l>> \in Seq(K)
  BY <1>2
<1>4. Len(<<a, b>>) = 2 /\ Len(<<k, l>>) = 2 /\ DOMAIN <<k, l>> = 1 .. 2
  OBVIOUS
<1>5. <<k, l>>[1] \in Range(<<a, b>>[1].tokens) /\ <<k, l>>[2] \in Range(<<a, b>>[2].tokens)
  OBVIOUS
<1>6. \A i \in DOMAIN <<k, l>> : <<k, l>>[i] \in Range(<<a, b>>[i].tokens)
  BY <1>4, <1>5
<1> QED
  BY <1>1, <1>3, <1>4, <1>6 DEF IsTrade, Trade, K

\* Where the markets of a trade come from.
Source(d, snap) == IF d \in {"complement", "dependency"} THEN Range(snap.markets) ELSE Range(snap.event.markets)

\* Every trade of a detector is well formed, of markets it may read.
LEMMA TradeType ==
    ASSUME NEW snap, IsSnapshot(snap), NEW d, NEW t, IsTradeOf(d, snap, t)
    PROVE  IsTrade(snap, t) /\ t.detector = d /\ Range(t.markets) \subseteq Source(d, snap)
<1>1. CASE d = "complement"
  <2>1. PICK m \in Range(snap.markets), side \in {"buy", "sell"} :
          /\ IsBinary(m) /\ SoundBook(snap, YesToken(m)) /\ SoundBook(snap, NoToken(m))
          /\ t = Trade("complement", side, <<m, m>>, <<YesToken(m), NoToken(m)>>, 1, 1, "instant")
    BY <1>1 DEF IsTradeOf, ComplementTrade
  <2>2. /\ m \in Markets /\ YesToken(m) \in DOMAIN snap.books /\ NoToken(m) \in DOMAIN snap.books
        /\ YesToken(m) \in Range(m.tokens) /\ NoToken(m) \in Range(m.tokens)
    BY <2>1, MarketTokens DEF IsSnapshot, SoundBook
  <2>3. IsTrade(snap, t)
    BY <2>1, <2>2, PairTradeType
  <2>4. t.detector = d /\ Range(t.markets) = {m}
    BY <1>1, <2>1 DEF Trade, Range
  <2> QED
    BY <1>1, <2>3, <2>4 DEF Source
<1>2. CASE d = "dependency"
  <2>1. PICK a \in Range(snap.markets), b \in Range(snap.markets) :
          /\ IsBinary(a) /\ IsBinary(b)
          /\ Buyable(snap, NoToken(a)) /\ Buyable(snap, YesToken(b))
          /\ t = Trade("dependency", "buy", <<b, a>>, <<YesToken(b), NoToken(a)>>, 1, 1, "resolution")
    BY <1>2 DEF IsTradeOf, DependencyTrade
  <2>2. /\ a \in Markets /\ b \in Markets /\ YesToken(b) \in DOMAIN snap.books /\ NoToken(a) \in DOMAIN snap.books
        /\ YesToken(b) \in Range(b.tokens) /\ NoToken(a) \in Range(a.tokens)
    BY <2>1, MarketTokens DEF IsSnapshot, Buyable, Quoted
  <2>3. IsTrade(snap, t)
    BY <2>1, <2>2, PairTradeType
  <2>4. t.detector = d /\ Range(t.markets) = {a, b}
    BY <1>2, <2>1 DEF Trade, Range
  <2> QED
    BY <1>2, <2>3, <2>4 DEF Source
<1>3. ASSUME NEW skip \in BOOLEAN, LivePartition(snap.event, skip) # <<>>, NEW live, live = LivePartition(snap.event, skip)
      PROVE  /\ live \in Seq(Markets) /\ Len(live) \in Nat /\ Len(live) >= 2
             /\ Range(live) \subseteq Range(snap.event.markets)
             /\ \A i \in DOMAIN live : IsBinary(live[i])
  <2>1. snap.event \in Events
    BY DEF IsSnapshot
  <2>2. PICK pos : IsPartition(snap.event, live, pos)
    BY <1>3, <2>1, PartitionIs
  <2>3. live \in Seq(Markets) /\ Len(live) >= 2
    BY <2>2 DEF IsPartition
  <2>4. \A i \in DOMAIN live : IsBinary(live[i]) /\ pos[i] \in DOMAIN snap.event.markets /\ live[i] = snap.event.markets[pos[i]]
    BY <2>1, <2>2, PartitionLive
  <2> QED
    BY <2>3, <2>4 DEF Range
<1>4. CASE d = "negrisk_basket"
  <2> DEFINE live == LivePartition(snap.event, TRUE)
             tokens == YesTokens(live)
  <2>1. /\ live # <<>> /\ \A i \in DOMAIN live : Sound(snap, YesToken(live[i]))
        /\ t = Trade("negrisk_basket", "buy", live, YesTokens(live), 1, 1, "resolution")
    BY <1>4 DEF IsTradeOf, BasketTrade
  <2>2. /\ live \in Seq(Markets) /\ \A i \in DOMAIN live : IsBinary(live[i])
        /\ Range(live) \subseteq Range(snap.event.markets)
    BY <1>3, <2>1
  <2> HIDE DEF live
  <2>3. \A i \in DOMAIN live : tokens[i] \in DOMAIN snap.books
    BY <2>1 DEF Sound, Buyable, Quoted, YesTokens
  <2>4. tokens = YesTokens(live)
    OBVIOUS
  <2> HIDE DEF tokens
  <2>5. IsTrade(snap, t)
    BY <2>1, <2>2, <2>3, <2>4, EventTradeType
  <2> QED
    BY <1>4, <2>1, <2>2, <2>5 DEF Trade, Source
<1>5. CASE d = "negrisk_dual"
  <2> DEFINE live == LivePartition(snap.event, FALSE)
             tokens == NoTokens(live)
  <2>1. /\ live # <<>> /\ \A i \in DOMAIN live : Sound(snap, NoToken(live[i]))
        /\ t = Trade("negrisk_dual", "buy", live, NoTokens(live), Len(live) - 1, 1, "resolution")
    BY <1>5 DEF IsTradeOf, DualTrade
  <2>2. /\ live \in Seq(Markets) /\ Len(live) \in Nat /\ Len(live) >= 2
        /\ Range(live) \subseteq Range(snap.event.markets)
        /\ \A i \in DOMAIN live : IsBinary(live[i])
    BY <1>3, <2>1
  <2> HIDE DEF live
  <2>6. Len(live) - 1 \in Nat
    BY <2>2
  <2> DEFINE worth == Len(live) - 1
  <2>7. worth \in Nat /\ t = Trade("negrisk_dual", "buy", live, NoTokens(live), worth, 1, "resolution")
    BY <2>1, <2>6
  <2> HIDE DEF worth
  <2>3. \A i \in DOMAIN live : tokens[i] \in DOMAIN snap.books
    BY <2>1 DEF Sound, Buyable, Quoted, NoTokens
  <2>4. tokens = NoTokens(live)
    OBVIOUS
  <2> HIDE DEF tokens
  <2>5. IsTrade(snap, t)
    <3>1. live \in Seq(Markets) /\ \A i \in DOMAIN live : IsBinary(live[i]) /\ tokens[i] \in DOMAIN snap.books
      BY <2>2, <2>3
    <3>2. IsTrade(snap, Trade("negrisk_dual", "buy", live, tokens, worth, 1, "resolution"))
      BY <2>4, <2>7, <3>1, EventTradeType
    <3> QED
      BY <2>4, <2>7, <3>2
  <2> QED
    BY <1>5, <2>1, <2>2, <2>5 DEF Trade, Source
<1>6. CASE d = "partial_basket"
  <2> DEFINE live == LivePartition(snap.event, TRUE)
             keep == {i \in DOMAIN live : Buyable(snap, YesToken(live[i]))}
             some == BuyablePart(snap, live)
             tokens == YesTokens(some)
  <2>1. /\ Len(some) >= 2 /\ Len(some) < Len(live)
        /\ \A i \in DOMAIN live : AskOf(snap, live[i]) > 0
        /\ t = Trade("partial_basket", "buy", some, YesTokens(some),
                     AsksOf(snap, some), AsksOf(snap, live), "resolution")
    BY <1>6 DEF IsTradeOf, PartialTrade
  <2>2. some = Selected(live, keep) /\ keep \in SUBSET DOMAIN live
    BY DEF BuyablePart
  <2>3. live # <<>>
    <3>1. keep = {i \in DOMAIN live : Buyable(snap, YesToken(live[i]))}
      OBVIOUS
    <3> HIDE DEF live, keep, some
    <3>2. ASSUME live = <<>>
          PROVE  FALSE
      <4>1. live \in Seq(Markets) /\ DOMAIN live = {}
        BY <3>2
      <4>2. keep = {} /\ keep \in SUBSET DOMAIN live
        BY <3>1, <4>1
      <4>3. Len(some) = Cardinality(keep)
        BY <2>2, <4>1, <4>2, SelectedIs
      <4>4. Cardinality(keep) = 0
        BY <4>2, FS_EmptySet
      <4> QED
        BY <2>1, <4>3, <4>4
    <3> QED
      BY <3>2
  <2>4. /\ live \in Seq(Markets) /\ Len(live) >= 2 /\ \A i \in DOMAIN live : IsBinary(live[i])
        /\ Range(live) \subseteq Range(snap.event.markets)
    BY <1>3, <2>3
  <2>5. keep = {i \in DOMAIN live : Buyable(snap, YesToken(live[i]))}
    OBVIOUS
  <2> HIDE DEF live, keep, some
  <2>6. some \in Seq(Markets) /\ \E pos : IsSelection(some, live, keep, pos)
    BY <2>2, <2>4, SelectedIs
  <2>7. PICK pos : IsSelection(some, live, keep, pos)
    BY <2>6
  <2>8. \A i \in DOMAIN some : pos[i] \in keep /\ some[i] = live[pos[i]]
    BY <2>7 DEF IsSelection
  <2>9. \A i \in DOMAIN some : /\ some[i] \in Range(live) /\ IsBinary(some[i])
                               /\ Buyable(snap, YesToken(some[i]))
    BY <2>4, <2>5, <2>8 DEF Range
  <2>10. \A i \in DOMAIN some : tokens[i] \in DOMAIN snap.books
    BY <2>9 DEF Buyable, Quoted, YesTokens
  <2>11. AsksOf(snap, some) \in Nat /\ AsksOf(snap, live) \in Nat \ {0}
    BY <2>1, <2>4, <2>6, AsksType
  <2>12. tokens = YesTokens(some)
    OBVIOUS
  <2> HIDE DEF tokens
  <2>13. IsTrade(snap, t)
    BY <2>1, <2>6, <2>9, <2>10, <2>11, <2>12, EventTradeType
  <2>14. Range(some) \subseteq Range(snap.event.markets)
    BY <2>4, <2>9 DEF Range
  <2> QED
    BY <1>6, <2>1, <2>13, <2>14 DEF Trade, Source
<1> QED
  BY <1>1, <1>2, <1>4, <1>5, <1>6 DEF IsTradeOf

-----------------------------------------------------------------------------
(* Two trades of one snapshot that exclude each other.                      *)

\* A set brings in no more than its prices come to, fees or not.
LEMMA MarginBound ==
    ASSUME NEW o, IsOrder(o), NEW prices \in [DOMAIN o.legs -> Nat], Margin(o, prices) > 0,
           o.worth = 1, o.per = 1
    PROVE  /\ SumFunction(prices) \in Nat
           /\ o.side = "buy" => SumFunction(prices) < Unit
           /\ o.side = "sell" => SumFunction(prices) > Unit
<1> DEFINE D == DOMAIN o.legs
           fees == [i \in D |-> TakerFee(prices[i], o.rates[i])]
           S == SumFunction(prices)
           F == SetFee(o, prices)
<1>1. IsFiniteSet(D) /\ \A i \in D : o.rates[i] \in 0 .. RateUnit
  BY OrderType
<1>2. \A i \in D : fees[i] \in Nat
  BY <1>1, FeeType
<1>3. S = Total(prices, D)
  BY SumIsTotal
<1>4. F = Total(fees, D)
  BY SumIsTotal DEF SetFee
<1> HIDE DEF fees, D
<1>5. Total(fees, D) \in Nat
  BY <1>1, <1>2, TotalNat
<1>6. \A i \in D : prices[i] \in Nat
  BY DEF D
<1>7. Total(prices, D) \in Nat
  BY <1>1, <1>6, TotalNat
<1>8. S \in Nat /\ F \in Nat
  BY <1>3, <1>4, <1>5, <1>7
<1>9. o.side \in {"buy", "sell"} /\ Coin \in Nat /\ Unit \in Nat /\ Dollar = Unit * Coin
  BY OrderType, Units DEF Dollar
<1>10. Margin(o, prices) = (IF o.side = "buy" THEN -(1 * Coin * S - 1 * Dollar) ELSE 1 * Coin * S - 1 * Dollar) - 1 * F
  BY DEF Margin
<1> HIDE DEF S, F
<1>11. 1 * Coin * S = Coin * S /\ 1 * Dollar = Coin * Unit /\ Coin * S \in Int /\ Coin * Unit \in Int /\ 1 * F = F
  BY <1>8, <1>9
<1>12. ASSUME o.side = "buy"
       PROVE  S < Unit
  <2>1. -(Coin * S - Coin * Unit) - F > 0
    BY <1>10, <1>11, <1>12
  <2>2. ~(Unit <= S)
    <3>1. ASSUME Unit <= S
          PROVE  FALSE
      <4>1. Coin * Unit <= Coin * S
        BY <1>8, <1>9, <3>1, TimesMonotone
      <4> QED
        BY <1>8, <1>11, <2>1, <4>1
    <3> QED
      BY <3>1
  <2> QED
    BY <1>8, <1>9, <2>2
<1>13. ASSUME o.side = "sell"
       PROVE  S > Unit
  <2>1. (Coin * S - Coin * Unit) - F > 0
    BY <1>10, <1>11, <1>13
  <2>2. ~(S <= Unit)
    <3>1. ASSUME S <= Unit
          PROVE  FALSE
      <4>1. Coin * S <= Coin * Unit
        BY <1>8, <1>9, <3>1, TimesMonotone
      <4> QED
        BY <1>8, <1>11, <2>1, <4>1
    <3> QED
      BY <3>1
  <2> QED
    BY <1>8, <1>9, <2>2
<1> QED
  BY <1>8, <1>12, <1>13 DEF S

\* A pair of tokens that costs less than a dollar at prices that are asked for, or that
\* brings in more at prices that are bid.
IsPriced(snap, side, k, l, x, y) ==
    /\ side = "buy" =>
         /\ x + y < Unit
         /\ \E j \in ValidAt(snap.books[k].asks) : snap.books[k].asks[j].price = x
         /\ \E j \in ValidAt(snap.books[l].asks) : snap.books[l].asks[j].price = y
    /\ side = "sell" =>
         /\ x + y > Unit
         /\ \E j \in ValidAt(snap.books[k].bids) : snap.books[k].bids[j].price = x
         /\ \E j \in ValidAt(snap.books[l].bids) : snap.books[l].bids[j].price = y

\* A pair that is traded for a profit has such prices.
LEMMA PairPrices ==
    ASSUME NEW snap, IsSnapshot(snap), NEW t, IsTrade(snap, t), NEW p \in Of(snap, t),
           NEW k, NEW l, t.tokens = <<k, l>>, t.worth = 1, t.per = 1
    PROVE  \E x, y \in Nat : IsPriced(snap, t.side, k, l, x, y)
<1> DEFINE o == OrderFor(snap, t)
           w == Walked(o)
           prices == SetAt(o, 1)
<1>1. IsOrder(o)
  BY TradeIsOrder
<1>2. WalkHolds(o, w)
  BY <1>1, WalkedHolds
<1>3. w.size > 0
  <2>1. w.size # 0
    <3>1. IsOpportunityOf(p, snap, t)
      BY OpportunityIs
    <3> QED
      BY <3>1 DEF IsOpportunityOf
  <2>2. w.size \in Nat
    BY <1>2 DEF WalkHolds
  <2> HIDE DEF w
  <2> QED
    BY <2>1, <2>2
<1>4. /\ o.side = t.side /\ o.worth = 1 /\ o.per = 1 /\ t.side \in {"buy", "sell"}
      /\ DOMAIN o.legs = 1 .. Len(t.tokens)
      /\ t.side = "buy" => \A i \in DOMAIN o.legs : o.legs[i] = snap.books[t.tokens[i]].asks
      /\ t.side = "sell" => \A i \in DOMAIN o.legs : o.legs[i] = snap.books[t.tokens[i]].bids
  BY DEF OrderFor, IsTrade
<1>5. Len(t.tokens) = 2 /\ t.tokens[1] = k /\ t.tokens[2] = l
  OBVIOUS
<1> HIDE DEF o, w
<1>6. /\ prices \in [DOMAIN o.legs -> Nat] /\ Margin(o, prices) > 0
      /\ \A i \in DOMAIN o.legs : \E j \in ValidAt(o.legs[i]) : o.legs[i][j].price = prices[i]
  BY <1>1, <1>2, <1>3, FirstSet
<1> HIDE DEF prices
<1>7. 1 \in DOMAIN o.legs /\ 2 \in DOMAIN o.legs /\ DOMAIN o.legs = 1 .. 2
  BY <1>4, <1>5
<1>8. prices[1] \in Nat /\ prices[2] \in Nat
  BY <1>6, <1>7
<1>9. SumFunction(prices) = prices[1] + prices[2]
  <2>1. SumFunction(prices) = Total(prices, DOMAIN prices) /\ DOMAIN prices = 1 .. 2
    BY <1>6, <1>7, SumIsTotal
  <2>2. prices[1] \in Int /\ prices[2] \in Int
    BY <1>8
  <2> QED
    BY <2>1, <2>2, TotalTwo
<1>10. /\ t.side = "buy" => prices[1] + prices[2] < Unit
       /\ t.side = "sell" => prices[1] + prices[2] > Unit
  BY <1>1, <1>4, <1>6, <1>9, MarginBound
<1>11. /\ \E j \in ValidAt(o.legs[1]) : o.legs[1][j].price = prices[1]
       /\ \E j \in ValidAt(o.legs[2]) : o.legs[2][j].price = prices[2]
  BY <1>6, <1>7
<1>12. ASSUME t.side = "buy"
       PROVE  /\ \E j \in ValidAt(snap.books[k].asks) : snap.books[k].asks[j].price = prices[1]
              /\ \E j \in ValidAt(snap.books[l].asks) : snap.books[l].asks[j].price = prices[2]
  <2>1. o.legs[1] = snap.books[k].asks /\ o.legs[2] = snap.books[l].asks
    BY <1>4, <1>5, <1>7, <1>12
  <2> QED
    BY <1>11, <2>1
<1>13. ASSUME t.side = "sell"
       PROVE  /\ \E j \in ValidAt(snap.books[k].bids) : snap.books[k].bids[j].price = prices[1]
              /\ \E j \in ValidAt(snap.books[l].bids) : snap.books[l].bids[j].price = prices[2]
  <2>1. o.legs[1] = snap.books[k].bids /\ o.legs[2] = snap.books[l].bids
    BY <1>4, <1>5, <1>7, <1>13
  <2> QED
    BY <1>11, <2>1
<1>14. IsPriced(snap, t.side, k, l, prices[1], prices[2])
  BY <1>10, <1>12, <1>13 DEF IsPriced
<1> QED
  BY <1>8, <1>14

\* A book that is not crossed bids less than it asks.
LEMMA NotCrossed ==
    ASSUME NEW snap, IsSnapshot(snap), NEW k, SoundBook(snap, k),
           NEW x \in Nat, NEW y \in Nat,
           \E j \in ValidAt(snap.books[k].bids) : snap.books[k].bids[j].price = x,
           \E j \in ValidAt(snap.books[k].asks) : snap.books[k].asks[j].price = y
    PROVE  x < y
<1>1. ~(x >= y)
  BY DEF SoundBook, IsCrossed
<1> QED
  BY <1>1

\* A market has one complement trade that pays, if any.
LEMMA ComplementOnce ==
    ASSUME NEW snap, IsSnapshot(snap),
           NEW t, ComplementTrade(snap, t), NEW p \in Of(snap, t),
           NEW u, ComplementTrade(snap, u), NEW q \in Of(snap, u),
           p.markets = q.markets
    PROVE  p = q /\ t = u
<1>1. IsTrade(snap, t) /\ IsTrade(snap, u)
  BY TradeType DEF IsTradeOf
<1>2. PICK m \in Range(snap.markets), side \in {"buy", "sell"} :
        /\ SoundBook(snap, YesToken(m)) /\ SoundBook(snap, NoToken(m))
        /\ t = Trade("complement", side, <<m, m>>, <<YesToken(m), NoToken(m)>>, 1, 1, "instant")
  BY DEF ComplementTrade
<1>3. PICK n \in Range(snap.markets), other \in {"buy", "sell"} :
        u = Trade("complement", other, <<n, n>>, <<YesToken(n), NoToken(n)>>, 1, 1, "instant")
  BY DEF ComplementTrade
<1>4. p.markets = Range(<<m, m>>) /\ q.markets = Range(<<n, n>>)
  <2>1. p.markets = Range(t.markets) /\ q.markets = Range(u.markets)
    <3>1. IsOpportunityOf(p, snap, t) /\ IsOpportunityOf(q, snap, u)
      BY OpportunityIs
    <3> QED
      BY <3>1 DEF IsOpportunityOf
  <2>2. t.markets = <<m, m>> /\ u.markets = <<n, n>>
    BY <1>2, <1>3 DEF Trade
  <2> QED
    BY <2>1, <2>2
<1>5. Range(<<m, m>>) = {m} /\ Range(<<n, n>>) = {n}
  BY DEF Range
<1>6. m = n
  BY <1>4, <1>5
<1> DEFINE k == YesToken(m)
           l == NoToken(m)
<1>7. /\ t.tokens = <<k, l>> /\ t.worth = 1 /\ t.per = 1 /\ t.side = side
      /\ u.tokens = <<k, l>> /\ u.worth = 1 /\ u.per = 1 /\ u.side = other
  BY <1>2, <1>3, <1>6 DEF Trade
<1>8. SoundBook(snap, k) /\ SoundBook(snap, l)
  BY <1>2
<1> HIDE DEF k, l
<1>9. PICK x, y \in Nat : IsPriced(snap, side, k, l, x, y)
  <2>1. \E x, y \in Nat : IsPriced(snap, t.side, k, l, x, y)
    BY <1>1, <1>7, PairPrices
  <2> QED
    BY <1>7, <2>1
<1>10. PICK z, v \in Nat : IsPriced(snap, other, k, l, z, v)
  <2>1. \E z, v \in Nat : IsPriced(snap, u.side, k, l, z, v)
    BY <1>1, <1>7, PairPrices
  <2> QED
    BY <1>7, <2>1
<1>11. Unit \in Nat
  BY Units
<1>12. ASSUME side = "buy", other = "sell"
       PROVE  FALSE
  <2>1. z < x /\ v < y
    BY <1>8, <1>9, <1>10, <1>12, NotCrossed DEF IsPriced
  <2>2. x + y < Unit /\ z + v > Unit
    BY <1>9, <1>10, <1>12 DEF IsPriced
  <2> QED
    BY <1>11, <2>1, <2>2
<1>13. ASSUME side = "sell", other = "buy"
       PROVE  FALSE
  <2>1. x < z /\ y < v
    BY <1>8, <1>9, <1>10, <1>13, NotCrossed DEF IsPriced
  <2>2. x + y > Unit /\ z + v < Unit
    BY <1>9, <1>10, <1>13 DEF IsPriced
  <2> QED
    BY <1>11, <2>1, <2>2
<1>14. side = other
  BY <1>12, <1>13
<1>15. t = u
  BY <1>2, <1>3, <1>6, <1>14
<1> QED
  BY <1>15, OpportunityOnce

\* A full basket needs every leg buyable and a partial one some that is not.
LEMMA BasketsExclude ==
    ASSUME NEW snap, IsSnapshot(snap), NEW t, BasketTrade(snap, t), NEW u, PartialTrade(snap, u)
    PROVE  FALSE
<1> DEFINE live == LivePartition(snap.event, TRUE)
           keep == {i \in DOMAIN live : Buyable(snap, YesToken(live[i]))}
           some == BuyablePart(snap, live)
<1>1. live # <<>> /\ \A i \in DOMAIN live : Sound(snap, YesToken(live[i]))
  BY DEF BasketTrade
<1>2. Len(some) < Len(live)
  BY DEF PartialTrade
<1>3. some = Selected(live, keep)
  BY DEF BuyablePart
<1>4. keep = DOMAIN live
  BY <1>1 DEF Sound
<1>5. snap.event \in Events
  BY DEF IsSnapshot
<1>6. live \in Seq(Markets)
  BY <1>1, <1>5, PartitionIs DEF IsPartition
<1> HIDE DEF live, keep, some
<1>7. Len(some) = Cardinality(keep)
  BY <1>3, <1>4, <1>6, SelectedIs
<1>8. DOMAIN live = 1 .. Len(live) /\ Len(live) \in Nat
  BY <1>6
<1> DEFINE n == Len(live)
<1>10. n \in Nat
  BY <1>8
<1> HIDE DEF n
<1>9. Cardinality(1 .. n) = n
  BY <1>10, FS_Interval
<1> QED
  BY <1>2, <1>4, <1>7, <1>8, <1>9, <1>10 DEF n

-----------------------------------------------------------------------------
(* Ranks of risks.                                                          *)

LEMMA RankIs ==
    /\ RiskRank("objective") = 1 /\ RiskRank("standard") = 2 /\ RiskRank("elevated") = 3
    /\ RiskRank("directional") = 4 /\ RiskRank("at_risk") = 5
<1>1. /\ DOMAIN RiskOrder = 1 .. 5
      /\ RiskOrder[1] = "objective" /\ RiskOrder[2] = "standard" /\ RiskOrder[3] = "elevated"
      /\ RiskOrder[4] = "directional" /\ RiskOrder[5] = "at_risk"
  BY DEF RiskOrder
<1>2. \A i \in DOMAIN RiskOrder : \A j \in DOMAIN RiskOrder : RiskOrder[j] = RiskOrder[i] => j = i
  BY <1>1
<1>3. \A i \in DOMAIN RiskOrder : RiskRank(RiskOrder[i]) = i
  BY <1>2 DEF RiskRank
<1> QED
  BY <1>1, <1>3

\* The worst of some risks has a rank, the highest of theirs.
LEMMA WorstIs ==
    ASSUME NEW risks, risks # {}, \A r \in risks : RiskRank(r) \in 1 .. 5
    PROVE  /\ WorstRisk(risks) \in Range(RiskOrder)
           /\ \A r \in risks : RiskRank(r) <= RiskRank(WorstRisk(risks))
           /\ \E r \in risks : RiskRank(WorstRisk(risks)) = RiskRank(r)
<1> DEFINE S == {RiskRank(r) : r \in risks}
           k == Max(S)
<1>1. S \subseteq 1 .. 5 /\ S # {} /\ S \subseteq Int
  <2>1. PICK r \in risks : TRUE
    OBVIOUS
  <2>2. RiskRank(r) \in S
    OBVIOUS
  <2> QED
    BY <2>2
<1>2. IsFiniteSet(1 .. 5)
  <2> DEFINE n == 5
  <2>1. n \in Nat /\ 1 .. 5 = 1 .. n
    OBVIOUS
  <2> HIDE DEF n
  <2>2. IsFiniteSet(1 .. n)
    BY <2>1, FS_Interval
  <2> QED
    BY <2>1, <2>2
<1>3. IsFiniteSet(S)
  BY <1>1, <1>2, FS_Subset
<1>4. k \in S /\ \A y \in S : y <= k
  <2> HIDE DEF S
  <2> QED
    BY <1>1, <1>3, MaxOfSet
<1>5. k \in 1 .. 5
  BY <1>1, <1>4
<1>6. \A i \in 1 .. 5 : RiskOrder[i] \in Range(RiskOrder) /\ RiskRank(RiskOrder[i]) = i
  BY RankIs DEF RiskOrder, Range
<1>7. WorstRisk(risks) = RiskOrder[k]
  BY DEF WorstRisk
<1> QED
  BY <1>4, <1>5, <1>6, <1>7

\* Only a dispute ranks a market behind a directional bet.
LEMMA ClassRank ==
    ASSUME NEW m
    PROVE  /\ RiskRank(ClassifyMarket(m)) \in 1 .. 5
           /\ ~m.disputed => RiskRank(ClassifyMarket(m)) \in 1 .. 3
<1>1. /\ ClassifyMarket(m) \in {"at_risk", "elevated", "objective", "standard"}
      /\ ~m.disputed => ClassifyMarket(m) # "at_risk"
  BY DEF ClassifyMarket
<1> QED
  BY <1>1, RankIs

\* The rank of some markets together, none included.
LEMMA AggregateRank ==
    ASSUME NEW markets
    PROVE  /\ RiskRank(AggregateRisk(markets)) \in 1 .. 5
           /\ AggregateRisk(markets) \in Range(RiskOrder)
           /\ (\A m \in markets : ~m.disputed) => RiskRank(AggregateRisk(markets)) \in 1 .. 3
<1>1. CASE markets = {}
  <2>1. AggregateRisk(markets) = "standard"
    BY <1>1 DEF AggregateRisk
  <2>2. RiskOrder[2] = "standard" /\ 2 \in DOMAIN RiskOrder
    BY DEF RiskOrder
  <2>3. "standard" \in Range(RiskOrder)
    BY <2>2 DEF Range
  <2> QED
    BY <2>1, <2>3, RankIs
<1>2. CASE markets # {}
  <2> DEFINE risks == {ClassifyMarket(m) : m \in markets}
  <2>1. AggregateRisk(markets) = WorstRisk(risks) /\ risks # {}
    BY <1>2 DEF AggregateRisk
  <2>2. \A r \in risks : RiskRank(r) \in 1 .. 5
    BY ClassRank
  <2>3. (\A m \in markets : ~m.disputed) => \A r \in risks : RiskRank(r) \in 1 .. 3
    BY ClassRank
  <2> HIDE DEF risks
  <2>4. /\ WorstRisk(risks) \in Range(RiskOrder)
        /\ \E r \in risks : RiskRank(WorstRisk(risks)) = RiskRank(r)
    BY <2>1, <2>2, WorstIs
  <2> QED
    BY <2>1, <2>2, <2>3, <2>4
<1> QED
  BY <1>1, <1>2

\* The rank of an opportunity, of a partial basket and of any other.
LEMMA OpportunityRank ==
    ASSUME NEW o
    PROVE  /\ ResolutionRiskFor(o) \in Range(RiskOrder)
           /\ o.detector = "partial_basket" => RiskRank(ResolutionRiskFor(o)) \in {4, 5}
           /\ o.detector # "partial_basket" /\ (\A m \in o.markets : ~m.disputed) =>
                RiskRank(ResolutionRiskFor(o)) \in 1 .. 3
<1> DEFINE a == AggregateRisk(o.markets)
           risks == {"directional", a}
<1>1. RiskRank(a) \in 1 .. 5 /\ a \in Range(RiskOrder)
      /\ ((\A m \in o.markets : ~m.disputed) => RiskRank(a) \in 1 .. 3)
  BY AggregateRank
<1> HIDE DEF a
<1>2. CASE o.detector = "partial_basket"
  <2>1. ResolutionRiskFor(o) = WorstRisk(risks)
    BY <1>2 DEF ResolutionRiskFor, a
  <2>2. risks # {} /\ "directional" \in risks /\ \A r \in risks : RiskRank(r) \in 1 .. 5
    BY <1>1, RankIs
  <2> HIDE DEF risks
  <2>3. /\ WorstRisk(risks) \in Range(RiskOrder)
        /\ \A r \in risks : RiskRank(r) <= RiskRank(WorstRisk(risks))
        /\ \E r \in risks : RiskRank(WorstRisk(risks)) = RiskRank(r)
    BY <2>2, WorstIs
  <2>4. RiskRank("directional") <= RiskRank(WorstRisk(risks)) /\ RiskRank(WorstRisk(risks)) \in 1 .. 5
    BY <2>2, <2>3
  <2> QED
    BY <1>2, <2>1, <2>3, <2>4, RankIs
<1>3. CASE o.detector # "partial_basket"
  <2>1. ResolutionRiskFor(o) = IF o.realizes = "instant" THEN "objective" ELSE a
    BY <1>3 DEF ResolutionRiskFor, a
  <2>2. RiskOrder[1] = "objective" /\ 1 \in DOMAIN RiskOrder
    BY DEF RiskOrder
  <2>3. "objective" \in Range(RiskOrder)
    BY <2>2 DEF Range
  <2> QED
    BY <1>1, <1>3, <2>1, <2>3, RankIs
<1> QED
  BY <1>2, <1>3

(* A directional bet ranks after every structural opportunity whose markets *)
(* are not disputed, whatever is reported together.                         *)
LEMMA RanksLast == DirectionalRanksLast
<1> SUFFICES ASSUME NEW p \in reported \ Structural, NEW o \in Structural,
                    \A m \in o.markets : ~m.disputed
             PROVE  RiskRank(ResolutionRiskFor(o)) < RiskRank(ResolutionRiskFor(p))
  BY DEF DirectionalRanksLast
<1>1. p.detector = "partial_basket" /\ o.detector # "partial_basket"
  BY DEF Structural
<1>2. RiskRank(ResolutionRiskFor(p)) \in {4, 5} /\ RiskRank(ResolutionRiskFor(o)) \in 1 .. 3
  BY <1>1, OpportunityRank
<1> QED
  BY <1>2

-----------------------------------------------------------------------------
(* What a pass reads of an event.                                           *)

\* A finite set as a sequence.
LEMMA SetToSeqType ==
    ASSUME NEW S, IsFiniteSet(S)
    PROVE  SetToSeq(S) \in Seq(S) /\ Range(SetToSeq(S)) \subseteq S
<1> DEFINE n == Cardinality(S)
           F == {f \in [1 .. n -> S] : IsInjective(f)}
<1>1. n \in Nat /\ ExistsBijection(1 .. n, S)
  BY FS_CardinalityType
<1>2. \E f \in [1 .. n -> S] : IsInjective(f)
  BY <1>1 DEF ExistsBijection, Bijection, Injection, IsInjective
<1>3. SetToSeq(S) \in [1 .. n -> S]
  BY <1>2 DEF SetToSeq
<1>4. [1 .. n -> S] \subseteq Seq(S)
  <2> HIDE DEF n
  <2> QED
    BY <1>1
<1> QED
  BY <1>3, <1>4 DEF Range

\* The markets whose tokens are read are among the event's.
LEMMA DiscoveredType ==
    ASSUME NEW e \in Events, MaxMarkets \in Nat
    PROVE  /\ Discovered(e) \in Seq(Markets) /\ LiveMarkets(e) \in Seq(Markets)
           /\ Range(Discovered(e)) \subseteq Range(e.markets)
           /\ Range(LiveMarkets(e)) \subseteq Range(e.markets)
<1> DEFINE keep == {i \in DOMAIN e.markets : Live(e.markets[i])}
           live == LiveMarkets(e)
           n == Len(live)
           k == Min({MaxMarkets, n})
<1>1. e.markets \in Seq(Markets) /\ keep \in SUBSET DOMAIN e.markets
  BY DEF Events
<1>2. live = Selected(e.markets, keep)
  BY DEF LiveMarkets
<1>3. /\ live \in Seq(Markets)
      /\ \E pos : IsSelection(live, e.markets, keep, pos)
  <2> HIDE DEF keep, live
  <2> QED
    BY <1>1, <1>2, SelectedIs
<1>4. Range(live) \subseteq Range(e.markets)
  <2> HIDE DEF live
  <2>1. PICK pos : IsSelection(live, e.markets, keep, pos)
    BY <1>3
  <2> QED
    BY <1>1, <2>1 DEF IsSelection, Range
<1> HIDE DEF live
<1>5. n \in Nat
  BY <1>3
<1> HIDE DEF n
<1>6. k \in 0 .. n
  <2>1. k = IF MaxMarkets <= n THEN MaxMarkets ELSE n
    BY <1>5, MinOfTwo
  <2> QED
    BY <1>5, <2>1
<1>7. Discovered(e) = SubSeq(live, 1, k)
  BY DEF Discovered, live, n
<1> HIDE DEF k
<1>8. SubSeq(live, 1, k) = [i \in 1 .. k |-> live[i]]
  BY <1>3, <1>5, <1>6 DEF n
<1>9. \A i \in 1 .. k : i \in DOMAIN live
  BY <1>3, <1>5, <1>6 DEF n
<1>10. Discovered(e) \in Seq(Markets)
  BY <1>3, <1>6, <1>7, <1>8, <1>9
<1>11. Range(Discovered(e)) \subseteq Range(live)
  BY <1>7, <1>8, <1>9 DEF Range
<1> QED
  BY <1>3, <1>4, <1>10, <1>11 DEF live

\* The tokens of some markets.
LEMMA TokensFinite ==
    ASSUME NEW markets \in Seq(Markets)
    PROVE  IsFiniteSet(Tokens(markets))
<1> DEFINE R == Range(markets)
           f == [m \in R |-> Range(m.tokens)]
           T == {Range(m.tokens) : m \in R}
<1>1. IsFiniteSet(R) /\ R \subseteq Markets
  BY RangeFinite
<1>2. f \in Surjection(R, T)
  BY DEF Surjection
<1>3. IsFiniteSet(T)
  BY <1>1, <1>2, FS_Surjection
<1>4. ASSUME NEW s \in T PROVE IsFiniteSet(s)
  <2>1. PICK m \in R : s = Range(m.tokens)
    OBVIOUS
  <2>2. m.tokens \in Seq(STRING)
    BY <1>1, <2>1 DEF Markets
  <2> QED
    BY <2>1, <2>2, RangeFinite
<1>5. Tokens(markets) = UNION T
  BY DEF Tokens
<1> HIDE DEF T
<1> QED
  BY <1>3, <1>4, <1>5, FS_UNION

\* The tokens to fetch are tokens of the event.
LEMMA NeededFinite ==
    ASSUME NEW e \in Events, MaxMarkets \in Nat
    PROVE  IsFiniteSet(NeededTokens(e)) /\ NeededTokens(e) \subseteq Tokens(e.markets)
<1>1. /\ Discovered(e) \in Seq(Markets) /\ LiveMarkets(e) \in Seq(Markets)
      /\ Range(Discovered(e)) \subseteq Range(e.markets)
      /\ Range(LiveMarkets(e)) \subseteq Range(e.markets)
  BY DiscoveredType
<1>2. IsFiniteSet(Tokens(Discovered(e))) /\ IsFiniteSet(Tokens(LiveMarkets(e)))
  BY <1>1, TokensFinite
<1>3. IsFiniteSet(Tokens(Discovered(e)) \cup Tokens(LiveMarkets(e)))
  BY <1>2, FS_Union
<1>4. /\ Tokens(Discovered(e)) \subseteq Tokens(e.markets)
      /\ Tokens(LiveMarkets(e)) \subseteq Tokens(e.markets)
  BY <1>1 DEF Tokens
<1>5. NeededTokens(e) = Tokens(Discovered(e)) \/
      NeededTokens(e) = Tokens(Discovered(e)) \cup Tokens(LiveMarkets(e))
  BY DEF NeededTokens
<1> QED
  BY <1>2, <1>3, <1>4, <1>5

-----------------------------------------------------------------------------
(* What a pass reports, and what it confirms.                               *)

\* A snapshot of an event's markets, whatever its books.
IsSnapshotOf(snap, e, relations) ==
    /\ IsSnapshot(snap) /\ snap.event = e /\ snap.relations = relations
    /\ Range(snap.markets) \subseteq Range(e.markets)

\* An opportunity that a detector finds in some books of the event's markets.
Sourced(p, e, relations) ==
    \E snap, t : /\ IsSnapshotOf(snap, e, relations)
                 /\ IsTradeOf(p.detector, snap, t) /\ p \in Of(snap, t)

\* What a detector finds is the opportunity of one of its trades.
LEMMA DetectedIs ==
    ASSUME NEW e, NEW relations, NEW snap, IsSnapshotOf(snap, e, relations),
           NEW d \in DetectorNames, NEW p \in Detect(d, snap)
    PROVE  /\ p.detector = d /\ Sourced(p, e, relations)
           /\ \E t : IsTradeOf(d, snap, t) /\ p \in Of(snap, t)
           /\ p.markets \subseteq Source(d, snap)
<1>1. PICK t : IsTradeOf(d, snap, t) /\ p \in Of(snap, t)
  BY DetectIs
<1>2. IsTrade(snap, t) /\ t.detector = d /\ Range(t.markets) \subseteq Source(d, snap)
  BY <1>1, TradeType DEF IsSnapshotOf
<1>3. p.detector = d /\ p.markets = Range(t.markets)
  <2>1. IsOpportunityOf(p, snap, t)
    BY <1>1, OpportunityIs
  <2> QED
    BY <1>2, <2>1 DEF IsOpportunityOf
<1>4. Sourced(p, e, relations)
  BY <1>1, <1>3 DEF Sourced
<1> QED
  BY <1>1, <1>2, <1>3, <1>4

\* It has a size, a profit, and markets and tokens of the event.
LEMMA SourcedIs ==
    ASSUME NEW e \in Events, NEW relations, NEW p, Sourced(p, e, relations)
    PROVE  /\ p.size > 0 /\ p.net > 0 /\ p.markets \subseteq Range(e.markets)
           /\ IsFiniteSet(p.markets) /\ p.markets \subseteq Markets
           /\ IsFiniteSet(LegTokens(p)) /\ LegTokens(p) \subseteq Tokens(e.markets)
<1>1. PICK snap, t : /\ IsSnapshotOf(snap, e, relations)
                     /\ IsTradeOf(p.detector, snap, t) /\ p \in Of(snap, t)
  BY DEF Sourced
<1>2. IsSnapshot(snap) /\ Range(snap.markets) \subseteq Range(e.markets) /\ snap.event = e
  BY <1>1 DEF IsSnapshotOf
<1>3. IsTrade(snap, t) /\ Range(t.markets) \subseteq Source(p.detector, snap)
  BY <1>1, <1>2, TradeType
<1>4. p.size \in Nat \ {0} /\ p.net > 0
  BY <1>1, <1>2, <1>3, OpportunityPays
<1>5. IsOpportunityOf(p, snap, t)
  BY <1>1, OpportunityIs
<1>6. /\ p.markets = Range(t.markets)
      /\ p.legs = [i \in 1 .. Len(t.tokens) |->
                     [token |-> t.tokens[i], spent |-> Walked(OrderFor(snap, t)).spent[i]]]
  BY <1>5 DEF IsOpportunityOf
<1>7. Range(t.markets) \subseteq Range(e.markets)
  BY <1>2, <1>3 DEF Source
<1>8. t.markets \in Seq(Markets) /\ IsFiniteSet(Range(t.markets)) /\ Range(t.markets) \subseteq Markets
  <2>1. t.markets \in Seq(Markets)
    BY <1>3 DEF IsTrade
  <2> QED
    BY <2>1, RangeFinite
<1>9. /\ t.tokens \in Seq(DOMAIN snap.books) /\ DOMAIN t.tokens = 1 .. Len(t.tokens)
      /\ DOMAIN t.markets = DOMAIN t.tokens
      /\ \A i \in DOMAIN t.tokens : t.tokens[i] \in Range(t.markets[i].tokens)
  BY <1>3 DEF IsTrade
<1>10. LegTokens(p) = Range(t.tokens)
  <2>1. \A i \in 1 .. Len(t.tokens) : p.legs[i].token = t.tokens[i]
    BY <1>6
  <2>2. DOMAIN p.legs = 1 .. Len(t.tokens)
    BY <1>6
  <2> QED
    BY <1>9, <2>1, <2>2 DEF LegTokens, Range
<1>11. IsFiniteSet(Range(t.tokens))
  BY <1>9, RangeFinite
<1>12. Range(t.tokens) \subseteq Tokens(e.markets)
  <2>1. ASSUME NEW i \in DOMAIN t.tokens
        PROVE  t.tokens[i] \in Tokens(e.markets)
    <3>1. t.markets[i] \in Range(e.markets)
      BY <1>7, <1>9 DEF Range
    <3> QED
      BY <1>9, <3>1 DEF Tokens
  <2> QED
    BY <2>1 DEF Range
<1> QED
  BY <1>4, <1>6, <1>7, <1>8, <1>10, <1>11, <1>12

\* What is detected in some books is still detected in more books, of more markets.
IsPartOf(snap, big) ==
    /\ DOMAIN snap.books \subseteq DOMAIN big.books
    /\ \A k \in DOMAIN snap.books : snap.books[k] = big.books[k]
    /\ snap.relations = big.relations /\ snap.event = big.event
    /\ snap.gas = big.gas /\ snap.gas_per_leg = big.gas_per_leg

LEMMA DetectedInMore ==
    ASSUME NEW snap, IsSnapshot(snap), NEW big, IsPartOf(snap, big),
           NEW d \in DetectorNames \ {"partial_basket"},
           d \in {"complement", "dependency"} => Range(snap.markets) \subseteq Range(big.markets),
           NEW p \in Detect(d, snap)
    PROVE  p \in Detect(d, big)
<1>1. PICK t : IsTradeOf(d, snap, t) /\ p \in Of(snap, t)
  BY DetectIs
<1>2. \A k : SoundBook(snap, k) => SoundBook(big, k)
  BY DEF IsPartOf, SoundBook
<1>3. \A k : Buyable(snap, k) => Buyable(big, k)
  BY DEF IsPartOf, Buyable, Quoted
<1>4. \A k : Sound(snap, k) => Sound(big, k)
  BY <1>3 DEF IsPartOf, Sound, Buyable, Quoted
<1>5. snap.relations = big.relations /\ snap.event = big.event
  BY DEF IsPartOf
<1>6. IsTradeOf(d, big, t)
  <2>1. CASE d = "complement"
    <3>1. ComplementTrade(snap, t)
      BY <1>1, <2>1 DEF IsTradeOf
    <3>2. ComplementTrade(big, t)
      BY <1>2, <2>1, <3>1 DEF ComplementTrade
    <3> QED
      BY <2>1, <3>2 DEF IsTradeOf
  <2>2. CASE d = "dependency"
    <3>1. DependencyTrade(snap, t)
      BY <1>1, <2>2 DEF IsTradeOf
    <3>2. DependencyTrade(big, t)
      BY <1>3, <1>5, <2>2, <3>1 DEF DependencyTrade
    <3> QED
      BY <2>2, <3>2 DEF IsTradeOf
  <2>3. CASE d = "negrisk_basket"
    <3>1. BasketTrade(snap, t)
      BY <1>1, <2>3 DEF IsTradeOf
    <3>2. BasketTrade(big, t)
      BY <1>4, <1>5, <3>1 DEF BasketTrade
    <3> QED
      BY <2>3, <3>2 DEF IsTradeOf
  <2>4. CASE d = "negrisk_dual"
    <3>1. DualTrade(snap, t)
      BY <1>1, <2>4 DEF IsTradeOf
    <3>2. DualTrade(big, t)
      BY <1>4, <1>5, <3>1 DEF DualTrade
    <3> QED
      BY <2>4, <3>2 DEF IsTradeOf
  <2> QED
    BY <2>1, <2>2, <2>3, <2>4 DEF DetectorNames
<1>7. Of(snap, t) = Of(big, t)
  <2>1. IsTrade(snap, t)
    BY <1>1, TradeType
  <2>2. \A i \in 1 .. Len(t.tokens) : t.tokens[i] \in DOMAIN snap.books
    BY <2>1 DEF IsTrade
  <2>3. \A i \in 1 .. Len(t.tokens) : snap.books[t.tokens[i]] = big.books[t.tokens[i]]
    BY <2>2 DEF IsPartOf
  <2>4. snap.gas = big.gas /\ snap.gas_per_leg = big.gas_per_leg
    BY DEF IsPartOf
  <2> QED
    BY <2>3, <2>4, OpportunitySame
<1> QED
  BY <1>1, <1>6, <1>7, DetectIs

\* What one snapshot cannot show together.
OneOfTwo(o, p) ==
    /\ o.detector = "complement" /\ p.detector = "complement" /\ o.markets = p.markets => o = p
    /\ o.detector = "partial_basket" => p.detector # "negrisk_basket"

\* It stands alone among what the snapshot shows.
LEMMA DetectedOnce ==
    ASSUME NEW snap, IsSnapshot(snap),
           NEW c \in DetectorNames, NEW o \in Detect(c, snap),
           NEW d \in DetectorNames, NEW p \in Detect(d, snap)
    PROVE  OneOfTwo(o, p)
<1> DEFINE e == snap.event
<1>1. PICK t : IsTradeOf(c, snap, t) /\ o \in Of(snap, t)
  BY DetectIs
<1>2. PICK u : IsTradeOf(d, snap, u) /\ p \in Of(snap, u)
  BY DetectIs
<1>3. t.detector = c /\ u.detector = d
  BY <1>1, <1>2, TradeType
<1>4. o.detector = c /\ p.detector = d
  <2>1. IsOpportunityOf(o, snap, t) /\ IsOpportunityOf(p, snap, u)
    BY <1>1, <1>2, OpportunityIs
  <2> QED
    BY <1>3, <2>1 DEF IsOpportunityOf
<1>5. ASSUME c = "complement", d = "complement", o.markets = p.markets
      PROVE  o = p
  <2>1. ComplementTrade(snap, t) /\ ComplementTrade(snap, u)
    BY <1>1, <1>2, <1>5 DEF IsTradeOf
  <2> QED
    BY <1>1, <1>2, <1>5, <2>1, ComplementOnce
<1>6. ASSUME c = "partial_basket", d = "negrisk_basket"
      PROVE  FALSE
  <2>1. PartialTrade(snap, t) /\ BasketTrade(snap, u)
    BY <1>1, <1>2, <1>6 DEF IsTradeOf
  <2> QED
    BY <2>1, BasketsExclude
<1> QED
  BY <1>4, <1>5, <1>6 DEF OneOfTwo

-----------------------------------------------------------------------------
(* The invariant of a pass.                                                 *)

Phases == {"idle", "fetch", "done", "trigger", "choose", "confirm"}

\* The event is the scenario's but for what has closed since, and the pass sees it as it
\* was when it was discovered.
Watched ==
    /\ scene \in Scenarios /\ event \in Events /\ known \in Events
    /\ pc \in Phases /\ (pc # "idle" => known = event)

Fetched ==
    /\ exch \in [DOMAIN scene.books -> OrderBooks]
    /\ got \in [DOMAIN got -> OrderBooks] /\ DOMAIN got \subseteq DOMAIN exch
    /\ need \in Seq(Tokens(known.markets))
    /\ pc = "idle" => got = <<>>

Cached == Restrict(scene.books, DOMAIN scene.books \cap NeededTokens(known))

\* The opportunities the cached books offer.
OnOffer == Candidates(Cached)

\* What is reported repeats a candidate.
Stems(p, c) ==
    p.detector = c.detector /\ (c.detector = "complement" => p.markets = c.markets)

Progress ==
    /\ pc \in {"idle", "fetch", "trigger"} => queue = {} /\ reported = {}
    /\ pc = "done" => queue = {}
    /\ pc \in {"choose", "confirm"} => queue \subseteq OnOffer
    /\ pc = "confirm" => candidate \in OnOffer \ queue
    /\ pc \in {"choose", "confirm"} =>
          \A p \in reported : \E c \in OnOffer \ queue :
              Stems(p, c) /\ (pc = "confirm" => c # candidate)

Reported == \A p \in reported : Sourced(p, known, scene.relations)

\* As long as no book moves, the fetched books are the books of the exchange.
Fresh == quiet => \A t \in DOMAIN got : got[t] = exch[t]

PassInv ==
    Watched /\ Fetched /\ Progress /\ Reported /\ Fresh /\ QuietMeansExecutable /\ AtMostOneSide

\* The promises of a scenario.
LEMMA SceneIs ==
    ASSUME Watched
    PROVE  IsScene(scene) /\ MaxMarkets \in Nat /\ scene.gas \in Nat /\ scene.gas_per_leg \in Nat
BY ScanPassAssumption DEF Watched, IsScene

\* The snapshots of the pass.
LEMMA SnapshotIs ==
    ASSUME Watched, NEW books, books \in [DOMAIN books -> OrderBooks],
           NEW markets, Range(markets) \subseteq Range(known.markets)
    PROVE  /\ IsSnapshotOf(Snapshot(books, markets), known, scene.relations)
           /\ IsSnapshot(Snapshot(books, markets))
<1> DEFINE snap == Snapshot(books, markets)
<1>1. /\ snap.books = books /\ snap.markets = markets /\ snap.relations = scene.relations
      /\ snap.event = known /\ snap.gas = scene.gas /\ snap.gas_per_leg = scene.gas_per_leg
  BY DEF Snapshot
<1>2. scene.gas \in Nat /\ scene.gas_per_leg \in Nat
  BY SceneIs
<1>3. known \in Events /\ Range(known.markets) \subseteq Markets
  <2>1. known \in Events
    BY DEF Watched
  <2>2. known.markets \in Seq(Markets)
    BY <2>1 DEF Events
  <2> QED
    BY <2>1, <2>2, RangeFinite
<1> HIDE DEF snap
<1>4. IsSnapshot(snap)
  BY <1>1, <1>2, <1>3 DEF IsSnapshot
<1>5. IsSnapshotOf(snap, known, scene.relations)
  BY <1>1, <1>4 DEF IsSnapshotOf
<1> QED
  BY <1>4, <1>5 DEF snap

\* What Scanner._detect returns, by detector.
LEMMA CandidatesAre ==
    ASSUME NEW books, NEW p
    PROVE  /\ p \in Candidates(books) =>
                \E d \in DetectorNames : p \in Detect(d, Snapshot(books, Discovered(known)))
           /\ \A d \in DetectorNames \ {"partial_basket"} :
                p \in Detect(d, Snapshot(books, Discovered(known))) => p \in Candidates(books)
<1> DEFINE D == {"complement", "dependency", "negrisk_basket", "negrisk_dual"}
                   \cup (IF scene.partial THEN {"partial_basket"} ELSE {})
           snap == Snapshot(books, Discovered(known))
<1>1. D \subseteq DetectorNames /\ \A d \in DetectorNames \ {"partial_basket"} : d \in D
  BY DEF DetectorNames
<1>2. Candidates(books) = UNION {Detect(d, snap) : d \in D}
  BY DEF Candidates
<1> HIDE DEF D, snap
<1>3. p \in Candidates(books) => \E d \in D : p \in Detect(d, snap)
  BY <1>2
<1>4. ASSUME NEW d \in D, p \in Detect(d, snap)
      PROVE  p \in Candidates(books)
  BY <1>2, <1>4
<1> QED
  BY <1>1, <1>3, <1>4 DEF snap

\* The candidates found in some books.
LEMMA CandidateIs ==
    ASSUME Watched, NEW books, books \in [DOMAIN books -> OrderBooks], NEW p \in Candidates(books)
    PROVE  /\ p.detector \in DetectorNames /\ Sourced(p, known, scene.relations)
           /\ p.detector \in {"complement", "dependency"} =>
                p.markets \subseteq Range(Discovered(known))
           /\ p.detector = "complement" => \E m \in Markets : p.markets = {m}
<1> DEFINE snap == Snapshot(books, Discovered(known))
<1>1. PICK d \in DetectorNames : p \in Detect(d, snap)
  BY CandidatesAre
<1>2. Range(Discovered(known)) \subseteq Range(known.markets)
  BY SceneIs, DiscoveredType DEF Watched
<1>3. snap.markets = Discovered(known)
  BY DEF Snapshot
<1>4. IsSnapshotOf(snap, known, scene.relations) /\ IsSnapshot(snap)
  BY <1>2, SnapshotIs
<1> HIDE DEF snap
<1>5. /\ p.detector = d /\ Sourced(p, known, scene.relations)
      /\ \E t : IsTradeOf(d, snap, t) /\ p \in Of(snap, t)
      /\ p.markets \subseteq Source(d, snap)
  BY <1>1, <1>4, DetectedIs
<1>6. ASSUME d = "complement"
      PROVE  \E m \in Markets : p.markets = {m}
  <2>1. PICK t : IsTradeOf(d, snap, t) /\ p \in Of(snap, t)
    BY <1>5
  <2>2. ComplementTrade(snap, t)
    BY <1>6, <2>1 DEF IsTradeOf
  <2>3. PICK m \in Range(snap.markets) : t.markets = <<m, m>>
    BY <2>2 DEF ComplementTrade, Trade
  <2>4. p.markets = Range(t.markets)
    <3>1. IsOpportunityOf(p, snap, t)
      BY <2>1, OpportunityIs
    <3> QED
      BY <3>1 DEF IsOpportunityOf
  <2>5. Range(<<m, m>>) = {m}
    BY DEF Range
  <2>6. m \in Markets
    BY <1>4, <2>3 DEF IsSnapshot
  <2> QED
    BY <2>3, <2>4, <2>5, <2>6
<1> QED
  BY <1>3, <1>5, <1>6 DEF Source

\* The cached books a pass reads.
LEMMA CachedIs ==
    ASSUME Watched
    PROVE  Cached \in [DOMAIN Cached -> OrderBooks]
<1>1. scene.books \in [DOMAIN scene.books -> OrderBooks]
  BY SceneIs DEF IsScene
<1> QED
  BY <1>1 DEF Cached, Restrict

\* What a confirmation repeats.
LEMMA ConfirmedIs ==
    ASSUME Watched, Fetched, NEW c \in OnOffer, NEW p \in Confirmed(c)
    PROVE  /\ p.detector = c.detector /\ p.detector \in DetectorNames
           /\ Sourced(p, known, scene.relations) /\ Stems(p, c)
           /\ p \in Detect(p.detector, Snapshot(got, SetToSeq(c.markets)))
           /\ IsSnapshot(Snapshot(got, SetToSeq(c.markets)))
           /\ c.detector \in {"complement", "dependency"} =>
                Range(SetToSeq(c.markets)) \subseteq Range(Discovered(known))
<1> DEFINE ms == SetToSeq(c.markets)
           snap == Snapshot(got, ms)
<1>1. Cached \in [DOMAIN Cached -> OrderBooks]
  BY CachedIs
<1>2. /\ c.detector \in DetectorNames /\ Sourced(c, known, scene.relations)
      /\ c.detector \in {"complement", "dependency"} => c.markets \subseteq Range(Discovered(known))
      /\ c.detector = "complement" => \E m \in Markets : c.markets = {m}
  BY <1>1, CandidateIs DEF OnOffer
<1>3. IsFiniteSet(c.markets) /\ c.markets \subseteq Range(known.markets)
  BY <1>2, SourcedIs DEF Watched
<1>4. Range(ms) \subseteq c.markets
  BY <1>3, SetToSeqType
<1>5. p \in Detect(c.detector, snap)
  BY DEF Confirmed
<1>6. IsSnapshotOf(snap, known, scene.relations) /\ IsSnapshot(snap) /\ snap.markets = ms
  <2>1. got \in [DOMAIN got -> OrderBooks] /\ Range(ms) \subseteq Range(known.markets)
    BY <1>3, <1>4 DEF Fetched
  <2>2. snap.markets = ms
    BY DEF Snapshot
  <2> HIDE DEF ms
  <2> QED
    BY <2>1, <2>2, SnapshotIs
<1> HIDE DEF snap, ms
<1>7. /\ p.detector = c.detector /\ Sourced(p, known, scene.relations)
      /\ \E t : IsTradeOf(c.detector, snap, t) /\ p \in Of(snap, t)
      /\ p.markets \subseteq Source(c.detector, snap)
  BY <1>2, <1>5, <1>6, DetectedIs
<1>8. ASSUME c.detector = "complement"
      PROVE  p.markets = c.markets
  <2>1. PICK t : IsTradeOf(c.detector, snap, t) /\ p \in Of(snap, t)
    BY <1>7
  <2>2. ComplementTrade(snap, t)
    BY <1>8, <2>1 DEF IsTradeOf
  <2>3. PICK m \in Range(snap.markets) : t.markets = <<m, m>>
    BY <2>2 DEF ComplementTrade, Trade
  <2>4. p.markets = Range(t.markets)
    <3>1. IsOpportunityOf(p, snap, t)
      BY <2>1, OpportunityIs
    <3> QED
      BY <3>1 DEF IsOpportunityOf
  <2>5. Range(<<m, m>>) = {m}
    BY DEF Range
  <2>6. PICK n \in Markets : c.markets = {n}
    BY <1>2, <1>8
  <2>7. m = n
    BY <1>4, <1>6, <2>3, <2>6
  <2> QED
    BY <2>3, <2>4, <2>5, <2>6, <2>7
<1>9. Stems(p, c)
  BY <1>7, <1>8 DEF Stems
<1>10. c.detector \in {"complement", "dependency"} => Range(ms) \subseteq Range(Discovered(known))
  BY <1>2, <1>4
<1> QED
  BY <1>2, <1>5, <1>6, <1>7, <1>9, <1>10 DEF snap, ms

-----------------------------------------------------------------------------
(* Each step keeps the invariant.                                           *)

\* The same books offer the same as long as the pass knows the same event.
LEMMA CandidatesSame ==
    ASSUME UNCHANGED <<scene, known>>, NEW books
    PROVE  Candidates(books)' = Candidates(books) /\ OnOffer' = OnOffer
<1>1. Snapshot(books, Discovered(known))' = Snapshot(books, Discovered(known))
  BY DEF Snapshot
<1>2. Candidates(books)' = Candidates(books)
  BY <1>1 DEF Candidates
<1>3. Cached' = Cached
  BY DEF Cached
<1>4. Snapshot(Cached, Discovered(known))' = Snapshot(Cached, Discovered(known))
  BY <1>3 DEF Snapshot
<1>5. OnOffer' = OnOffer
  BY <1>4 DEF OnOffer, Candidates
<1> QED
  BY <1>2, <1>5

\* A pass that did not move on keeps what it knows of itself.
LEMMA PassSame ==
    ASSUME PassInv, UNCHANGED <<scene, known, pc, queue, candidate, reported>>
    PROVE  Progress' /\ Reported' /\ AtMostOneSide'
<1>1. OnOffer' = OnOffer
  BY CandidatesSame
<1>2. Progress'
  BY <1>1 DEF PassInv, Progress, Stems
<1>3. Reported'
  BY DEF PassInv, Reported
<1>4. AtMostOneSide'
  BY DEF PassInv, AtMostOneSide
<1> QED
  BY <1>2, <1>3, <1>4

LEMMA InitHolds == Init => PassInv
<1> SUFFICES ASSUME Init PROVE PassInv
  OBVIOUS
<1>1. IsScene(scene) /\ scene \in Scenarios
  BY ScanPassAssumption DEF Init
<1>2. Watched
  BY <1>1 DEF Init, Watched, IsScene, Phases
<1>3. Fetched
  <2>1. exch \in [DOMAIN scene.books -> OrderBooks]
    BY <1>1 DEF Init, IsScene
  <2>2. got = <<>> /\ need = <<>> /\ DOMAIN got = {}
    BY DEF Init
  <2>3. got \in [DOMAIN got -> OrderBooks] /\ need \in Seq(Tokens(known.markets))
    BY <2>2
  <2> QED
    BY <2>1, <2>2, <2>3 DEF Fetched
<1>4. Progress /\ Reported /\ Fresh
  BY DEF Init, Progress, Reported, Fresh
<1>5. QuietMeansExecutable /\ AtMostOneSide
  BY DEF Init, QuietMeansExecutable, AtMostOneSide, Structural
<1> QED
  BY <1>2, <1>3, <1>4, <1>5 DEF PassInv

LEMMA MoveKeeps ==
    ASSUME PassInv, NEW t \in DOMAIN exch, Move(t)
    PROVE  PassInv'
<1>1. /\ UNCHANGED <<scene, event, known, pc, need, got, queue, candidate, reported>>
      /\ quiet' = FALSE
  BY DEF Move, passVars
<1>2. Watched'
  BY <1>1 DEF PassInv, Watched
<1>3. Fetched'
  <2>1. PICK b \in scene.menu[t] : exch' = [exch EXCEPT ![t] = b]
    BY DEF Move
  <2>2. exch \in [DOMAIN scene.books -> OrderBooks] /\ t \in DOMAIN scene.books
    BY DEF PassInv, Fetched
  <2>3. b \in OrderBooks
    BY <2>1, <2>2, SceneIs DEF PassInv, IsScene
  <2>4. exch' \in [DOMAIN scene.books -> OrderBooks]
    BY <2>1, <2>2, <2>3
  <2> QED
    BY <1>1, <2>2, <2>4 DEF PassInv, Fetched
<1>4. Progress' /\ Reported' /\ AtMostOneSide'
  BY <1>1, PassSame
<1>5. Fresh' /\ QuietMeansExecutable'
  BY <1>1 DEF Fresh, QuietMeansExecutable
<1> QED
  BY <1>2, <1>3, <1>4, <1>5 DEF PassInv

\* An event one of whose markets closes.
LEMMA ClosedIsEvent ==
    ASSUME NEW e \in Events, NEW k \in DOMAIN e.markets,
           NEW prices, prices \in Seq(0 .. Unit)
    PROVE  [e EXCEPT !.markets[k] = [e.markets[k] EXCEPT !.closed = TRUE, !.prices = prices]] \in Events
<1> DEFINE m == [e.markets[k] EXCEPT !.closed = TRUE, !.prices = prices]
<1>1. e.markets \in Seq(Markets) /\ e.markets[k] \in Markets
  BY DEF Events
<1>2. m \in Markets
  BY <1>1 DEF Markets
<1> HIDE DEF m
<1>3. [e.markets EXCEPT ![k] = m] \in Seq(Markets)
  BY <1>1, <1>2
<1>4. [e EXCEPT !.markets[k] = m] = [e EXCEPT !.markets = [e.markets EXCEPT ![k] = m]]
  BY DEF Events
<1> QED
  BY <1>3, <1>4 DEF Events, m

\* The prices a market closes at.
LEMMA ClosingPrices ==
    ASSUME NEW m \in Markets, NEW w
    PROVE  [i \in DOMAIN m.tokens |-> ClosingPrice(i, w)] \in Seq(0 .. Unit)
<1>1. m.tokens \in Seq(STRING) /\ Len(m.tokens) \in Nat /\ DOMAIN m.tokens = 1 .. Len(m.tokens)
  BY DEF Markets
<1>2. Unit \in Nat \ {0} /\ Unit \div 2 \in 0 .. Unit
  <2>1. Unit \in Nat \ {0}
    BY Units
  <2> QED
    BY <2>1
<1>3. \A i : ClosingPrice(i, w) \in 0 .. Unit
  BY <1>2 DEF ClosingPrice
<1> QED
  BY <1>1, <1>3

LEMMA CloseKeeps ==
    ASSUME PassInv, NEW k \in DOMAIN event.markets, Close(k)
    PROVE  PassInv'
<1> DEFINE m == event.markets[k]
<1>1. /\ UNCHANGED <<scene, exch, known, pc, need, got, queue, candidate, reported, quiet>>
      /\ pc = "idle"
  BY DEF Close, passVars
<1>2. Watched'
  <2>1. PICK w \in {f[m.id] : f \in fates} :
          \E p \in {[i \in DOMAIN m.tokens |-> ClosingPrice(i, w)], <<>>} :
             event' = [event EXCEPT !.markets[k] = [m EXCEPT !.closed = TRUE, !.prices = p]]
    BY DEF Close
  <2>2. PICK p \in {[i \in DOMAIN m.tokens |-> ClosingPrice(i, w)], <<>>} :
          event' = [event EXCEPT !.markets[k] = [m EXCEPT !.closed = TRUE, !.prices = p]]
    BY <2>1
  <2>3. event \in Events /\ m \in Markets
    BY DEF PassInv, Watched, Events
  <2>4. p \in Seq(0 .. Unit)
    <3>1. [i \in DOMAIN m.tokens |-> ClosingPrice(i, w)] \in Seq(0 .. Unit)
      BY <2>3, ClosingPrices
    <3>2. <<>> \in Seq(0 .. Unit)
      OBVIOUS
    <3> QED
      BY <2>2, <3>1, <3>2
  <2>5. event' \in Events
    BY <2>2, <2>3, <2>4, ClosedIsEvent
  <2> QED
    BY <1>1, <2>5 DEF PassInv, Watched
<1>3. Fetched' /\ Fresh'
  BY <1>1 DEF PassInv, Fetched, Fresh
<1>4. Progress' /\ Reported' /\ AtMostOneSide'
  BY <1>1, PassSame
<1>5. QuietMeansExecutable'
  BY <1>1 DEF PassInv, Progress, QuietMeansExecutable, Structural
<1> QED
  BY <1>2, <1>3, <1>4, <1>5 DEF PassInv

LEMMA DiscoverKeeps ==
    ASSUME PassInv, Discover
    PROVE  PassInv'
<1>1. /\ UNCHANGED <<scene, event, exch, got, queue, candidate, reported>>
      /\ pc = "idle" /\ known' = event /\ pc' \in {"trigger", "fetch"}
      /\ need' = <<>> \/ need' = SetToSeq(NeededTokens(event))
  BY DEF Discover, market
<1>2. queue = {} /\ reported = {} /\ got = <<>>
  BY <1>1 DEF PassInv, Progress, Fetched
<1>3. Watched'
  BY <1>1 DEF PassInv, Watched, Phases
<1>4. Fetched'
  <2>1. event \in Events /\ MaxMarkets \in Nat
    BY SceneIs DEF PassInv, Watched
  <2>2. IsFiniteSet(NeededTokens(event)) /\ NeededTokens(event) \subseteq Tokens(event.markets)
    BY <2>1, NeededFinite
  <2>3. SetToSeq(NeededTokens(event)) \in Seq(NeededTokens(event))
    BY <2>2, SetToSeqType
  <2>4. SetToSeq(NeededTokens(event)) \in Seq(Tokens(event.markets))
    BY <2>2, <2>3, SeqWithin
  <2>5. <<>> \in Seq(Tokens(event.markets))
    OBVIOUS
  <2>6. need' \in Seq(Tokens(event.markets))
    BY <1>1, <2>4, <2>5
  <2>7. Tokens(known.markets)' = Tokens(event.markets)
    BY <1>1 DEF Tokens
  <2>8. exch' \in [DOMAIN scene'.books -> OrderBooks] /\ got' \in [DOMAIN got' -> OrderBooks]
        /\ DOMAIN got' \subseteq DOMAIN exch' /\ pc' # "idle"
    BY <1>1 DEF PassInv, Fetched
  <2> QED
    BY <1>1, <2>6, <2>7, <2>8 DEF Fetched
<1>5. Progress' /\ Reported' /\ AtMostOneSide'
  BY <1>1, <1>2 DEF Progress, Reported, AtMostOneSide
<1>6. Fresh' /\ QuietMeansExecutable'
  BY <1>1, <1>2 DEF Fresh, QuietMeansExecutable, Structural
<1> QED
  BY <1>3, <1>4, <1>5, <1>6 DEF PassInv

LEMMA FetchKeeps ==
    ASSUME PassInv, Fetch
    PROVE  PassInv'
<1> DEFINE h == Head(need)
<1>1. /\ UNCHANGED <<scene, event, exch, known, pc, queue, candidate, reported, quiet>>
      /\ pc \in {"fetch", "confirm"} /\ need # <<>> /\ need' = Tail(need)
      /\ \/ h \in DOMAIN exch /\ got' = [t \in DOMAIN got \cup {h} |-> IF t = h THEN exch[t] ELSE got[t]]
         \/ got' = got
  BY DEF Fetch, market
<1>2. Watched'
  BY <1>1 DEF PassInv, Watched
<1>3. got' = got \/ /\ h \in DOMAIN exch
                    /\ got' = [t \in DOMAIN got \cup {h} |-> IF t = h THEN exch[t] ELSE got[t]]
  BY <1>1
<1>4. Fetched'
  <2>1. /\ exch \in [DOMAIN scene.books -> OrderBooks]
        /\ got \in [DOMAIN got -> OrderBooks] /\ DOMAIN got \subseteq DOMAIN exch
        /\ need \in Seq(Tokens(known.markets))
    BY DEF PassInv, Fetched
  <2> HIDE DEF h
  <2>2. need' \in Seq(Tokens(known'.markets))
    BY <1>1, <2>1
  <2>3. got' \in [DOMAIN got' -> OrderBooks] /\ DOMAIN got' \subseteq DOMAIN exch
    BY <1>3, <2>1
  <2> QED
    BY <1>1, <2>1, <2>2, <2>3 DEF Fetched
<1>5. Progress' /\ Reported' /\ AtMostOneSide'
  BY <1>1, PassSame
<1>6. Fresh'
  <2> HIDE DEF h
  <2>1. quiet => \A t \in DOMAIN got : got[t] = exch[t]
    BY DEF PassInv, Fresh
  <2>2. quiet => \A t \in DOMAIN got' : got'[t] = exch[t]
    BY <1>3, <2>1
  <2> QED
    BY <1>1, <2>2 DEF Fresh
<1>7. QuietMeansExecutable'
  <2>1. Candidates(exch)' = Candidates(exch)
    BY <1>1 DEF Candidates, Snapshot
  <2> QED
    BY <1>1, <2>1 DEF PassInv, QuietMeansExecutable, Structural
<1> QED
  BY <1>2, <1>4, <1>5, <1>6, <1>7 DEF PassInv

\* The books fetched while no book moves are some of those of the exchange.
LEMMA FetchedIsPart ==
    ASSUME PassInv, quiet, NEW markets
    PROVE  IsPartOf(Snapshot(got, markets), Snapshot(exch, Discovered(known)))
BY DEF PassInv, Fetched, Fresh, IsPartOf, Snapshot

\* What they offer can be traded there.
LEMMA OfferedThere ==
    ASSUME PassInv, quiet, NEW markets, IsSnapshot(Snapshot(got, markets)),
           NEW d \in DetectorNames \ {"partial_basket"},
           d \in {"complement", "dependency"} => Range(markets) \subseteq Range(Discovered(known)),
           NEW p \in Detect(d, Snapshot(got, markets))
    PROVE  p \in Candidates(exch)
<1> DEFINE snap == Snapshot(got, markets)
           big == Snapshot(exch, Discovered(known))
<1>1. IsPartOf(snap, big)
  BY FetchedIsPart
<1>2. snap.markets = markets /\ big.markets = Discovered(known)
  BY DEF Snapshot
<1> HIDE DEF snap, big
<1>3. p \in Detect(d, big)
  BY <1>1, <1>2, DetectedInMore DEF snap
<1> QED
  BY <1>3, CandidatesAre DEF big

LEMMA ScanKeeps ==
    ASSUME PassInv, ScanOnce
    PROVE  PassInv'
<1> DEFINE snap == Snapshot(got, Discovered(known))
<1>1. /\ UNCHANGED <<scene, event, exch, known, need, got, queue, candidate, quiet>>
      /\ pc = "fetch" /\ pc' = "done" /\ reported' = Candidates(got)
  BY DEF ScanOnce, market
<1>2. queue = {} /\ Watched /\ got \in [DOMAIN got -> OrderBooks]
  BY <1>1 DEF PassInv, Progress, Fetched
<1>3. Watched' /\ Fetched' /\ Fresh' /\ Progress'
  BY <1>1, <1>2 DEF PassInv, Watched, Fetched, Fresh, Progress, Phases
<1>4. \A p \in Candidates(got) :
         p.detector \in DetectorNames /\ Sourced(p, known, scene.relations)
  BY <1>2, CandidateIs
<1>5. Reported'
  BY <1>1, <1>4 DEF Reported
<1>6. IsSnapshot(snap)
  <2>1. Range(Discovered(known)) \subseteq Range(known.markets)
    BY <1>2, SceneIs, DiscoveredType DEF Watched
  <2> QED
    BY <1>2, <2>1, SnapshotIs
<1>7. \A p \in Candidates(got) : \E d \in DetectorNames : p \in Detect(d, snap) /\ p.detector = d
  <2> TAKE p \in Candidates(got)
  <2>1. PICK d \in DetectorNames : p \in Detect(d, snap)
    BY CandidatesAre
  <2>2. IsSnapshotOf(snap, known, scene.relations)
    <3>1. Range(Discovered(known)) \subseteq Range(known.markets)
      BY <1>2, SceneIs, DiscoveredType DEF Watched
    <3> QED
      BY <1>2, <3>1, SnapshotIs
  <2> HIDE DEF snap
  <2>3. p.detector = d
    BY <2>1, <2>2, DetectedIs
  <2> QED
    BY <2>1, <2>3
<1>8. QuietMeansExecutable'
  <2>1. ASSUME quiet, NEW p \in Candidates(got), p.detector # "partial_basket"
        PROVE  p \in Candidates(exch)
    <3>1. p.detector \in DetectorNames \ {"partial_basket"} /\ p \in Detect(p.detector, snap)
      BY <1>7, <2>1
    <3>2. Range(Discovered(known)) \subseteq Range(Discovered(known))
      OBVIOUS
    <3> QED
      BY <1>6, <2>1, <3>1, <3>2, OfferedThere
  <2>2. Candidates(exch)' = Candidates(exch)
    BY <1>1 DEF Candidates, Snapshot
  <2> QED
    BY <1>1, <2>1, <2>2 DEF QuietMeansExecutable, Structural
<1>9. AtMostOneSide'
  <2>1. ASSUME NEW o \in Candidates(got), NEW p \in Candidates(got)
        PROVE  OneOfTwo(o, p)
    <3>1. PICK c \in DetectorNames : o \in Detect(c, snap)
      BY <1>7
    <3>2. PICK d \in DetectorNames : p \in Detect(d, snap)
      BY <1>7
    <3> HIDE DEF snap
    <3> QED
      BY <1>6, <3>1, <3>2, DetectedOnce
  <2> QED
    BY <1>1, <2>1 DEF AtMostOneSide, OneOfTwo
<1> QED
  BY <1>3, <1>5, <1>8, <1>9 DEF PassInv

LEMMA TriggerKeeps ==
    ASSUME PassInv, Trigger
    PROVE  PassInv'
<1>1. /\ UNCHANGED <<scene, event, exch, known, need, got, candidate, reported, quiet>>
      /\ pc = "trigger" /\ pc' = "choose" /\ queue' = OnOffer
  BY DEF Trigger, market, OnOffer, Cached
<1>2. reported = {} /\ reported' = {}
  BY <1>1 DEF PassInv, Progress
<1>3. Watched' /\ Fetched' /\ Fresh'
  BY <1>1 DEF PassInv, Watched, Fetched, Fresh, Phases
<1>4. OnOffer' = OnOffer
  BY <1>1, CandidatesSame
<1>5. Progress'
  BY <1>1, <1>2, <1>4 DEF Progress
<1>6. Reported' /\ QuietMeansExecutable' /\ AtMostOneSide'
  BY <1>2 DEF Reported, QuietMeansExecutable, AtMostOneSide, Structural
<1> QED
  BY <1>3, <1>5, <1>6 DEF PassInv

LEMMA ChooseKeeps ==
    ASSUME PassInv, Choose
    PROVE  PassInv'
<1> DEFINE c == candidate'
<1>1. /\ UNCHANGED <<scene, event, exch, known, reported, quiet>>
      /\ pc = "choose" /\ pc' = "confirm" /\ c \in queue /\ queue' = queue \ {c}
      /\ need' = SetToSeq(LegTokens(c)) /\ got' = <<>>
  BY DEF Choose, market
<1>2. /\ Watched /\ queue \subseteq OnOffer /\ c \in OnOffer
      /\ exch \in [DOMAIN scene.books -> OrderBooks]
  BY <1>1 DEF PassInv, Progress, Fetched
<1>3. Watched'
  BY <1>1 DEF PassInv, Watched, Phases
<1>4. Sourced(c, known, scene.relations)
  <2>1. Cached \in [DOMAIN Cached -> OrderBooks] /\ c \in Candidates(Cached)
    BY <1>2, CachedIs DEF OnOffer
  <2> HIDE DEF c
  <2> QED
    BY <1>2, <2>1, CandidateIs
<1>5. Fetched'
  <2> HIDE DEF c
  <2>1. IsFiniteSet(LegTokens(c)) /\ LegTokens(c) \subseteq Tokens(known.markets)
    BY <1>2, <1>4, SourcedIs DEF Watched
  <2>2. SetToSeq(LegTokens(c)) \in Seq(LegTokens(c))
    BY <2>1, SetToSeqType
  <2>3. need' \in Seq(Tokens(known'.markets))
    BY <1>1, <2>1, <2>2, SeqWithin
  <2>4. DOMAIN got' = {}
    BY <1>1
  <2>5. got' \in [DOMAIN got' -> OrderBooks] /\ DOMAIN got' \subseteq DOMAIN exch'
    BY <1>1, <2>4
  <2> QED
    BY <1>1, <1>2, <2>3, <2>5 DEF Fetched
<1>6. OnOffer' = OnOffer
  BY <1>1, CandidatesSame
<1>7. Progress'
  <2>1. \A p \in reported : \E d \in OnOffer \ queue : Stems(p, d)
    BY <1>1 DEF PassInv, Progress
  <2>2. \A p \in reported : \E d \in OnOffer \ (queue \ {c}) : Stems(p, d) /\ d # c
    BY <1>1, <2>1
  <2>3. /\ queue' \subseteq OnOffer' /\ c \in OnOffer' \ queue'
        /\ \A p \in reported' : \E d \in OnOffer' \ queue' : Stems(p, d) /\ d # c
    BY <1>1, <1>2, <1>6, <2>2
  <2> QED
    BY <1>1, <2>3 DEF Progress, Stems
<1>8. Reported' /\ AtMostOneSide'
  BY <1>1 DEF PassInv, Reported, AtMostOneSide
<1>9. Fresh'
  BY <1>1 DEF Fresh
<1>10. QuietMeansExecutable'
  <2>1. Candidates(exch)' = Candidates(exch)
    BY <1>1 DEF Candidates, Snapshot
  <2> QED
    BY <1>1, <2>1 DEF PassInv, QuietMeansExecutable, Structural
<1> QED
  BY <1>3, <1>5, <1>7, <1>8, <1>9, <1>10 DEF PassInv

LEMMA ConfirmKeeps ==
    ASSUME PassInv, Confirm
    PROVE  PassInv'
<1> DEFINE c == candidate
           new == Confirmed(c)
           snap == Snapshot(got, SetToSeq(c.markets))
<1>1. /\ UNCHANGED <<scene, event, exch, known, need, got, queue, candidate, quiet>>
      /\ pc = "confirm" /\ pc' = "choose" /\ reported' = reported \cup new
  BY DEF Confirm, market
<1>2. /\ Watched /\ Fetched /\ queue \subseteq OnOffer /\ c \in OnOffer \ queue
      /\ \A p \in reported : \E d \in OnOffer \ queue : Stems(p, d) /\ d # c
  BY <1>1 DEF PassInv, Progress
<1>3. Watched' /\ Fetched' /\ Fresh'
  BY <1>1 DEF PassInv, Watched, Fetched, Fresh, Phases
<1>4. OnOffer' = OnOffer
  BY <1>1, CandidatesSame
<1>5. \A p \in new : /\ p.detector = c.detector /\ p.detector \in DetectorNames
                     /\ Sourced(p, known, scene.relations) /\ Stems(p, c)
                     /\ p \in Detect(p.detector, snap) /\ IsSnapshot(snap)
                     /\ c.detector \in {"complement", "dependency"} =>
                          Range(SetToSeq(c.markets)) \subseteq Range(Discovered(known))
  BY <1>2, ConfirmedIs
<1>6. Progress'
  <2>1. \A p \in reported \cup new : \E d \in OnOffer \ queue : Stems(p, d)
    BY <1>2, <1>5
  <2> QED
    BY <1>1, <1>2, <1>4, <2>1 DEF Progress, Stems
<1>7. Reported'
  BY <1>1, <1>5 DEF PassInv, Reported
<1> HIDE DEF new
<1>8. QuietMeansExecutable'
  <2>1. ASSUME quiet, NEW p \in new, p.detector # "partial_basket"
        PROVE  p \in Candidates(exch)
    BY <1>5, <2>1, OfferedThere
  <2>2. Candidates(exch)' = Candidates(exch)
    BY <1>1 DEF Candidates, Snapshot
  <2> QED
    BY <1>1, <2>1, <2>2 DEF PassInv, QuietMeansExecutable, Structural
<1>9. AtMostOneSide'
  <2>1. ASSUME NEW o \in new, NEW p \in new
        PROVE  OneOfTwo(o, p)
    <3>1. /\ IsSnapshot(snap) /\ o.detector \in DetectorNames /\ o \in Detect(o.detector, snap)
          /\ p.detector \in DetectorNames /\ p \in Detect(p.detector, snap)
      BY <1>5
    <3> HIDE DEF snap
    <3> QED
      BY <3>1, DetectedOnce
  <2>2. ASSUME NEW a \in OnOffer, NEW b \in OnOffer
        PROVE  OneOfTwo(a, b)
    <3> DEFINE cache == Snapshot(Cached, Discovered(known))
    <3>1. Cached \in [DOMAIN Cached -> OrderBooks]
      BY <1>2, CachedIs
    <3>2. Range(Discovered(known)) \subseteq Range(known.markets)
      BY <1>2, SceneIs, DiscoveredType DEF Watched
    <3>3. IsSnapshot(cache)
      BY <1>2, <3>1, <3>2, SnapshotIs
    <3>4. /\ \E d \in DetectorNames : a \in Detect(d, cache)
          /\ \E d \in DetectorNames : b \in Detect(d, cache)
      BY CandidatesAre DEF OnOffer
    <3> HIDE DEF cache
    <3> QED
      BY <3>3, <3>4, DetectedOnce
  <2>3. ASSUME NEW o \in new, NEW p \in reported
        PROVE  OneOfTwo(o, p) /\ OneOfTwo(p, o)
    <3>1. PICK d \in OnOffer \ queue : Stems(p, d) /\ d # c
      BY <1>2
    <3>2. Stems(o, c) /\ c \in OnOffer
      BY <1>2, <1>5
    <3>3. OneOfTwo(c, d) /\ OneOfTwo(d, c)
      BY <2>2, <3>1, <3>2
    <3> QED
      BY <3>1, <3>2, <3>3 DEF OneOfTwo, Stems
  <2>4. \A o, p \in reported : OneOfTwo(o, p)
    BY DEF PassInv, AtMostOneSide, OneOfTwo
  <2>5. \A o, p \in reported \cup new : OneOfTwo(o, p)
    BY <2>1, <2>3, <2>4
  <2> QED
    BY <1>1, <2>5 DEF AtMostOneSide, OneOfTwo
<1> QED
  BY <1>3, <1>6, <1>7, <1>8, <1>9 DEF PassInv

(* The invariant of the pass holds in every state of every pass.            *)
THEOREM PassKept == Spec => []PassInv
<1>1. Init => PassInv
  BY InitHolds
<1>2. PassInv /\ [Next]_vars => PassInv'
  <2> SUFFICES ASSUME PassInv, [Next]_vars PROVE PassInv'
    OBVIOUS
  <2>1. ASSUME NEW t \in DOMAIN exch, Move(t) PROVE PassInv'
    BY <2>1, MoveKeeps
  <2>2. ASSUME NEW k \in DOMAIN event.markets, Close(k) PROVE PassInv'
    BY <2>2, CloseKeeps
  <2>3. CASE Discover
    BY <2>3, DiscoverKeeps
  <2>4. CASE Fetch
    BY <2>4, FetchKeeps
  <2>5. CASE ScanOnce
    BY <2>5, ScanKeeps
  <2>6. CASE Trigger
    BY <2>6, TriggerKeeps
  <2>7. CASE Choose
    BY <2>7, ChooseKeeps
  <2>8. CASE Confirm
    BY <2>8, ConfirmKeeps
  <2>9. CASE UNCHANGED vars
    <3>1. UNCHANGED <<scene, event, exch, known, pc, need, got, queue, candidate, reported, quiet>>
      BY <2>9 DEF vars, market, passVars
    <3>2. Progress' /\ Reported' /\ AtMostOneSide'
      BY <3>1, PassSame
    <3>3. Candidates(exch)' = Candidates(exch)
      BY <3>1 DEF Candidates, Snapshot
    <3>4. QuietMeansExecutable'
      BY <3>1, <3>3 DEF PassInv, QuietMeansExecutable, Structural
    <3>5. Watched' /\ Fetched' /\ Fresh'
      BY <3>1 DEF PassInv, Watched, Fetched, Fresh
    <3> QED
      BY <3>2, <3>4, <3>5 DEF PassInv
  <2> QED
    BY <2>1, <2>2, <2>3, <2>4, <2>5, <2>6, <2>7, <2>8, <2>9 DEF Next, Exchange
<1> QED
  BY <1>1, <1>2, PTL DEF Spec

(* What is reported or to be confirmed has a size and a profit, and only    *)
(* tokens of the event are fetched.                                         *)
THEOREM PassTypes == Spec => []TypeOK
<1>1. PassInv => TypeOK
  <2> SUFFICES ASSUME PassInv PROVE TypeOK
    OBVIOUS
  <2>1. Watched /\ Fetched /\ Progress /\ Reported
    BY DEF PassInv
  <2>2. ASSUME NEW o \in reported \cup queue
        PROVE  Sourced(o, known, scene.relations)
    <3>1. CASE o \in reported
      BY <2>1, <3>1 DEF Reported
    <3>2. CASE o \in queue
      <4>1. o \in OnOffer
        BY <2>1, <3>2 DEF Progress, Watched, Phases
      <4>2. Cached \in [DOMAIN Cached -> OrderBooks] /\ o \in Candidates(Cached)
        BY <2>1, <4>1, CachedIs DEF OnOffer
      <4> QED
        BY <2>1, <4>2, CandidateIs
    <3> QED
      BY <3>1, <3>2
  <2>3. \A o \in reported \cup queue :
          o.net > 0 /\ o.size > 0 /\ ResolutionRiskFor(o) \in Range(RiskOrder)
    BY <2>1, <2>2, SourcedIs, OpportunityRank DEF Watched
  <2>4. Range(need) \subseteq Tokens(known.markets)
    <3>1. need \in Seq(Tokens(known.markets))
      BY <2>1 DEF Fetched
    <3> QED
      BY <3>1, RangeFinite
  <2> QED
    BY <2>1, <2>3, <2>4 DEF TypeOK, Watched, Fetched, Phases
<1> QED
  BY <1>1, PassKept, PTL

(* When no book has moved since the discovery, all that is reported can     *)
(* still be traded as it was reported.                                      *)
THEOREM QuietExecutable == Spec => []QuietMeansExecutable
<1>1. PassInv => QuietMeansExecutable
  BY DEF PassInv
<1> QED
  BY <1>1, PassKept, PTL

(* The two complement trades of a market are never reported together, nor   *)
(* are a full and a partial basket of the event.                            *)
THEOREM OneSide == Spec => []AtMostOneSide
<1>1. PassInv => AtMostOneSide
  BY DEF PassInv
<1> QED
  BY <1>1, PassKept, PTL

(* A directional bet always ranks after the structural opportunities of     *)
(* undisputed markets.                                                      *)
THEOREM DirectionalLast == Spec => []DirectionalRanksLast
BY RanksLast, PTL

-----------------------------------------------------------------------------
(* What a trade brings in when its markets resolve.                         *)

\* What a walk has spent on a leg is a number.
LEMMA SpentType ==
    ASSUME NEW o, IsOrder(o), NEW w, WalkHolds(o, w)
    PROVE  \A i \in DOMAIN o.legs : w.spent[i] \in Int
<1> DEFINE n == w.size
<1> SUFFICES ASSUME NEW i \in DOMAIN o.legs PROVE w.spent[i] \in Int
  OBVIOUS
<1>1. n \in Nat /\ LegHolds(o, w, i)
  BY DEF WalkHolds
<1>2. w.spent[i] = Total(PriceRow(o, i), 1 .. n)
  BY <1>1 DEF LegHolds
<1>3. \A s \in 1 .. n : PriceRow(o, i)[s] \in Int
  <2> SUFFICES ASSUME NEW s \in 1 .. n PROVE PriceRow(o, i)[s] \in Int
    OBVIOUS
  <2>1. n <= Depth(o, i) /\ Depth(o, i) \in Nat
    BY <1>1, LegLeft, LegIsLadder
  <2>2. s \in Nat \ {0} /\ s <= Depth(o, i)
    BY <1>1, <2>1
  <2>3. PriceAt(o, i, s) \in Nat
    BY <2>2, ShareType
  <2> QED
    BY <2>2, <2>3 DEF PriceRow
<1>4. IsFiniteSet(1 .. n)
  BY <1>1, FS_Interval
<1> HIDE DEF n
<1> QED
  BY <1>2, <1>3, <1>4, TotalType

\* A trade at worth dollars a set pays if its tokens do.
LEMMA TradePays ==
    ASSUME NEW snap, IsSnapshot(snap), NEW t, IsTrade(snap, t), NEW p \in Of(snap, t), t.per = 1,
           NEW w, NEW price,
           \A i \in DOMAIN t.tokens : price[i] \in Nat /\ Payout(t.tokens[i], w) = Coin * price[i],
           t.side = "buy" => t.worth * Unit <= Total(price, DOMAIN t.tokens),
           t.side = "sell" => Total(price, DOMAIN t.tokens) <= t.worth * Unit
    PROVE  SettledPnl(p, w) - p.fees >= p.net
<1> DEFINE o == OrderFor(snap, t)
           k == Walked(o)
           D == DOMAIN t.tokens
           gas == GasFor(snap, Len(t.tokens))
           gain == [i \in D |-> p.size * Payout(p.legs[i].token, w) - Coin * p.legs[i].spent]
           paid == [i \in D |-> k.size * Coin * price[i]]
           none == [i \in D |-> 0]
           P == Total(price, D)
           S == Total(k.spent, D)
           z == k.size * Coin
<1>1. IsOrder(o)
  BY TradeIsOrder
<1>2. WalkHolds(o, k)
  BY <1>1, WalkedHolds
<1>3. k.size \in Nat /\ k.fees \in Int /\ DOMAIN k.spent = DOMAIN o.legs
  BY <1>2 DEF WalkHolds
<1>4. DOMAIN o.legs = D /\ D = 1 .. Len(t.tokens) /\ Len(t.tokens) \in Nat /\ IsFiniteSet(D)
      /\ o.side = t.side /\ o.worth = t.worth /\ o.per = 1
  <2>1. Len(t.tokens) \in Nat /\ D = 1 .. Len(t.tokens)
    BY DEF IsTrade
  <2>2. IsFiniteSet(1 .. Len(t.tokens))
    BY <2>1, FS_Interval
  <2> QED
    BY <2>1, <2>2 DEF OrderFor
<1>5. \A i \in D : k.spent[i] \in Int
  BY <1>1, <1>2, <1>4, SpentType
<1>6. t.worth \in Nat /\ t.side \in {"buy", "sell"} /\ gas \in Nat
  BY <1>4 DEF IsTrade, IsSnapshot, GasFor
<1>7. /\ p.side = t.side /\ p.size = k.size /\ p.fees = k.fees /\ p.gas = gas
      /\ p.legs = [i \in 1 .. Len(t.tokens) |-> [token |-> t.tokens[i], spent |-> k.spent[i]]]
      /\ p.net = Net(o, k) - t.per * gas
  <2>1. IsOpportunityOf(p, snap, t)
    BY OpportunityIs
  <2> QED
    BY <2>1 DEF IsOpportunityOf
<1>8. DOMAIN p.legs = D /\ \A i \in D : p.legs[i].token = t.tokens[i] /\ p.legs[i].spent = k.spent[i]
  BY <1>4, <1>7
<1>9. SettledPnl(p, w) = (IF t.side = "buy" THEN SumFunction(gain) ELSE -SumFunction(gain)) - gas
  BY <1>7, <1>8 DEF SettledPnl
<1>10. SumFunction(gain) = Total(gain, D)
  <2>1. DOMAIN gain = D
    OBVIOUS
  <2> HIDE DEF gain
  <2> QED
    BY <2>1, SumIsTotal
<1>11. Net(o, k) = (IF t.side = "buy" THEN -(1 * Coin * S - k.size * t.worth * Dollar)
                    ELSE 1 * Coin * S - k.size * t.worth * Dollar) - 1 * k.fees
  <2>1. SumFunction(k.spent) = S
    BY <1>3, <1>4, SumIsTotal
  <2> QED
    BY <1>4, <2>1 DEF Net
<1>12. Coin \in Nat /\ Dollar = Unit * Coin /\ Unit \in Nat
  BY Units DEF Dollar
<1>13. \A i \in D : price[i] \in Int /\ Payout(t.tokens[i], w) = Coin * price[i]
  OBVIOUS
<1> HIDE DEF o, k, gas
<1>14. z \in Nat /\ z = k.size * Coin
  BY <1>3, <1>12
<1>15. ASSUME NEW i \in D
       PROVE  /\ none[i] \in Int /\ paid[i] \in Int /\ none[i] = 0
              /\ paid[i] = none[i] + z * price[i]
              /\ gain[i] = paid[i] + (-Coin) * k.spent[i]
  <2> DEFINE q == price[i]
             s == k.spent[i]
  <2>1. q \in Int /\ s \in Int
    BY <1>5, <1>13
  <2>2. gain[i] = k.size * (Coin * q) - Coin * s
    BY <1>7, <1>8, <1>13
  <2>3. paid[i] = k.size * Coin * q /\ none[i] = 0
    OBVIOUS
  <2> HIDE DEF gain, paid, none, q, s
  <2>4. k.size * (Coin * q) = k.size * Coin * q /\ k.size * Coin * q \in Int
    <3> DEFINE n == k.size
    <3>1. n \in Int /\ Coin \in Int
      BY <1>3, <1>12
    <3> HIDE DEF n
    <3>2. n * (Coin * q) = n * Coin * q /\ n * Coin * q \in Int
      BY <2>1, <3>1
    <3> QED
      BY <3>2 DEF n
  <2>5. Coin * s \in Int /\ (-Coin) * s = -(Coin * s)
    BY <1>12, <2>1
  <2> QED
    BY <2>2, <2>3, <2>4, <2>5 DEF q, s
<1> HIDE DEF gain, paid, none, z, D
<1>16. Total(none, D) = 0
  BY <1>4, <1>15, TotalZero
<1>17. Total(paid, D) = Total(none, D) + z * P
  <2>1. IsFiniteSet(D) /\ z \in Int
    BY <1>4, <1>14
  <2>2. \A i \in D : none[i] \in Int /\ price[i] \in Int /\ paid[i] = none[i] + z * price[i]
    BY <1>13, <1>15
  <2>3. Total(paid, D) = Total(none, D) + z * Total(price, D)
    BY <2>1, <2>2, TotalLinear
  <2> QED
    BY <2>3
<1>18. Total(gain, D) = Total(paid, D) + (-Coin) * S
  <2> DEFINE c == -Coin
  <2>1. c \in Int /\ \A i \in D : paid[i] \in Int /\ k.spent[i] \in Int /\ gain[i] = paid[i] + c * k.spent[i]
    BY <1>5, <1>12, <1>15
  <2> HIDE DEF c
  <2>2. Total(gain, D) = Total(paid, D) + c * S
    BY <1>4, <2>1, TotalLinear
  <2> QED
    BY <2>2 DEF c
<1>19. P \in Int /\ S \in Int
  BY <1>4, <1>5, <1>13, TotalType
<1> DEFINE G == SumFunction(gain)
           V == t.worth * Unit
<1> HIDE DEF P, S
<1>20. z * P \in Int /\ Coin * S \in Int /\ (-Coin) * S = -(Coin * S) /\ 1 * Coin * S = Coin * S
       /\ V \in Int /\ z * V \in Int
  BY <1>6, <1>12, <1>14, <1>19
<1>21. k.size * t.worth * Dollar = z * V
  BY <1>3, <1>6, <1>12, <1>14
<1>22. G = z * P - Coin * S
  BY <1>10, <1>16, <1>17, <1>18, <1>20
<1>23. p.net = Net(o, k) - gas
  BY <1>6, <1>7
<1> HIDE DEF G, V
<1>24. CASE t.side = "buy"
  <2>1. z * V <= z * P
    <3>1. V <= P
      BY <1>24 DEF V, P, D
    <3> QED
      BY <1>14, <1>19, <1>20, <3>1, TimesMonotone
  <2>2. SettledPnl(p, w) = z * P - Coin * S - gas
    BY <1>9, <1>20, <1>22, <1>24 DEF G
  <2>3. p.net = z * V - Coin * S - k.fees - gas
    BY <1>3, <1>6, <1>11, <1>20, <1>21, <1>23, <1>24
  <2> HIDE DEF z
  <2> QED
    BY <1>3, <1>6, <1>7, <1>20, <2>1, <2>2, <2>3
<1>25. CASE t.side = "sell"
  <2>1. z * P <= z * V
    <3>1. P <= V
      BY <1>25 DEF V, P, D
    <3> QED
      BY <1>14, <1>19, <1>20, <3>1, TimesMonotone
  <2>2. SettledPnl(p, w) = Coin * S - z * P - gas
    BY <1>9, <1>20, <1>22, <1>25 DEF G
  <2>3. p.net = Coin * S - z * V - k.fees - gas
    BY <1>3, <1>6, <1>11, <1>20, <1>21, <1>23, <1>25
  <2> QED
    BY <1>3, <1>6, <1>7, <1>20, <2>1, <2>2, <2>3
<1> QED
  BY <1>6, <1>24, <1>25

-----------------------------------------------------------------------------
(* What the markets of a structural trade pay together, at a resolution.    *)

YesPays(m, f) == ClosingPrice(YesIndex(m), f[m.id])
NoPays(m, f) == ClosingPrice(3 - YesIndex(m), f[m.id])

\* The trade's tokens pay what a set is said to be worth, or more when it is bought.
PaysEnough(e, t, f) ==
    \E price :
        /\ \A i \in DOMAIN t.tokens :
             /\ price[i] \in Nat
             /\ \E m \in Range(e.markets) :
                  /\ IsBinary(m)
                  /\ \/ t.tokens[i] = YesToken(m) /\ price[i] = YesPays(m, f)
                     \/ t.tokens[i] = NoToken(m) /\ price[i] = NoPays(m, f)
        /\ t.side = "buy" => t.worth * Unit <= Total(price, DOMAIN t.tokens)
        /\ t.side = "sell" => Total(price, DOMAIN t.tokens) <= t.worth * Unit

\* A void pays half a dollar, which no market shows that has lost.
LEMMA HalfUnit == Unit \div 2 \in Nat /\ Unit \div 2 + Unit \div 2 = Unit /\ ResolvedNoMax \in Nat
                  /\ ResolvedNoMax < Unit \div 2
<1>1. Unit \in Nat /\ Unit % 2 = 0 /\ ResolvedNoMax \in Nat /\ ResolvedNoMax < Unit \div 2
  BY Units, ScanPassAssumption
<1> QED
  BY <1>1

\* One outcome of a binary market pays a dollar and the other nothing, or each a half.
LEMMA ClosingIs ==
    ASSUME NEW j \in {1, 2}, NEW won \in 0 .. 2
    PROVE  /\ ClosingPrice(j, won) \in Nat /\ ClosingPrice(3 - j, won) \in Nat
           /\ ClosingPrice(j, won) + ClosingPrice(3 - j, won) = Unit
           /\ won # 0 => /\ ClosingPrice(j, won) = IF won = j THEN Unit ELSE 0
                         /\ ClosingPrice(3 - j, won) = IF won = j THEN 0 ELSE Unit
<1>1. Unit \div 2 \in Nat /\ Unit \div 2 + Unit \div 2 = Unit /\ Unit \in Nat
  BY HalfUnit, Units
<1> DEFINE half == Unit \div 2
<1> HIDE DEF half
<1>2. half \in Nat /\ half + half = Unit
  BY <1>1 DEF half
<1>3. \A i : ClosingPrice(i, won) = IF won = 0 THEN half ELSE IF won = i THEN Unit ELSE 0
  BY DEF ClosingPrice, half
<1>4. CASE won = 0
  BY <1>2, <1>3, <1>4
<1>5. CASE won = j
  <2>1. won # 0 /\ won # 3 - j
    BY <1>5
  <2> QED
    BY <1>1, <1>3, <1>5, <2>1
<1>6. CASE won # 0 /\ won # j
  <2>1. won = 3 - j
    BY <1>6
  <2> QED
    BY <1>1, <1>3, <1>6, <2>1
<1> QED
  BY <1>4, <1>5, <1>6

\* What the promises say of one binary market.
LEMMA FateOf ==
    ASSUME NEW e \in Events, NEW relations, NEW f, IsFate(e, relations, f),
           NEW m \in Range(e.markets), IsBinary(m)
    PROVE  /\ m \in Markets /\ YesIndex(m) \in {1, 2}
           /\ f[m.id] \in 0 .. 2
           /\ ClassifyMarket(m) = "objective" => f[m.id] # 0
           /\ YesPays(m, f) \in Nat /\ NoPays(m, f) \in Nat /\ YesPays(m, f) + NoPays(m, f) = Unit
           /\ f[m.id] # 0 => /\ YesPays(m, f) = IF f[m.id] = YesIndex(m) THEN Unit ELSE 0
                             /\ NoPays(m, f) = IF f[m.id] = YesIndex(m) THEN 0 ELSE Unit
<1>1. PICK i \in DOMAIN e.markets : m = e.markets[i]
  BY DEF Range
<1>2. m \in Markets
  BY <1>1 DEF Events
<1>3. YesIndex(m) \in {1, 2}
  BY <1>2, MarketTokens
<1>4. f[m.id] \in 0 .. Len(m.tokens) /\ (ClassifyMarket(m) = "objective" => f[m.id] # 0)
  BY <1>1 DEF IsFate
<1>5. f[m.id] \in 0 .. 2
  BY <1>4 DEF IsBinary
<1> DEFINE j == YesIndex(m)
           won == f[m.id]
<1> HIDE DEF j, won
<1>6. /\ ClosingPrice(j, won) \in Nat /\ ClosingPrice(3 - j, won) \in Nat
      /\ ClosingPrice(j, won) + ClosingPrice(3 - j, won) = Unit
      /\ won # 0 => /\ ClosingPrice(j, won) = IF won = j THEN Unit ELSE 0
                    /\ ClosingPrice(3 - j, won) = IF won = j THEN 0 ELSE Unit
  BY <1>3, <1>5, ClosingIs DEF j, won
<1> QED
  BY <1>2, <1>3, <1>4, <1>5, <1>6 DEF YesPays, NoPays, j, won

\* YES of one market and NO of another, or of the same.
LEMMA PairPays ==
    ASSUME NEW e, NEW a \in Range(e.markets), NEW b \in Range(e.markets), IsBinary(a), IsBinary(b),
           NEW f, NEW k, NEW l, NEW x \in Nat, NEW y \in Nat,
           k = YesToken(a) /\ x = YesPays(a, f), l = NoToken(b) /\ y = NoPays(b, f),
           NEW t, t.tokens = <<k, l>>, t.worth = 1,
           t.side = "buy" => Unit <= x + y, t.side = "sell" => x + y <= Unit
    PROVE  PaysEnough(e, t, f)
<1> DEFINE price == <<x, y>>
           D == DOMAIN t.tokens
<1>1. D = 1 .. 2
  OBVIOUS
<1>2. price[1] = x /\ price[2] = y /\ t.tokens[1] = k /\ t.tokens[2] = l
  OBVIOUS
<1>3. \A i \in D : i = 1 \/ i = 2
  BY <1>1
<1> HIDE DEF price
<1>4. Total(price, 1 .. 2) = x + y
  BY <1>2, TotalTwo
<1>5. \A i \in D : /\ price[i] \in Nat
                   /\ \E m \in Range(e.markets) :
                        /\ IsBinary(m)
                        /\ \/ t.tokens[i] = YesToken(m) /\ price[i] = YesPays(m, f)
                           \/ t.tokens[i] = NoToken(m) /\ price[i] = NoPays(m, f)
  BY <1>2, <1>3
<1>6. /\ t.side = "buy" => t.worth * Unit <= Total(price, D)
      /\ t.side = "sell" => Total(price, D) <= t.worth * Unit
  BY <1>1, <1>4, Units
<1> HIDE DEF D
<1> QED
  BY <1>5, <1>6 DEF PaysEnough, D

\* YES and NO of a market pay a dollar, won, lost or void.
LEMMA ComplementPays ==
    ASSUME NEW e \in Events, NEW relations, NEW f, IsFate(e, relations, f),
           NEW snap, IsSnapshotOf(snap, e, relations), NEW t, ComplementTrade(snap, t)
    PROVE  PaysEnough(e, t, f)
<1>1. PICK m \in Range(snap.markets), side \in {"buy", "sell"} :
         IsBinary(m) /\ t = Trade("complement", side, <<m, m>>, <<YesToken(m), NoToken(m)>>, 1, 1, "instant")
  BY DEF ComplementTrade
<1>2. m \in Range(e.markets) /\ t.tokens = <<YesToken(m), NoToken(m)>> /\ t.worth = 1
  BY <1>1 DEF IsSnapshotOf, Trade
<1>3. YesPays(m, f) \in Nat /\ NoPays(m, f) \in Nat /\ YesPays(m, f) + NoPays(m, f) = Unit
  BY <1>1, <1>2, FateOf
<1>4. Unit <= YesPays(m, f) + NoPays(m, f) /\ YesPays(m, f) + NoPays(m, f) <= Unit
  BY <1>3, Units
<1> QED
  BY <1>1, <1>2, <1>3, <1>4, PairPays

\* For A => B, YES of B or NO of A pays, as neither voids.
LEMMA DependencyPays ==
    ASSUME NEW e \in Events, NEW relations, NEW f, IsFate(e, relations, f),
           NEW snap, IsSnapshotOf(snap, e, relations), NEW t, DependencyTrade(snap, t)
    PROVE  PaysEnough(e, t, f)
<1>1. PICK a \in Range(snap.markets), b \in Range(snap.markets) :
        /\ <<a.id, b.id>> \in snap.relations /\ IsBinary(a) /\ IsBinary(b)
        /\ ClassifyMarket(a) = "objective" /\ ClassifyMarket(b) = "objective"
        /\ t = Trade("dependency", "buy", <<b, a>>, <<YesToken(b), NoToken(a)>>, 1, 1, "resolution")
  BY DEF DependencyTrade
<1>2. /\ a \in Range(e.markets) /\ b \in Range(e.markets) /\ <<a.id, b.id>> \in relations
      /\ t.tokens = <<YesToken(b), NoToken(a)>> /\ t.worth = 1 /\ t.side = "buy"
  BY <1>1 DEF IsSnapshotOf, Trade
<1>3. /\ f[a.id] # 0 /\ f[b.id] # 0
      /\ YesPays(b, f) \in Nat /\ NoPays(a, f) \in Nat
      /\ YesPays(b, f) = IF f[b.id] = YesIndex(b) THEN Unit ELSE 0
      /\ NoPays(a, f) = IF f[a.id] = YesIndex(a) THEN 0 ELSE Unit
  BY <1>1, <1>2, FateOf
<1>4. f[a.id] = YesIndex(a) => f[b.id] = YesIndex(b)
  <2>1. PICK i \in DOMAIN e.markets : a = e.markets[i]
    BY <1>2 DEF Range
  <2>2. PICK j \in DOMAIN e.markets : b = e.markets[j]
    BY <1>2 DEF Range
  <2> QED
    BY <1>2, <1>3, <2>1, <2>2 DEF IsFate
<1>5. Unit <= YesPays(b, f) + NoPays(a, f)
  BY <1>3, <1>4, Units
<1> QED
  BY <1>1, <1>2, <1>3, <1>5, PairPays

\* A closed market that dropped out of the partition has lost.
LEMMA ClosedHasLost ==
    ASSUME NEW e \in Events, NEW relations, NEW f, IsFate(e, relations, f),
           NEW i \in DOMAIN e.markets, e.markets[i].closed, LostOrLive(e.markets[i])
    PROVE  f[e.markets[i].id] # 0 /\ f[e.markets[i].id] # YesIndex(e.markets[i])
<1> DEFINE m == e.markets[i]
           won == f[m.id]
           y == YesIndex(m)
<1>1. m \in Markets /\ y \in {1, 2} /\ PricesTell(m, won)
  <2>1. m \in Markets
    BY DEF Events
  <2> QED
    BY <2>1, MarketTokens DEF IsFate
<1>2. Len(m.prices) >= y /\ m.prices[y] <= ResolvedNoMax
  BY DEF LostOrLive
<1>3. m.prices = [k \in DOMAIN m.tokens |-> ClosingPrice(k, won)]
  <2>1. m.prices # <<>>
    BY <1>1, <1>2
  <2> QED
    BY <1>1, <2>1 DEF PricesTell
<1>4. m.prices[y] = ClosingPrice(y, won)
  <2>1. m.prices \in Seq(0 .. Unit) /\ Len(m.prices) \in Nat /\ DOMAIN m.prices = 1 .. Len(m.prices)
    BY <1>1 DEF Markets
  <2>2. y \in DOMAIN m.prices
    BY <1>1, <1>2, <2>1
  <2> HIDE DEF m, won, y
  <2>3. DOMAIN m.prices = DOMAIN m.tokens
    BY <1>3
  <2> QED
    BY <1>3, <2>2, <2>3
<1>5. Unit \div 2 \in Nat /\ ResolvedNoMax \in Nat /\ ResolvedNoMax < Unit \div 2 /\ Unit \in Nat
      /\ Unit \div 2 <= Unit
  BY HalfUnit, Units
<1> HIDE DEF m, won, y
<1>6. won = 0 => ClosingPrice(y, won) = Unit \div 2
  BY DEF ClosingPrice
<1>7. won = y => ClosingPrice(y, won) = Unit
  BY <1>1 DEF ClosingPrice
<1> QED
  BY <1>2, <1>4, <1>5, <1>6, <1>7 DEF m, won, y

\* One YES of the live partition pays: the winner is in it, as what closed has lost.
LEMMA BasketPays ==
    ASSUME NEW e \in Events, NEW relations, NEW f, IsFate(e, relations, f),
           NEW snap, IsSnapshotOf(snap, e, relations), NEW t, BasketTrade(snap, t),
           \A m \in Range(t.markets) : f[m.id] # 0
    PROVE  PaysEnough(e, t, f)
<1> DEFINE live == LivePartition(e, TRUE)
           D == DOMAIN live
           price == [n \in D |-> YesPays(live[n], f)]
           won(i) == f[e.markets[i].id]
<1>1. /\ IsMultiOutcome(e) /\ live # <<>>
      /\ t = Trade("negrisk_basket", "buy", live, YesTokens(live), 1, 1, "resolution")
  BY DEF BasketTrade, IsSnapshotOf
<1>2. PICK pos : IsPartition(e, live, pos)
  BY <1>1, PartitionIs
<1>3. ~e.augmented
  BY <1>1, PartitionIs
<1>4. \A n \in D : /\ live[n] \in Markets /\ IsBinary(live[n])
                   /\ pos[n] \in DOMAIN e.markets /\ live[n] = e.markets[pos[n]]
  <2> HIDE DEF live
  <2> QED
    BY <1>2, PartitionLive
<1>5. \A n \in D : /\ live[n] \in Range(e.markets) /\ live[n] \in Range(t.markets)
                   /\ f[live[n].id] # 0
  BY <1>1, <1>4 DEF Trade, Range
<1> HIDE DEF live
<1>6. \A n \in D : /\ YesPays(live[n], f) \in Nat
                   /\ YesPays(live[n], f) = IF f[live[n].id] = YesIndex(live[n]) THEN Unit ELSE 0
  BY <1>4, <1>5, FateOf
<1>7. \E n \in D : f[live[n].id] = YesIndex(live[n])
  <2>1. PICK i \in DOMAIN e.markets : f[e.markets[i].id] = YesIndex(e.markets[i]) \/ f[e.markets[i].id] = 0
    BY <1>1, <1>3 DEF IsFate, IsMultiOutcome
  <2>2. LostOrLive(e.markets[i])
    BY <1>2 DEF IsPartition
  <2>3. ~e.markets[i].closed
    BY <2>1, <2>2, ClosedHasLost
  <2>4. PICK n \in D : pos[n] = i
    BY <1>2, <2>3 DEF IsPartition, IsSelection
  <2> QED
    BY <1>4, <1>5, <2>1, <2>4
<1>8. IsFiniteSet(D)
  <2>1. live \in Seq(Markets)
    BY <1>2 DEF IsPartition
  <2>2. D = 1 .. Len(live) /\ Len(live) \in Nat
    BY <2>1
  <2> HIDE DEF D
  <2>3. IsFiniteSet(1 .. Len(live))
    BY <2>2, FS_Interval
  <2> QED
    BY <2>2, <2>3
<1>9. Unit <= Total(price, D)
  <2>1. PICK n \in D : f[live[n].id] = YesIndex(live[n])
    BY <1>7
  <2>2. \A k \in D : price[k] \in Nat
    BY <1>6
  <2>3. price[n] = Unit
    BY <1>6, <2>1
  <2>4. D \ {n} \in SUBSET D
    OBVIOUS
  <2> HIDE DEF price, D
  <2>5. IsFiniteSet(D \ {n})
    BY <1>8, <2>4, FS_Subset
  <2>6. \A k \in D : price[k] \in Int
    BY <2>2
  <2>7. Total(price, D) = price[n] + Total(price, D \ {n})
    BY <1>8, <2>6, TotalTake
  <2>8. Total(price, D \ {n}) \in Nat
    BY <2>2, <2>5, TotalNat
  <2> QED
    BY <2>3, <2>7, <2>8, Units
<1>10. DOMAIN t.tokens = D /\ t.tokens = YesTokens(live) /\ t.side = "buy" /\ t.worth = 1
  BY <1>1 DEF Trade, YesTokens
<1>11. \A n \in DOMAIN t.tokens :
         /\ price[n] \in Nat
         /\ \E m \in Range(e.markets) :
              /\ IsBinary(m)
              /\ \/ t.tokens[n] = YesToken(m) /\ price[n] = YesPays(m, f)
                 \/ t.tokens[n] = NoToken(m) /\ price[n] = NoPays(m, f)
  <2> SUFFICES ASSUME NEW n \in D
               PROVE  /\ price[n] \in Nat
                      /\ t.tokens[n] = YesToken(live[n]) /\ price[n] = YesPays(live[n], f)
    BY <1>4, <1>5, <1>10
  <2> QED
    BY <1>6, <1>10 DEF YesTokens
<1> HIDE DEF price, D
<1>12. t.worth * Unit <= Total(price, DOMAIN t.tokens) /\ t.side # "sell"
  BY <1>9, <1>10, Units
<1> QED
  BY <1>11, <1>12 DEF PaysEnough

\* All NO of the live partition but one at most pay.
LEMMA DualPays ==
    ASSUME NEW e \in Events, NEW relations, NEW f, IsFate(e, relations, f),
           NEW snap, IsSnapshotOf(snap, e, relations), NEW t, DualTrade(snap, t)
    PROVE  PaysEnough(e, t, f)
<1> DEFINE live == LivePartition(e, FALSE)
           D == DOMAIN live
           N == Len(live)
           price == [n \in D |-> NoPays(live[n], f)]
<1>1. /\ IsMultiOutcome(e) /\ live # <<>>
      /\ \A n \in D : ClassifyMarket(live[n]) = "objective"
      /\ t = Trade("negrisk_dual", "buy", live, NoTokens(live), N - 1, 1, "resolution")
  BY DEF DualTrade, IsSnapshotOf
<1>2. PICK pos : IsPartition(e, live, pos)
  BY <1>1, PartitionIs
<1> HIDE DEF live
<1>3. \A n \in D : /\ live[n] \in Markets /\ IsBinary(live[n])
                   /\ pos[n] \in DOMAIN e.markets /\ live[n] = e.markets[pos[n]]
  BY <1>2, PartitionLive
<1>4. \A n \in D : live[n] \in Range(e.markets)
  BY <1>3 DEF Range
<1>5. \A n \in D : /\ NoPays(live[n], f) \in Nat
                   /\ NoPays(live[n], f) = IF f[live[n].id] = YesIndex(live[n]) THEN 0 ELSE Unit
  BY <1>1, <1>3, <1>4, FateOf
<1>6. \A m, n \in D : price[m] = 0 /\ price[n] = 0 => m = n
  <2> SUFFICES ASSUME NEW m \in D, NEW n \in D, price[m] = 0, price[n] = 0 PROVE m = n
    OBVIOUS
  <2>1. f[live[m].id] = YesIndex(live[m]) /\ f[live[n].id] = YesIndex(live[n])
    BY <1>5, Units
  <2>2. pos[m] = pos[n]
    BY <1>1, <1>3, <2>1 DEF IsFate, IsMultiOutcome
  <2> QED
    BY <1>2, <2>2 DEF IsPartition, IsSelection
<1>7. D = 1 .. N /\ N \in Nat /\ IsFiniteSet(D) /\ Cardinality(D) = N
  <2>1. live \in Seq(Markets)
    BY <1>2 DEF IsPartition
  <2>2. D = 1 .. Len(live) /\ Len(live) \in Nat
    BY <2>1
  <2> HIDE DEF D
  <2>3. IsFiniteSet(D) /\ Cardinality(D) = IF 1 > Len(live) THEN 0 ELSE Len(live) - 1 + 1
    BY <2>2, FS_Interval
  <2> QED
    BY <2>2, <2>3
<1>8. \A n \in D : price[n] \in Nat /\ (price[n] = 0 \/ price[n] = Unit)
  BY <1>5
<1>9. Unit \in Nat
  BY Units
<1>10. DOMAIN t.tokens = D /\ t.tokens = NoTokens(live) /\ t.side = "buy" /\ t.worth = N - 1
  BY <1>1 DEF Trade, NoTokens
<1>11. \A n \in DOMAIN t.tokens :
         /\ price[n] \in Nat
         /\ \E m \in Range(e.markets) :
              /\ IsBinary(m)
              /\ \/ t.tokens[n] = YesToken(m) /\ price[n] = YesPays(m, f)
                 \/ t.tokens[n] = NoToken(m) /\ price[n] = NoPays(m, f)
  <2> SUFFICES ASSUME NEW n \in D
               PROVE  /\ price[n] \in Nat
                      /\ t.tokens[n] = NoToken(live[n]) /\ price[n] = NoPays(live[n], f)
    BY <1>3, <1>4, <1>10
  <2> QED
    BY <1>5, <1>10 DEF NoTokens
<1> HIDE DEF price, D, N
<1>12. (N - 1) * Unit <= Total(price, D)
  <2>1. CASE \A n \in D : price[n] = Unit
    <3>1. Total(price, D) = Unit * Cardinality(D)
      BY <1>7, <1>9, <2>1, TotalConstant
    <3>2. Unit * N = (N - 1) * Unit + Unit /\ (N - 1) * Unit \in Int
      BY <1>7, <1>9
    <3> QED
      BY <1>7, <1>9, <3>1, <3>2
  <2>2. CASE \E n \in D : price[n] # Unit
    <3>1. PICK n \in D : price[n] = 0
      BY <1>8, <2>2
    <3> DEFINE R == D \ {n}
    <3>2. \A k \in R : price[k] = Unit
      BY <1>6, <1>8, <3>1
    <3>3. IsFiniteSet(R) /\ Cardinality(R) = N - 1
      BY <1>7, FS_RemoveElement
    <3>4. \A k \in D : price[k] \in Int
      BY <1>8
    <3>5. Total(price, D) = price[n] + Total(price, R)
      BY <1>7, <3>4, TotalTake
    <3> HIDE DEF R
    <3>6. Total(price, R) = Unit * Cardinality(R)
      BY <1>9, <3>2, <3>3, TotalConstant
    <3> DEFINE c == N - 1
    <3>7. c \in Int /\ Unit * c = c * Unit /\ Unit * c \in Int
      BY <1>7, <1>9
    <3> HIDE DEF c
    <3>8. Total(price, D) = c * Unit
      BY <3>1, <3>3, <3>5, <3>6, <3>7 DEF c
    <3> QED
      BY <3>7, <3>8 DEF c
  <2> QED
    BY <2>1, <2>2
<1>13. t.worth * Unit <= Total(price, DOMAIN t.tokens) /\ t.side # "sell"
  BY <1>10, <1>12
<1> QED
  BY <1>11, <1>13 DEF PaysEnough

-----------------------------------------------------------------------------
(* The resolutions still possible are those the closing prices tell of.     *)

SameShape(g, e) ==
    /\ DOMAIN g.markets = DOMAIN e.markets
    /\ g.neg_risk = e.neg_risk /\ g.augmented = e.augmented
    /\ \A i \in DOMAIN e.markets :
         /\ g.markets[i].id = e.markets[i].id /\ g.markets[i].tokens = e.markets[i].tokens
         /\ YesIndex(g.markets[i]) = YesIndex(e.markets[i])
         /\ ClassifyMarket(g.markets[i]) = ClassifyMarket(e.markets[i])

ClosedWith(e, k, prices) ==
    [e EXCEPT !.markets[k] = [e.markets[k] EXCEPT !.closed = TRUE, !.prices = prices]]

\* Closing leaves a market its outcomes, tokens and risk.
LEMMA ClosedShape ==
    ASSUME NEW e \in Events, NEW k \in DOMAIN e.markets, NEW prices,
           NEW g, g = ClosedWith(e, k, prices)
    PROVE  /\ SameShape(g, e)
           /\ g.markets[k].prices = prices
           /\ \A i \in DOMAIN e.markets \ {k} : g.markets[i] = e.markets[i]
<1> DEFINE m == [e.markets[k] EXCEPT !.closed = TRUE, !.prices = prices]
<1>1. e.markets \in Seq(Markets) /\ e.markets[k] \in Markets
  BY DEF Events
<1>2. /\ m.id = e.markets[k].id /\ m.tokens = e.markets[k].tokens /\ m.prices = prices
      /\ m.outcomes = e.markets[k].outcomes /\ m.disputed = e.markets[k].disputed
      /\ m.long_window = e.markets[k].long_window /\ m.category = e.markets[k].category
  BY <1>1 DEF Markets
<1>3. YesIndex(m) = YesIndex(e.markets[k]) /\ ClassifyMarket(m) = ClassifyMarket(e.markets[k])
  BY <1>2 DEF YesIndex, ClassifyMarket
<1> HIDE DEF m
<1>4. g = [e EXCEPT !.markets[k] = m]
  BY DEF m, ClosedWith
<1>5. g.markets = [e.markets EXCEPT ![k] = m] /\ g.neg_risk = e.neg_risk /\ g.augmented = e.augmented
  BY <1>4 DEF Events
<1>6. /\ DOMAIN g.markets = DOMAIN e.markets /\ g.markets[k] = m
      /\ \A i \in DOMAIN e.markets \ {k} : g.markets[i] = e.markets[i]
  BY <1>1, <1>5
<1>7. SameShape(g, e)
  BY <1>2, <1>3, <1>5, <1>6 DEF SameShape
<1> QED
  BY <1>2, <1>6, <1>7

ClosingPricesOf(m, f) == [i \in DOMAIN m.tokens |-> ClosingPrice(i, f[m.id])]

\* A resolution that agrees with the prices a market closes at keeps its promises.
LEMMA FateKept ==
    ASSUME NEW e \in Events, NEW k \in DOMAIN e.markets, NEW relations, NEW f, IsFate(e, relations, f),
           NEW prices, prices \in {<<>>, ClosingPricesOf(e.markets[k], f)},
           NEW g, g = ClosedWith(e, k, prices)
    PROVE  IsFate(g, relations, f)
<1>1. /\ SameShape(g, e) /\ g.markets[k].prices = prices
      /\ \A i \in DOMAIN e.markets \ {k} : g.markets[i] = e.markets[i]
  BY ClosedShape
<1>2. ASSUME NEW i \in DOMAIN e.markets
      PROVE  PricesTell(g.markets[i], f[g.markets[i].id])
  <2>1. CASE i = k
    BY <1>1, <2>1 DEF SameShape, PricesTell, ClosingPricesOf
  <2>2. CASE i # k
    BY <1>1, <2>2 DEF IsFate
  <2> QED
    BY <2>1, <2>2
<1> DEFINE D == DOMAIN e.markets
           won(i) == f[e.markets[i].id]
           yes(i) == won(i) = YesIndex(e.markets[i])
<1>3. /\ DOMAIN g.markets = D /\ g.neg_risk = e.neg_risk /\ g.augmented = e.augmented
      /\ \A i \in D : /\ g.markets[i].id = e.markets[i].id
                      /\ g.markets[i].tokens = e.markets[i].tokens
                      /\ YesIndex(g.markets[i]) = YesIndex(e.markets[i])
                      /\ ClassifyMarket(g.markets[i]) = ClassifyMarket(e.markets[i])
  BY <1>1 DEF SameShape
<1>4. \A i \in D : /\ f[g.markets[i].id] \in 0 .. Len(g.markets[i].tokens)
                   /\ PricesTell(g.markets[i], f[g.markets[i].id])
                   /\ ClassifyMarket(g.markets[i]) = "objective" => f[g.markets[i].id] # 0
  BY <1>2, <1>3 DEF IsFate
<1>5. g.neg_risk =>
        /\ \A i, j \in D : f[g.markets[i].id] = YesIndex(g.markets[i])
                           /\ f[g.markets[j].id] = YesIndex(g.markets[j]) => i = j
        /\ ~g.augmented => \E i \in D : f[g.markets[i].id] = YesIndex(g.markets[i])
                                        \/ f[g.markets[i].id] = 0
  <2>1. e.neg_risk => /\ \A i, j \in D : yes(i) /\ yes(j) => i = j
                      /\ ~e.augmented => \E i \in D : yes(i) \/ won(i) = 0
    BY DEF IsFate
  <2> QED
    BY <1>3, <2>1
<1>6. \A i, j \in D :
        <<g.markets[i].id, g.markets[j].id>> \in relations
          /\ f[g.markets[i].id] = YesIndex(g.markets[i]) /\ f[g.markets[j].id] # 0
            => f[g.markets[j].id] = YesIndex(g.markets[j])
  <2>1. \A i, j \in D : <<e.markets[i].id, e.markets[j].id>> \in relations
                         /\ yes(i) /\ won(j) # 0 => yes(j)
    BY DEF IsFate
  <2> QED
    BY <1>3, <2>1
<1> QED
  BY <1>3, <1>4, <1>5, <1>6 DEF IsFate

Resolved ==
    /\ DOMAIN event.markets = DOMAIN scene.event.markets
    /\ \A i \in DOMAIN event.markets :
         /\ event.markets[i].id = scene.event.markets[i].id
         /\ event.markets[i].tokens = scene.event.markets[i].tokens
    /\ \A f \in fates : IsFate(event, scene.relations, f)

(* Closing prices never contradict a resolution that is still possible: the  *)
(* promises of the scenario hold of the event as markets close.             *)
THEOREM FatesKept == Spec => []Resolved
<1>1. Init => Resolved
  BY ScanPassAssumption DEF Init, Resolved, IsScene
<1>2. PassInv /\ Resolved /\ [Next]_vars => Resolved'
  <2> SUFFICES ASSUME PassInv, Resolved, [Next]_vars PROVE Resolved'
    OBVIOUS
  <2>1. ASSUME UNCHANGED <<scene, event, fates>> PROVE Resolved'
    BY <2>1 DEF Resolved
  <2>2. ASSUME NEW k \in DOMAIN event.markets, Close(k) PROVE Resolved'
    <3> DEFINE m == event.markets[k]
    <3>1. PICK w \in {f[m.id] : f \in fates} :
            /\ fates' = {f \in fates : f[m.id] = w}
            /\ \E p \in {[i \in DOMAIN m.tokens |-> ClosingPrice(i, w)], <<>>} :
                 event' = [event EXCEPT !.markets[k] = [m EXCEPT !.closed = TRUE, !.prices = p]]
      BY <2>2 DEF Close
    <3>2. PICK p \in {[i \in DOMAIN m.tokens |-> ClosingPrice(i, w)], <<>>} :
            event' = [event EXCEPT !.markets[k] = [m EXCEPT !.closed = TRUE, !.prices = p]]
      BY <3>1
    <3>3. scene' = scene /\ event \in Events
      BY <2>2 DEF Close, PassInv, Watched
    <3>4. ASSUME NEW f \in fates'
          PROVE  IsFate(event', scene.relations, f)
      <4>1. f \in fates /\ f[m.id] = w
        BY <3>1
      <4>2. IsFate(event, scene.relations, f)
        BY <4>1 DEF Resolved
      <4>3. p \in {<<>>, ClosingPricesOf(m, f)} /\ event' = ClosedWith(event, k, p)
        BY <3>2, <4>1 DEF ClosingPricesOf, ClosedWith
      <4> QED
        BY <3>3, <4>2, <4>3, FateKept
    <3>5. SameShape(event', event)
      <4>1. event' = ClosedWith(event, k, p)
        BY <3>2 DEF ClosedWith
      <4> QED
        BY <3>3, <4>1, ClosedShape
    <3> QED
      BY <3>3, <3>4, <3>5 DEF Resolved, SameShape
  <2>3. ASSUME NEW t \in DOMAIN exch, Move(t) PROVE Resolved'
    BY <2>1, <2>3 DEF Move
  <2>4. CASE Discover
    BY <2>1, <2>4 DEF Discover, market
  <2>5. CASE Fetch
    BY <2>1, <2>5 DEF Fetch, market
  <2>6. CASE ScanOnce
    BY <2>1, <2>6 DEF ScanOnce, market
  <2>7. CASE Trigger
    BY <2>1, <2>7 DEF Trigger, market
  <2>8. CASE Choose
    BY <2>1, <2>8 DEF Choose, market
  <2>9. CASE Confirm
    BY <2>1, <2>9 DEF Confirm, market
  <2>10. CASE UNCHANGED vars
    BY <2>1, <2>10 DEF vars, market
  <2> QED
    BY <2>2, <2>3, <2>4, <2>5, <2>6, <2>7, <2>8, <2>9, <2>10 DEF Next, Exchange
<1> QED
  BY <1>1, <1>2, PassKept, PTL DEF Spec

\* A share is paid by the market and the outcome its token stands for.
LEMMA PayoutAt ==
    ASSUME Watched, Resolved, known = event, NEW i \in DOMAIN known.markets,
           NEW n \in DOMAIN known.markets[i].tokens, NEW f
    PROVE  Payout(known.markets[i].tokens[n], f) = Coin * ClosingPrice(n, f[known.markets[i].id])
<1> DEFINE ms == scene.event.markets
           k == known.markets[i].tokens[n]
           m == CHOOSE x \in Range(ms) : k \in Range(x.tokens)
<1>1. TokensDistinct(ms)
  BY SceneIs DEF IsScene
<1>2. /\ i \in DOMAIN ms /\ n \in DOMAIN ms[i].tokens /\ k = ms[i].tokens[n]
      /\ known.markets[i].id = ms[i].id
  BY DEF Resolved
<1>3. ms[i] \in Range(ms) /\ k \in Range(ms[i].tokens)
  BY <1>2 DEF Range
<1>4. m \in Range(ms) /\ k \in Range(m.tokens)
  BY <1>3
<1>5. m = ms[i]
  <2> HIDE DEF m
  <2>1. PICK j \in DOMAIN ms : m = ms[j]
    BY <1>4 DEF Range
  <2>2. PICK q \in DOMAIN m.tokens : k = m.tokens[q]
    BY <1>4 DEF Range
  <2> QED
    BY <1>1, <1>2, <2>1, <2>2 DEF TokensDistinct
<1>6. (CHOOSE q \in DOMAIN m.tokens : m.tokens[q] = k) = n
  <2> HIDE DEF m
  <2>1. n \in DOMAIN m.tokens /\ m.tokens[n] = k
    BY <1>2, <1>5
  <2>2. \A q \in DOMAIN m.tokens : m.tokens[q] = k => q = n
    BY <1>1, <1>2, <1>5 DEF TokensDistinct
  <2> QED
    BY <2>1, <2>2
<1>7. Payout(k, f) = Coin * ClosingPrice(CHOOSE q \in DOMAIN m.tokens : m.tokens[q] = k, f[m.id])
  BY DEF Payout
<1> HIDE DEF m, k, ms
<1>8. Payout(k, f) = Coin * ClosingPrice(n, f[m.id])
  BY <1>6, <1>7
<1> QED
  BY <1>2, <1>5, <1>8 DEF k

\* The two tokens of a binary market.
LEMMA PayoutIs ==
    ASSUME Watched, Resolved, known = event, NEW m \in Range(known.markets), IsBinary(m), NEW f
    PROVE  /\ Payout(YesToken(m), f) = Coin * YesPays(m, f)
           /\ Payout(NoToken(m), f) = Coin * NoPays(m, f)
<1>1. PICK i \in DOMAIN known.markets : m = known.markets[i]
  BY DEF Range
<1>2. m \in Markets
  BY <1>1 DEF Watched, Events
<1>3. YesIndex(m) \in DOMAIN m.tokens /\ 3 - YesIndex(m) \in DOMAIN m.tokens
  BY <1>2, MarketTokens
<1> DEFINE y == YesIndex(m)
           n == 3 - YesIndex(m)
<1>4. y \in DOMAIN known.markets[i].tokens /\ n \in DOMAIN known.markets[i].tokens
  BY <1>1, <1>3
<1>5. YesToken(m) = known.markets[i].tokens[y] /\ NoToken(m) = known.markets[i].tokens[n]
  BY <1>1 DEF YesToken, NoToken
<1> HIDE DEF y, n
<1>6. /\ Payout(known.markets[i].tokens[y], f) = Coin * ClosingPrice(y, f[known.markets[i].id])
      /\ Payout(known.markets[i].tokens[n], f) = Coin * ClosingPrice(n, f[known.markets[i].id])
  BY <1>4, PayoutAt
<1> QED
  BY <1>1, <1>5, <1>6 DEF YesPays, NoPays, y, n

\* A structural trade pays enough at every possible resolution it covers.
LEMMA StructuralPays ==
    ASSUME NEW e \in Events, NEW relations, NEW f, IsFate(e, relations, f),
           NEW snap, IsSnapshotOf(snap, e, relations), NEW d, d # "partial_basket",
           NEW t, IsTradeOf(d, snap, t),
           d = "negrisk_basket" => \A m \in Range(t.markets) : f[m.id] # 0
    PROVE  PaysEnough(e, t, f) /\ t.per = 1
<1>1. CASE d = "complement"
  <2>1. ComplementTrade(snap, t)
    BY <1>1 DEF IsTradeOf
  <2>2. PaysEnough(e, t, f)
    BY <2>1, ComplementPays
  <2>3. t.per = 1
    BY <2>1 DEF ComplementTrade, Trade
  <2> QED
    BY <2>2, <2>3
<1>2. CASE d = "dependency"
  <2>1. DependencyTrade(snap, t)
    BY <1>2 DEF IsTradeOf
  <2>2. PaysEnough(e, t, f)
    BY <2>1, DependencyPays
  <2>3. t.per = 1
    BY <2>1 DEF DependencyTrade, Trade
  <2> QED
    BY <2>2, <2>3
<1>3. CASE d = "negrisk_basket"
  <2>1. BasketTrade(snap, t)
    BY <1>3 DEF IsTradeOf
  <2>2. PaysEnough(e, t, f)
    BY <1>3, <2>1, BasketPays
  <2>3. t.per = 1
    BY <2>1 DEF BasketTrade, Trade
  <2> QED
    BY <2>2, <2>3
<1>4. CASE d = "negrisk_dual"
  <2>1. DualTrade(snap, t)
    BY <1>4 DEF IsTradeOf
  <2>2. PaysEnough(e, t, f)
    BY <2>1, DualPays
  <2>3. t.per = 1
    BY <2>1 DEF DualTrade, Trade
  <2> QED
    BY <2>2, <2>3
<1> QED
  BY <1>1, <1>2, <1>3, <1>4 DEF IsTradeOf

\* What is reported pays, by the trade it comes from.
LEMMA LocksPay ==
    ASSUME PassInv, Resolved
    PROVE  LockPays
<1> SUFFICES ASSUME NEW o \in Structural, NEW f \in fates, Covered(o, f)
             PROVE  SettledPnl(o, f) - o.fees >= o.net
  BY DEF LockPays
<1>1. o \in reported /\ o.detector # "partial_basket"
  BY DEF Structural
<1>2. Watched /\ known = event /\ known \in Events
  BY <1>1 DEF PassInv, Progress, Watched
<1>3. IsFate(known, scene.relations, f)
  BY <1>2 DEF Resolved
<1>4. PICK snap, t : /\ IsSnapshotOf(snap, known, scene.relations)
                     /\ IsTradeOf(o.detector, snap, t) /\ o \in Of(snap, t)
  BY <1>1 DEF PassInv, Reported, Sourced
<1>5. IsSnapshot(snap) /\ IsTrade(snap, t)
  BY <1>4, TradeType DEF IsSnapshotOf
<1>6. o.markets = Range(t.markets)
  <2>1. IsOpportunityOf(o, snap, t)
    BY <1>4, OpportunityIs
  <2> QED
    BY <2>1 DEF IsOpportunityOf
<1>7. o.detector = "negrisk_basket" => \A m \in Range(t.markets) : f[m.id] # 0
  BY <1>6 DEF Covered
<1>8. PaysEnough(known, t, f) /\ t.per = 1
  BY <1>1, <1>2, <1>3, <1>4, <1>7, StructuralPays
<1>9. PICK price :
        /\ \A i \in DOMAIN t.tokens :
             /\ price[i] \in Nat
             /\ \E m \in Range(known.markets) :
                  /\ IsBinary(m)
                  /\ \/ t.tokens[i] = YesToken(m) /\ price[i] = YesPays(m, f)
                     \/ t.tokens[i] = NoToken(m) /\ price[i] = NoPays(m, f)
        /\ t.side = "buy" => t.worth * Unit <= Total(price, DOMAIN t.tokens)
        /\ t.side = "sell" => Total(price, DOMAIN t.tokens) <= t.worth * Unit
  BY <1>8 DEF PaysEnough
<1>10. \A i \in DOMAIN t.tokens : price[i] \in Nat /\ Payout(t.tokens[i], f) = Coin * price[i]
  BY <1>2, <1>9, PayoutIs
<1> QED
  BY <1>4, <1>5, <1>8, <1>9, <1>10, TradePays

(* A reported lock is a lock: for any event, books, prices, fees and        *)
(* declared relations, whatever the pass saw of the books and whichever     *)
(* markets had closed, it brings in at least its net profit.                *)
THEOREM LocksAlwaysPay == Spec => []LockPays
BY PassKept, FatesKept, LocksPay, PTL
=============================================================================
