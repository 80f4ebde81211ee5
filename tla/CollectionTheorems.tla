------------------------- MODULE CollectionTheorems --------------------------
(***************************************************************************)
(* What the other proofs need of finite collections: induction over the    *)
(* subsets of a finite set and over the numbers, folds and sums over sets, *)
(* folds over sequences, and the stable arrangements of Arrangements.      *)
(*                                                                         *)
(* Induction is about a set of instances instead of a predicate: a subset  *)
(* outside the set would have a smallest one, by the well-founded strict   *)
(* inclusion of finite sets.  A fold is then the only function that obeys  *)
(* its recursion, so the library's definition of it does.                  *)
(***************************************************************************)
EXTENDS Arrangements, Sequences, FiniteSetsExt, FiniteSetTheorems, WellFoundedInduction, TLAPS

\* Among finite sets there are smallest ones.
LEMMA SmallestSubset ==
    ASSUME NEW S, NEW Bad, Bad # {}, \A T \in Bad : T \subseteq S /\ IsFiniteSet(T)
    PROVE  \E T \in Bad : \A U \in Bad : U \subseteq T => U = T
<1>1. IsWellFoundedOn(StrictSubsetOrdering(S), FiniteSubsetsOf(S))
  BY FS_StrictSubsetOrderingWellFounded
<1>2. Bad \subseteq FiniteSubsetsOf(S)
  BY DEF FiniteSubsetsOf
<1>3. PICK T \in Bad : \A U \in Bad : ~(<<U, T>> \in StrictSubsetOrdering(S))
  BY <1>1, <1>2, WFMin
<1>4. \A U \in Bad : U \subseteq S
  BY <1>2 DEF FiniteSubsetsOf
<1> QED
  BY <1>3, <1>4 DEF StrictSubsetOrdering

\* A non-empty set of subsets of a finite set has a smallest one.
LEMMA SmallestOf ==
    ASSUME NEW S, IsFiniteSet(S), NEW Bad \in SUBSET SUBSET S, Bad # {}
    PROVE  \E T \in Bad : \A U \in Bad : U \subseteq T => U = T
<1>1. \A T \in Bad : T \subseteq S /\ IsFiniteSet(T)
  BY FS_Subset
<1> QED
  BY <1>1, SmallestSubset

\* What the proper subsets of a set pass on to it, every subset has.
LEMMA SubsetInduction ==
    ASSUME NEW S, IsFiniteSet(S), NEW P,
           \A T \in SUBSET S : (\A U \in SUBSET T : U # T => U \in P) => T \in P
    PROVE  SUBSET S \subseteq P
<1> DEFINE Bad == (SUBSET S) \ P
<1> SUFFICES ASSUME Bad # {} PROVE FALSE
  OBVIOUS
<1>1. Bad \in SUBSET SUBSET S
  OBVIOUS
<1> HIDE DEF Bad
<1>2. PICK T \in Bad : \A U \in Bad : U \subseteq T => U = T
  BY <1>1, SmallestOf
<1> USE DEF Bad
<1>3. \A U \in SUBSET T : U # T => U \in P
  BY <1>2
<1> QED
  BY <1>2, <1>3

\* What holds of the empty set and survives one more element holds of every subset.
LEMMA SetInduction ==
    ASSUME NEW S, IsFiniteSet(S), NEW P, {} \in P,
           \A T \in SUBSET S, x \in S : (T \in P /\ x \notin T) => T \cup {x} \in P
    PROVE  SUBSET S \subseteq P
<1> DEFINE Bad == (SUBSET S) \ P
<1> SUFFICES ASSUME Bad # {} PROVE FALSE
  OBVIOUS
<1>1. Bad \in SUBSET SUBSET S
  OBVIOUS
<1> HIDE DEF Bad
<1>2. PICK T \in Bad : \A U \in Bad : U \subseteq T => U = T
  BY <1>1, SmallestOf
<1> USE DEF Bad
<1>3. PICK x \in T : TRUE
  BY <1>2
<1>4. T \ {x} \in P
  BY <1>2, <1>3
<1>5. (T \ {x}) \cup {x} = T
  BY <1>3
<1>6. (T \ {x}) \cup {x} \in P
  BY <1>4, <1>3, <1>2
<1> QED
  BY <1>2, <1>5, <1>6

\* What holds of 0 and of each successor holds of every number.
LEMMA NumberInduction ==
    ASSUME NEW P, 0 \in P, \A n \in Nat : n \in P => n + 1 \in P
    PROVE  Nat \subseteq P
<1> DEFINE Bad == {0 .. n : n \in Nat \ P}
<1> SUFFICES ASSUME NEW k \in Nat, k \notin P PROVE FALSE
  OBVIOUS
<1>1. \A T \in Bad : T \subseteq Nat /\ IsFiniteSet(T)
  <2>1. \A n \in Nat : IsFiniteSet(0 .. n)
    BY FS_Interval
  <2> QED
    BY <2>1
<1>2. Bad # {}
  OBVIOUS
<1> HIDE DEF Bad
<1>3. PICK T \in Bad : \A U \in Bad : U \subseteq T => U = T
  BY <1>1, <1>2, SmallestSubset
<1> USE DEF Bad
<1>4. PICK n \in Nat \ P : T = 0 .. n
  BY <1>3
<1>5. n # 0 /\ n - 1 \in Nat
  BY <1>4
<1>6. n - 1 \in P
  <2> SUFFICES ASSUME n - 1 \notin P PROVE FALSE
    OBVIOUS
  <2>1. 0 .. (n - 1) \in Bad
    BY <1>5
  <2>2. 0 .. (n - 1) \subseteq 0 .. n
    BY <1>4, <1>5
  <2> HIDE DEF Bad
  <2>3. 0 .. (n - 1) = 0 .. n
    BY <2>1, <2>2, <1>3, <1>4
  <2>4. n \in 0 .. n /\ n \notin 0 .. (n - 1)
    BY <1>4
  <2> QED
    BY <2>3, <2>4
<1> QED
  BY <1>4, <1>5, <1>6

-----------------------------------------------------------------------------
(* Folds over the subsets of a finite set: c picks the element of a subset *)
(* that is folded in last, op combines it with the fold of the others.     *)

IsFold(g, S, base, c, op) ==
    g = [s \in SUBSET S |-> IF s = {} THEN base ELSE op[<<c[s], g[s \ {c[s]}]>>]]

\* Two folds agree on what both fold.
LEMMA FoldsAgree ==
    ASSUME NEW S, NEW U \in SUBSET S, IsFiniteSet(S),
           NEW c, \A s \in SUBSET S : s # {} => c[s] \in s,
           NEW base, NEW op, NEW g, NEW h,
           IsFold(g, S, base, c, op), IsFold(h, U, base, c, op)
    PROVE  \A s \in SUBSET U : g[s] = h[s]
<1> DEFINE Bad == {s \in SUBSET U : g[s] # h[s]}
<1> SUFFICES ASSUME Bad # {} PROVE FALSE
  OBVIOUS
<1>1. IsFiniteSet(U)
  BY FS_Subset
<1>2. Bad \in SUBSET SUBSET U
  OBVIOUS
<1> HIDE DEF Bad
<1>3. PICK T \in Bad : \A V \in Bad : V \subseteq T => V = T
  BY <1>2, SmallestOf
<1> USE DEF Bad
<1>4. /\ g[T] = IF T = {} THEN base ELSE op[<<c[T], g[T \ {c[T]}]>>]
      /\ h[T] = IF T = {} THEN base ELSE op[<<c[T], h[T \ {c[T]}]>>]
  BY <1>3 DEF IsFold
<1>5. T # {} /\ c[T] \in T
  BY <1>3, <1>4
<1>6. g[T \ {c[T]}] = h[T \ {c[T]}]
  BY <1>3, <1>5
<1> QED
  BY <1>3, <1>4, <1>5, <1>6

\* There is a function that folds.
LEMMA FoldExists ==
    ASSUME NEW S, IsFiniteSet(S),
           NEW c, \A s \in SUBSET S : s # {} => c[s] \in s,
           NEW base, NEW op
    PROVE  \E g : IsFold(g, S, base, c, op)
<1> DEFINE Bad == {U \in SUBSET S : ~\E g : IsFold(g, U, base, c, op)}
<1> SUFFICES ASSUME Bad # {} PROVE FALSE
  OBVIOUS
<1>1. Bad \in SUBSET SUBSET S
  OBVIOUS
<1> HIDE DEF Bad
<1>2. PICK T \in Bad : \A V \in Bad : V \subseteq T => V = T
  BY <1>1, SmallestOf
<1> USE DEF Bad
<1> DEFINE of(U) == CHOOSE g : IsFold(g, U, base, c, op)
<1>3. \A U \in SUBSET T : U # T => IsFold(of(U), U, base, c, op)
  BY <1>2
<1> DEFINE val(U) == IF U = {} THEN base ELSE op[<<c[U], of(U \ {c[U]})[U \ {c[U]}]>>]
           g == [U \in SUBSET T |-> val(U)]
<1> HIDE DEF of
<1>4. ASSUME NEW U \in SUBSET T, U # T
      PROVE  of(U)[U] = val(U)
  <2>1. of(U)[U] = IF U = {} THEN base ELSE op[<<c[U], of(U)[U \ {c[U]}]>>]
    BY <1>3, <1>4 DEF IsFold
  <2>2. CASE U # {}
    <3>1. c[U] \in U /\ U \ {c[U]} \in SUBSET U /\ U \ {c[U]} \in SUBSET T /\ U \ {c[U]} # T
      BY <2>2, <1>2, <1>4
    <3>2. IsFold(of(U), U, base, c, op)
      BY <1>3, <1>4
    <3>3. IsFold(of(U \ {c[U]}), U \ {c[U]}, base, c, op)
      BY <1>3, <3>1
    <3>4. IsFiniteSet(U) /\ \A s \in SUBSET U : s # {} => c[s] \in s
      BY <1>2, FS_Subset
    <3>5. \A s \in SUBSET (U \ {c[U]}) : of(U)[s] = of(U \ {c[U]})[s]
      BY <3>1, <3>2, <3>3, <3>4, FoldsAgree
    <3> QED
      BY <2>1, <2>2, <3>5
  <2> QED
    BY <2>1, <2>2
<1>5. ASSUME NEW U \in SUBSET T, U # {}
      PROVE  g[U \ {c[U]}] = of(U \ {c[U]})[U \ {c[U]}]
  <2>1. c[U] \in U /\ U \ {c[U]} \in SUBSET T /\ U \ {c[U]} # T
    BY <1>2, <1>5
  <2> QED
    BY <2>1, <1>4
<1>6. \A U \in SUBSET T : val(U) = IF U = {} THEN base ELSE op[<<c[U], g[U \ {c[U]}]>>]
  BY <1>5
<1>7. IsFold(g, T, base, c, op)
  BY <1>6 DEF IsFold
<1> QED
  BY <1>7, <1>2

-----------------------------------------------------------------------------
Total(f, S) == MapThenSumSet(LAMBDA i : f[i], S)

Some(S) == CHOOSE x \in S : TRUE

IsTotal(g, f, S) ==
    g = [s \in SUBSET S |-> IF s = {} THEN 0 ELSE f[Some(s)] + g[s \ {Some(s)}]]

\* The library's sum is the value of the function it chooses.
LEMMA TotalDefined ==
    ASSUME NEW S, NEW f
    PROVE  Total(f, S) = (CHOOSE g : IsTotal(g, f, S))[S]
BY DEF Total, MapThenSumSet, MapThenFoldSet, IsTotal, Some

\* There is a function that sums.
LEMMA TotalExists ==
    ASSUME NEW f, NEW S, IsFiniteSet(S), \A i \in S : f[i] \in Int
    PROVE  \E g \in [SUBSET S -> Int] : IsTotal(g, f, S)
<1> DEFINE c == [s \in SUBSET S |-> Some(s)]
           add == [p \in S \X Int |-> f[p[1]] + p[2]]
<1>1. \A s \in SUBSET S : c[s] = Some(s) /\ (s # {} => c[s] \in s)
  BY DEF Some
<1>2. \A x \in S, n \in Int : add[<<x, n>>] = f[x] + n /\ add[<<x, n>>] \in Int
  OBVIOUS
<1> HIDE DEF c, add
<1>3. PICK g : IsFold(g, S, 0, c, add)
  BY <1>1, FoldExists
<1>4. \A s \in SUBSET S : g[s] = IF s = {} THEN 0 ELSE add[<<c[s], g[s \ {c[s]}]>>]
  BY <1>3 DEF IsFold
<1>5. \A s \in SUBSET S : g[s] \in Int
  <2> DEFINE Bad == {s \in SUBSET S : g[s] \notin Int}
  <2> SUFFICES ASSUME Bad # {} PROVE FALSE
    OBVIOUS
  <2>1. Bad \in SUBSET SUBSET S
    OBVIOUS
  <2> HIDE DEF Bad
  <2>2. PICK T \in Bad : \A V \in Bad : V \subseteq T => V = T
    BY <2>1, SmallestOf
  <2> USE DEF Bad
  <2>3. T \in SUBSET S /\ g[T] \notin Int
    OBVIOUS
  <2> HIDE DEF Bad
  <2>4. T # {}
    <3>1. g[{}] = 0
      BY <1>4
    <3> QED
      BY <2>3, <3>1
  <2>5. c[T] \in T
    BY <2>3, <2>4, <1>1
  <2> USE DEF Bad
  <2>6. g[T \ {c[T]}] \in Int
    BY <2>2, <2>3, <2>5
  <2> QED
    BY <2>3, <2>5, <2>6, <2>4, <1>2, <1>4
<1>6. \A s \in SUBSET S : g[s] = IF s = {} THEN 0 ELSE f[Some(s)] + g[s \ {Some(s)}]
  <2> SUFFICES ASSUME NEW s \in SUBSET S, s # {}
               PROVE  g[s] = f[Some(s)] + g[s \ {Some(s)}]
    BY <1>4
  <2>1. c[s] \in S /\ c[s] = Some(s) /\ g[s \ {c[s]}] \in Int
    BY <1>1, <1>5
  <2> QED
    BY <2>1, <1>2, <1>4
<1>7. g = [s \in SUBSET S |-> g[s]]
  BY <1>3 DEF IsFold
<1>8. g \in [SUBSET S -> Int]
  BY <1>5, <1>7
<1>9. IsTotal(g, f, S)
  BY <1>6, <1>7 DEF IsTotal
<1> QED
  BY <1>8, <1>9

\* Two such functions agree.
LEMMA TotalsAgree ==
    ASSUME NEW f, NEW S, IsFiniteSet(S), NEW U \in SUBSET S, NEW g, NEW h,
           IsTotal(g, f, S), IsTotal(h, f, U)
    PROVE  \A s \in SUBSET U : g[s] = h[s]
<1> DEFINE Bad == {s \in SUBSET U : g[s] # h[s]}
<1> SUFFICES ASSUME Bad # {} PROVE FALSE
  OBVIOUS
<1>1. IsFiniteSet(U)
  BY FS_Subset
<1>2. Bad \in SUBSET SUBSET U
  OBVIOUS
<1> HIDE DEF Bad
<1>3. PICK T \in Bad : \A V \in Bad : V \subseteq T => V = T
  BY <1>2, SmallestOf
<1> USE DEF Bad
<1>4. /\ g[T] = IF T = {} THEN 0 ELSE f[Some(T)] + g[T \ {Some(T)}]
      /\ h[T] = IF T = {} THEN 0 ELSE f[Some(T)] + h[T \ {Some(T)}]
  BY <1>3 DEF IsTotal
<1>5. T # {} => Some(T) \in T
  BY DEF Some
<1>6. T # {}
  BY <1>3, <1>4
<1>7. g[T \ {Some(T)}] = h[T \ {Some(T)}]
  BY <1>3, <1>5, <1>6
<1> QED
  BY <1>3, <1>4, <1>6, <1>7

\* One function gives the sums over all subsets.
LEMMA TotalAt ==
    ASSUME NEW f, NEW S, IsFiniteSet(S), \A i \in S : f[i] \in Int
    PROVE  \E g \in [SUBSET S -> Int] :
             /\ IsTotal(g, f, S)
             /\ \A s \in SUBSET S : Total(f, s) = g[s]
<1>1. PICK g \in [SUBSET S -> Int] : IsTotal(g, f, S)
  BY TotalExists
<1>2. ASSUME NEW s \in SUBSET S
      PROVE  Total(f, s) = g[s]
  <2>1. IsFiniteSet(s)
    BY FS_Subset
  <2> DEFINE h == CHOOSE h : IsTotal(h, f, s)
  <2>2. IsTotal(h, f, s)
    BY <2>1, TotalExists
  <2>3. Total(f, s) = h[s]
    BY TotalDefined
  <2> HIDE DEF h
  <2>4. g[s] = h[s]
    BY <1>1, <2>2, TotalsAgree
  <2> QED
    BY <2>3, <2>4
<1> QED
  BY <1>1, <1>2

\* A sum of integers is an integer.
LEMMA TotalType ==
    ASSUME NEW f, NEW S, IsFiniteSet(S), \A i \in S : f[i] \in Int
    PROVE  Total(f, S) \in Int
<1>1. PICK g \in [SUBSET S -> Int] :
         IsTotal(g, f, S) /\ \A s \in SUBSET S : Total(f, s) = g[s]
  BY TotalAt
<1> QED
  BY <1>1

\* The sum over nothing is 0.
LEMMA TotalEmpty ==
    ASSUME NEW f
    PROVE  Total(f, {}) = 0
<1>1. IsFiniteSet({})
  BY FS_EmptySet
<1>2. PICK g \in [SUBSET {} -> Int] :
         IsTotal(g, f, {}) /\ \A s \in SUBSET {} : Total(f, s) = g[s]
  BY <1>1, TotalAt
<1>3. g[{}] = 0
  BY <1>2 DEF IsTotal
<1> QED
  BY <1>2, <1>3

\* The recursion that the definition of a sum follows.
LEMMA TotalSome ==
    ASSUME NEW f, NEW S, IsFiniteSet(S), \A i \in S : f[i] \in Int, S # {}
    PROVE  Total(f, S) = f[Some(S)] + Total(f, S \ {Some(S)})
<1>1. PICK g \in [SUBSET S -> Int] :
         IsTotal(g, f, S) /\ \A s \in SUBSET S : Total(f, s) = g[s]
  BY TotalAt
<1>2. g[S] = f[Some(S)] + g[S \ {Some(S)}]
  BY <1>1 DEF IsTotal
<1> QED
  BY <1>1, <1>2

\* Any element may be taken out first.
LEMMA TotalTake ==
    ASSUME NEW f, NEW S, IsFiniteSet(S), \A i \in S : f[i] \in Int, NEW x \in S
    PROVE  Total(f, S) = f[x] + Total(f, S \ {x})
<1> DEFINE Bad == {U \in SUBSET S : \E y \in U : Total(f, U) # f[y] + Total(f, U \ {y})}
<1> SUFFICES ASSUME Bad # {} PROVE FALSE
  OBVIOUS
<1>1. Bad \in SUBSET SUBSET S
  OBVIOUS
<1> HIDE DEF Bad
<1>2. PICK T \in Bad : \A V \in Bad : V \subseteq T => V = T
  BY <1>1, SmallestOf
<1>3. PICK y \in T : Total(f, T) # f[y] + Total(f, T \ {y})
  BY <1>2 DEF Bad
<1> DEFINE z == Some(T)
<1>4. T \in SUBSET S /\ z \in T
  BY <1>1, <1>2, <1>3 DEF Some
<1>5. ASSUME NEW U \in SUBSET T
      PROVE  IsFiniteSet(U) /\ (\A i \in U : f[i] \in Int)
  BY <1>4, FS_Subset
<1>6. Total(f, T) = f[z] + Total(f, T \ {z})
  BY <1>3, <1>5, TotalSome
<1> HIDE DEF z
<1>7. y # z
  BY <1>3, <1>6
<1>8. /\ T \ {z} \in SUBSET S /\ T \ {y} \in SUBSET S
      /\ T \ {z} \notin Bad /\ T \ {y} \notin Bad
  BY <1>2, <1>3, <1>4
<1> DEFINE R == (T \ {z}) \ {y}
<1>9. Total(f, T \ {z}) = f[y] + Total(f, R)
  BY <1>3, <1>7, <1>8 DEF Bad
<1>10. (T \ {y}) \ {z} = R /\ R \in SUBSET T
  OBVIOUS
<1> HIDE DEF R
<1>11. Total(f, T \ {y}) = f[z] + Total(f, R)
  BY <1>4, <1>7, <1>8, <1>10 DEF Bad
<1>12. Total(f, R) \in Int
  BY <1>5, <1>10, TotalType
<1>13. f[y] \in Int /\ f[z] \in Int
  BY <1>3, <1>4
<1>14. f[z] + (f[y] + Total(f, R)) = f[y] + (f[z] + Total(f, R))
  BY <1>12, <1>13
<1> QED
  BY <1>3, <1>6, <1>9, <1>11, <1>14

\* Larger terms have a larger sum.
LEMMA TotalMonotone ==
    ASSUME NEW f, NEW h,
           NEW S, IsFiniteSet(S), \A x \in S : f[x] \in Int /\ h[x] \in Int /\ f[x] <= h[x]
    PROVE  Total(f, S) <= Total(h, S)
<1> DEFINE P == {U \in SUBSET S : Total(f, U) <= Total(h, U)}
<1>1. {} \in P
  BY TotalEmpty
<1>2. ASSUME NEW T \in SUBSET S, NEW x \in S, T \in P, x \notin T
      PROVE  T \cup {x} \in P
  <2>1. /\ IsFiniteSet(T \cup {x}) /\ IsFiniteSet(T) /\ T \cup {x} \in SUBSET S
        /\ (T \cup {x}) \ {x} = T
    BY <1>2, FS_Subset
  <2>2. /\ Total(f, T \cup {x}) = f[x] + Total(f, T)
        /\ Total(h, T \cup {x}) = h[x] + Total(h, T)
    BY <2>1, TotalTake
  <2>3. Total(f, T) \in Int /\ Total(h, T) \in Int
    BY <2>1, TotalType
  <2>4. f[x] \in Int /\ h[x] \in Int /\ f[x] <= h[x]
    OBVIOUS
  <2> QED
    BY <1>2, <2>2, <2>3, <2>4
<1> HIDE DEF P
<1>3. S \in P
  BY <1>1, <1>2, SetInduction
<1> QED
  BY <1>3 DEF P

\* Equal terms have an equal sum.
LEMMA TotalCongruent ==
    ASSUME NEW f, NEW h,
           NEW S, IsFiniteSet(S), \A x \in S : f[x] \in Int /\ f[x] = h[x]
    PROVE  Total(f, S) = Total(h, S)
<1>1. \A x \in S : f[x] <= h[x] /\ h[x] <= f[x]
  OBVIOUS
<1>2. Total(f, S) <= Total(h, S) /\ Total(h, S) <= Total(f, S)
  BY <1>1, TotalMonotone
<1>3. Total(f, S) \in Int /\ Total(h, S) \in Int
  BY TotalType
<1> QED
  BY <1>2, <1>3

\* Two functions that differ at one element.
LEMMA TotalChanged ==
    ASSUME NEW f, NEW h, NEW S, IsFiniteSet(S), NEW x \in S,
           \A i \in S : f[i] \in Int /\ h[i] \in Int,
           \A i \in S \ {x} : h[i] = f[i]
    PROVE  Total(h, S) = Total(f, S) + (h[x] - f[x])
<1> DEFINE R == S \ {x}
<1>1. IsFiniteSet(R) /\ \A i \in R : f[i] \in Int /\ f[i] = h[i]
  BY FS_Subset
<1>2. Total(f, S) = f[x] + Total(f, R) /\ Total(h, S) = h[x] + Total(h, R)
  BY TotalTake
<1> HIDE DEF R
<1>3. Total(f, R) = Total(h, R) /\ Total(f, R) \in Int
  BY <1>1, TotalCongruent, TotalType
<1> QED
  BY <1>2, <1>3

\* The sum over one element.
LEMMA TotalOne ==
    ASSUME NEW f, NEW x, f[x] \in Int
    PROVE  Total(f, {x}) = f[x]
<1> DEFINE S == {x}
<1>1. IsFiniteSet(S) /\ x \in S /\ S \ {x} = {} /\ \A i \in S : f[i] \in Int
  BY FS_Singleton
<1> HIDE DEF S
<1>2. Total(f, S) = f[x] + Total(f, S \ {x})
  BY <1>1, TotalTake
<1>3. Total(f, S) = f[x]
  BY <1>1, <1>2, TotalEmpty
<1> QED
  BY <1>3 DEF S

\* The sum over an initial segment of the natural numbers, one number longer.
LEMMA TotalNext ==
    ASSUME NEW f, NEW n \in Nat, \A i \in 0 .. n + 1 : f[i] \in Int
    PROVE  Total(f, 0 .. n + 1) = f[n + 1] + Total(f, 0 .. n)
<1> DEFINE S == 0 .. n + 1
           x == n + 1
<1>1. IsFiniteSet(S)
  BY FS_Interval
<1>2. x \in S /\ S \ {x} = 0 .. n
  OBVIOUS
<1>3. \A i \in S : f[i] \in Int
  OBVIOUS
<1> HIDE DEF S, x
<1>4. Total(f, S) = f[x] + Total(f, S \ {x})
  BY <1>1, <1>2, <1>3, TotalTake
<1> QED
  BY <1>4, <1>2 DEF S, x

\* The smaller of two numbers.
LEMMA MinOfTwo ==
    ASSUME NEW a \in Int, NEW b \in Int
    PROVE  Min({a, b}) = IF a <= b THEN a ELSE b
<1> DEFINE m == IF a <= b THEN a ELSE b
<1>1. m \in {a, b} /\ \A y \in {a, b} : m <= y
  OBVIOUS
<1>2. \A x \in {a, b} : (\A y \in {a, b} : x <= y) => x = m
  OBVIOUS
<1> HIDE DEF m
<1>3. (CHOOSE x \in {a, b} : \A y \in {a, b} : x <= y) = m
  BY <1>1, <1>2
<1> QED
  BY <1>3 DEF Min, m

\* A sum of natural numbers.
LEMMA TotalNat ==
    ASSUME NEW f, NEW S, IsFiniteSet(S), \A i \in S : f[i] \in Nat
    PROVE  Total(f, S) \in Nat
<1> DEFINE P == {U \in SUBSET S : Total(f, U) \in Nat}
<1>1. {} \in P
  BY TotalEmpty
<1>2. ASSUME NEW T \in SUBSET S, NEW x \in S, T \in P, x \notin T
      PROVE  T \cup {x} \in P
  <2> DEFINE U == T \cup {x}
  <2>1. U \in SUBSET S /\ x \in U /\ U \ {x} = T
    BY <1>2
  <2>2. IsFiniteSet(U) /\ \A i \in U : f[i] \in Int
    BY <2>1, FS_Subset
  <2> HIDE DEF U
  <2>3. Total(f, U) = f[x] + Total(f, U \ {x})
    BY <2>1, <2>2, TotalTake
  <2>4. f[x] \in Nat /\ Total(f, T) \in Nat
    BY <1>2
  <2>5. Total(f, U) \in Nat
    BY <2>1, <2>3, <2>4
  <2> QED
    BY <2>1, <2>5 DEF U
<1> HIDE DEF P
<1>3. SUBSET S \subseteq P
  BY <1>1, <1>2, SetInduction
<1> QED
  BY <1>3 DEF P

-----------------------------------------------------------------------------
(* Folds over a sequence: SequencesExt's FoldLeft folds the last element in *)
(* last.                                                                    *)

\* The largest number of a finite set is in it and bounds it.
LEMMA MaxOfSet ==
    ASSUME NEW S, IsFiniteSet(S), S \subseteq Int, S # {}
    PROVE  Max(S) \in S /\ \A y \in S : y <= Max(S)
<1> DEFINE P == {T \in SUBSET S : T = {} \/ \E x \in T : \A y \in T : x >= y}
<1>1. {} \in P
  OBVIOUS
<1>2. ASSUME NEW T \in SUBSET S, NEW x \in S, T \in P, x \notin T
      PROVE  T \cup {x} \in P
  <2>1. CASE T = {}
    BY <2>1
  <2>2. CASE T # {}
    <3>1. PICK z \in T : \A y \in T : z >= y
      BY <1>2, <2>2
    <3>2. \A y \in T \cup {x} : y \in Int
      OBVIOUS
    <3>3. CASE z >= x
      <4>1. \A y \in T \cup {x} : z >= y
        BY <3>1, <3>3
      <4> QED
        BY <4>1
    <3>4. CASE ~(z >= x)
      <4>1. \A y \in T \cup {x} : x >= y
        BY <3>1, <3>2, <3>4
      <4> QED
        BY <4>1
    <3> QED
      BY <3>3, <3>4
  <2> QED
    BY <2>1, <2>2
<1> HIDE DEF P
<1>3. SUBSET S \subseteq P
  BY <1>1, <1>2, SetInduction
<1>4. \E x \in S : \A y \in S : x >= y
  BY <1>3 DEF P
<1>5. Max(S) \in S /\ \A y \in S : Max(S) >= y
  BY <1>4 DEF Max
<1> QED
  BY <1>5

IsLeftFold(g, D, base, step) ==
    g = [s \in SUBSET D |-> IF s = {} THEN base ELSE step[<<Max(s), g[s \ {Max(s)}]>>]]

\* A fold of steps that stay in A is in A.
LEMMA LeftFoldStays ==
    ASSUME NEW D, IsFiniteSet(D), D \subseteq Int,
           NEW A, NEW h, h[{}] \in A,
           \A s \in SUBSET D : s # {} /\ h[s \ {Max(s)}] \in A => h[s] \in A
    PROVE  \A s \in SUBSET D : h[s] \in A
<1> DEFINE P == {s \in SUBSET D : h[s] \in A}
<1>1. ASSUME NEW T \in SUBSET D, \A U \in SUBSET T : U # T => U \in P
      PROVE  T \in P
  <2>1. CASE T # {}
    <3>1. Max(T) \in T
      BY <2>1, FS_Subset, MaxOfSet
    <3>2. T \ {Max(T)} \in SUBSET T /\ T \ {Max(T)} # T
      BY <3>1
    <3> QED
      BY <1>1, <2>1, <3>2
  <2> QED
    BY <2>1
<1> HIDE DEF P
<1>2. SUBSET D \subseteq P
  BY <1>1, SubsetInduction
<1> QED
  BY <1>2 DEF P

\* The fold of a step that stays in A.
LEMMA LeftFoldExists ==
    ASSUME NEW D, IsFiniteSet(D), D \subseteq Int,
           NEW A, NEW base \in A, NEW step, \A i \in D, acc \in A : step[<<i, acc>>] \in A
    PROVE  \E g \in [SUBSET D -> A] : IsLeftFold(g, D, base, step)
<1> DEFINE c == [s \in SUBSET D |-> Max(s)]
<1>1. \A s \in SUBSET D : c[s] = Max(s) /\ (s # {} => c[s] \in s)
  BY FS_Subset, MaxOfSet
<1> HIDE DEF c
<1>2. PICK g : IsFold(g, D, base, c, step)
  BY <1>1, FoldExists
<1>3. g = [s \in SUBSET D |-> IF s = {} THEN base ELSE step[<<Max(s), g[s \ {Max(s)}]>>]]
  BY <1>1, <1>2 DEF IsFold
<1>4. g[{}] \in A
  BY <1>3
<1>5. ASSUME NEW s \in SUBSET D, s # {}, g[s \ {Max(s)}] \in A
      PROVE  g[s] \in A
  <2>1. Max(s) \in D
    BY <1>1, <1>5
  <2>2. g[s] = step[<<Max(s), g[s \ {Max(s)}]>>]
    BY <1>3, <1>5
  <2> QED
    BY <1>5, <2>1, <2>2
<1>6. \A s \in SUBSET D : g[s] \in A
  BY <1>4, <1>5, LeftFoldStays
<1> QED
  BY <1>3, <1>6 DEF IsLeftFold

-----------------------------------------------------------------------------
(* Arrangements.                                                           *)

\* The positions that come up to i, whose number is its place.
UpTo(keep, key, i) == {j \in keep : key[j] < key[i] \/ (key[j] = key[i] /\ j <= i)}

\* An earlier position has a smaller place.
LEMMA PlaceStrict ==
    ASSUME NEW keep, IsFiniteSet(keep), keep \subseteq Int, NEW key, \A i \in keep : key[i] \in Int,
           NEW i \in keep, NEW j \in keep, key[i] < key[j] \/ (key[i] = key[j] /\ i < j)
    PROVE  Place(keep, key, i) < Place(keep, key, j)
<1>1. i \in Int /\ j \in Int /\ key[i] \in Int /\ key[j] \in Int
  OBVIOUS
<1>2. ASSUME NEW k \in UpTo(keep, key, i)
      PROVE  k \in UpTo(keep, key, j)
  <2>1. k \in keep /\ k \in Int /\ key[k] \in Int
    BY DEF UpTo
  <2>2. key[k] < key[i] \/ (key[k] = key[i] /\ k <= i)
    BY DEF UpTo
  <2> QED
    BY <1>1, <2>1, <2>2 DEF UpTo
<1>3. j \in UpTo(keep, key, j) /\ j \notin UpTo(keep, key, i)
  BY <1>1 DEF UpTo
<1>4. /\ UpTo(keep, key, i) \subseteq UpTo(keep, key, j)
      /\ j \in UpTo(keep, key, j) /\ j \notin UpTo(keep, key, i)
  BY <1>2, <1>3
<1>5. IsFiniteSet(UpTo(keep, key, i)) /\ IsFiniteSet(UpTo(keep, key, j))
  BY FS_Subset DEF UpTo
<1>6. /\ Cardinality(UpTo(keep, key, i)) \in Nat /\ Cardinality(UpTo(keep, key, j)) \in Nat
      /\ Cardinality(UpTo(keep, key, i)) <= Cardinality(UpTo(keep, key, j))
      /\ Cardinality(UpTo(keep, key, i)) # Cardinality(UpTo(keep, key, j))
  BY <1>4, <1>5, FS_Subset, FS_CardinalityType
<1> QED
  BY <1>6 DEF Place, UpTo

\* A place is one of as many as there are kept positions.
LEMMA PlaceType ==
    ASSUME NEW keep, IsFiniteSet(keep), keep \subseteq Int, NEW key, \A i \in keep : key[i] \in Int,
           NEW i \in keep
    PROVE  Place(keep, key, i) \in 1 .. Cardinality(keep)
<1>1. UpTo(keep, key, i) \in SUBSET keep /\ i \in UpTo(keep, key, i)
  BY DEF UpTo
<1>2. IsFiniteSet(UpTo(keep, key, i)) /\ Cardinality(UpTo(keep, key, i)) <= Cardinality(keep)
  BY <1>1, FS_Subset
<1>3. Cardinality(UpTo(keep, key, i)) # 0
  BY <1>1, <1>2, FS_EmptySet
<1>4. Cardinality(UpTo(keep, key, i)) \in Nat /\ Cardinality(keep) \in Nat
  BY <1>2, FS_CardinalityType
<1> QED
  BY <1>2, <1>3, <1>4 DEF Place, UpTo

\* No two positions have one place.
LEMMA PlaceOnce ==
    ASSUME NEW keep, IsFiniteSet(keep), keep \subseteq Int, NEW key, \A i \in keep : key[i] \in Int,
           NEW i \in keep, NEW j \in keep, Place(keep, key, i) = Place(keep, key, j)
    PROVE  i = j
<1> SUFFICES ASSUME i # j PROVE FALSE
  OBVIOUS
<1>1. \/ key[i] < key[j] \/ (key[i] = key[j] /\ i < j)
      \/ key[j] < key[i] \/ (key[j] = key[i] /\ j < i)
  OBVIOUS
<1>2. Place(keep, key, i) < Place(keep, key, j) \/ Place(keep, key, j) < Place(keep, key, i)
  BY <1>1, PlaceStrict
<1>3. Place(keep, key, i) \in 1 .. Cardinality(keep) /\ Place(keep, key, j) \in 1 .. Cardinality(keep)
  BY PlaceType
<1>4. Place(keep, key, i) \in Int /\ Place(keep, key, j) \in Int
  BY <1>3
<1> QED
  BY <1>2, <1>4

\* The position at place n, of which there is one.
Placed(keep, key, n) == CHOOSE i \in keep : Place(keep, key, i) = n

LEMMA PlaceReached ==
    ASSUME NEW keep, IsFiniteSet(keep), keep \subseteq Int, NEW key, \A i \in keep : key[i] \in Int,
           NEW N, N = 1 .. Cardinality(keep), NEW n \in N
    PROVE  Placed(keep, key, n) \in keep /\ Place(keep, key, Placed(keep, key, n)) = n
<1> DEFINE f == [i \in keep |-> Place(keep, key, i)]
<1>1. \A i, j \in keep : Place(keep, key, i) = Place(keep, key, j) => i = j
  BY PlaceOnce
<1>2. f \in Injection(keep, N)
  BY <1>1, PlaceType DEF Injection, IsInjective
<1>3. IsFiniteSet(N) /\ Cardinality(N) = Cardinality(keep)
  <2>1. Cardinality(keep) \in Nat
    BY FS_CardinalityType
  <2> QED
    BY <2>1, FS_Interval
<1>4. f \in Surjection(keep, N)
  BY <1>2, <1>3, FS_Injection
<1>5. PICK i \in keep : Place(keep, key, i) = n
  BY <1>4 DEF Surjection
<1> QED
  BY <1>5 DEF Placed

\* What an arrangement has at place n.
LEMMA ArrangedAt ==
    ASSUME NEW seq, NEW keep, IsFiniteSet(keep), keep \subseteq Int,
           NEW key, \A i \in keep : key[i] \in Int,
           NEW N, N = 1 .. Cardinality(keep), NEW n \in N
    PROVE  /\ Placed(keep, key, n) \in keep
           /\ Arranged(seq, keep, key)[n] = seq[Placed(keep, key, n)]
<1>1. Placed(keep, key, n) \in keep
  BY PlaceReached
<1>2. Arranged(seq, keep, key)[n] = seq[Placed(keep, key, n)]
  BY DEF Arranged, Placed
<1> QED
  BY <1>1, <1>2

\* What comes first has the smaller key, or an equal one and an earlier position.
LEMMA ArrangedOrder ==
    ASSUME NEW keep, IsFiniteSet(keep), keep \subseteq Int,
           NEW key, \A i \in keep : key[i] \in Int,
           NEW N, N = 1 .. Cardinality(keep), NEW m \in N, NEW n \in N, m < n
    PROVE  \/ key[Placed(keep, key, m)] < key[Placed(keep, key, n)]
           \/ /\ key[Placed(keep, key, m)] = key[Placed(keep, key, n)]
              /\ Placed(keep, key, m) < Placed(keep, key, n)
<1> DEFINE i == Placed(keep, key, m)
           j == Placed(keep, key, n)
<1>1. /\ i \in keep /\ Place(keep, key, i) = m
      /\ j \in keep /\ Place(keep, key, j) = n
  BY PlaceReached
<1>2. m \in Int /\ n \in Int
  OBVIOUS
<1> HIDE DEF i, j
<1>3. i \in Int /\ j \in Int /\ key[i] \in Int /\ key[j] \in Int /\ i # j
  BY <1>1, <1>2
<1>4. ~(key[j] < key[i] \/ (key[j] = key[i] /\ j < i))
  <2> SUFFICES ASSUME key[j] < key[i] \/ (key[j] = key[i] /\ j < i)
               PROVE  FALSE
    OBVIOUS
  <2>1. Place(keep, key, j) < Place(keep, key, i)
    BY <1>1, PlaceStrict
  <2> QED
    BY <1>1, <1>2, <2>1
<1>5. key[i] < key[j] \/ (key[i] = key[j] /\ i < j)
  BY <1>3, <1>4
<1> QED
  BY <1>5 DEF i, j

\* An arrangement of positions of a sequence over S is a sequence over S.
LEMMA ArrangedType ==
    ASSUME NEW S, NEW seq \in Seq(S), NEW keep \in SUBSET DOMAIN seq,
           NEW key, \A i \in keep : key[i] \in Int
    PROVE  /\ Arranged(seq, keep, key) \in Seq(S)
           /\ Len(Arranged(seq, keep, key)) = Cardinality(keep)
<1>1. IsFiniteSet(keep) /\ keep \subseteq Int
  <2>1. DOMAIN seq = 1 .. Len(seq) /\ Len(seq) \in Nat
    OBVIOUS
  <2>2. IsFiniteSet(1 .. Len(seq))
    BY <2>1, FS_Interval
  <2> QED
    BY <2>1, <2>2, FS_Subset
<1> DEFINE n == Cardinality(keep)
           N == 1 .. n
           arr == Arranged(seq, keep, key)
<1>2. n \in Nat
  BY <1>1, FS_CardinalityType
<1>3. arr = [m \in N |-> arr[m]]
  BY DEF Arranged
<1>4. N = 1 .. Cardinality(keep)
  OBVIOUS
<1> HIDE DEF N
<1>5. ASSUME NEW m \in N
      PROVE  arr[m] \in S
  <2>1. Placed(keep, key, m) \in keep
    BY <1>1, <1>4, PlaceReached
  <2>2. arr[m] = seq[Placed(keep, key, m)]
    BY <1>4 DEF Arranged, Placed
  <2> QED
    BY <2>1, <2>2
<1> HIDE DEF arr, n
<1>6. arr \in [N -> S]
  BY <1>3, <1>5
<1>7. arr \in Seq(S) /\ Len(arr) = n
  BY <1>2, <1>6 DEF N
<1> QED
  BY <1>7 DEF arr, n

\* A selection from a sequence over S is a sequence over S.
LEMMA SelectedType ==
    ASSUME NEW S, NEW seq \in Seq(S), NEW keep \in SUBSET DOMAIN seq
    PROVE  Selected(seq, keep) \in Seq(S)
<1>1. \A i \in keep : [j \in keep |-> 0][i] \in Int
  OBVIOUS
<1> QED
  BY <1>1, ArrangedType DEF Selected

-----------------------------------------------------------------------------
(* Sums: taken apart, of sums, over other names, of equal terms; and the    *)
(* smallest and largest of a set.                                           *)

\* Functions' sum of a function is the sum over its domain.
LEMMA SumIsTotal ==
    ASSUME NEW f
    PROVE  SumFunction(f) = Total(f, DOMAIN f)
<1> DEFINE S == DOMAIN f
<1>1. SumFunction(f) = (CHOOSE g : IsTotal(g, f, S))[S]
  BY DEF SumFunction, SumFunctionOnSet, FoldFunctionOnSet, MapThenFoldSet, IsTotal, Some
<1> QED
  BY <1>1, TotalDefined

\* A sum of sums.
LEMMA TotalLinear ==
    ASSUME NEW f, NEW h, NEW k, NEW c \in Int, NEW S, IsFiniteSet(S),
           \A i \in S : f[i] \in Int /\ h[i] \in Int /\ k[i] = f[i] + c * h[i]
    PROVE  Total(k, S) = Total(f, S) + c * Total(h, S)
<1> DEFINE P == {U \in SUBSET S : Total(k, U) = Total(f, U) + c * Total(h, U)}
<1>1. {} \in P
  BY TotalEmpty
<1>2. ASSUME NEW T \in SUBSET S, NEW x \in S, T \in P, x \notin T
      PROVE  T \cup {x} \in P
  <2> DEFINE U == T \cup {x}
  <2>1. U \in SUBSET S /\ x \in U /\ U \ {x} = T
    BY <1>2
  <2>2. IsFiniteSet(U) /\ IsFiniteSet(T)
    BY <2>1, FS_Subset
  <2>3. \A i \in U : f[i] \in Int /\ h[i] \in Int /\ k[i] \in Int
    BY <2>1
  <2>4. \A i \in T : f[i] \in Int /\ h[i] \in Int
    OBVIOUS
  <2> HIDE DEF U
  <2>5. /\ Total(f, U) = f[x] + Total(f, U \ {x})
        /\ Total(h, U) = h[x] + Total(h, U \ {x})
        /\ Total(k, U) = k[x] + Total(k, U \ {x})
    BY <2>1, <2>2, <2>3, TotalTake
  <2>6. Total(f, T) \in Int /\ Total(h, T) \in Int
    BY <2>2, <2>4, TotalType
  <2>7. f[x] \in Int /\ h[x] \in Int /\ k[x] = f[x] + c * h[x]
    OBVIOUS
  <2>8. Total(k, T) = Total(f, T) + c * Total(h, T)
    BY <1>2
  <2>9. c * (h[x] + Total(h, T)) = c * h[x] + c * Total(h, T)
    BY <2>6, <2>7
  <2>10. c * h[x] \in Int /\ c * Total(h, T) \in Int
    BY <2>6, <2>7
  <2>11. /\ Total(f, U) = f[x] + Total(f, T) /\ Total(h, U) = h[x] + Total(h, T)
         /\ Total(k, U) = k[x] + Total(k, T)
    BY <2>1, <2>5
  <2>12. Total(k, U) = Total(f, U) + c * Total(h, U)
    BY <2>6, <2>7, <2>8, <2>9, <2>10, <2>11
  <2> QED
    BY <2>1, <2>12 DEF U
<1> HIDE DEF P
<1>3. SUBSET S \subseteq P
  BY <1>1, <1>2, SetInduction
<1> QED
  BY <1>3 DEF P

\* A sum in two parts.
LEMMA TotalSplit ==
    ASSUME NEW f, NEW S, IsFiniteSet(S), \A i \in S : f[i] \in Int, NEW T \in SUBSET S
    PROVE  Total(f, S) = Total(f, T) + Total(f, S \ T)
<1> DEFINE P == {U \in SUBSET T : Total(f, S) = Total(f, U) + Total(f, S \ U)}
<1>0. IsFiniteSet(T)
  BY FS_Subset
<1>1. {} \in P
  <2>1. S \ {} = S /\ Total(f, S) \in Int
    BY TotalType
  <2> QED
    BY <2>1, TotalEmpty
<1>2. ASSUME NEW U \in SUBSET T, NEW x \in T, U \in P, x \notin U
      PROVE  U \cup {x} \in P
  <2> DEFINE V == U \cup {x}
             R == S \ U
  <2>1. V \in SUBSET T /\ x \in V /\ V \ {x} = U /\ x \in R /\ S \ V = R \ {x}
    BY <1>2
  <2>2. IsFiniteSet(V) /\ IsFiniteSet(R) /\ IsFiniteSet(U) /\ IsFiniteSet(R \ {x})
    <3>1. V \in SUBSET S /\ R \in SUBSET S /\ U \in SUBSET S /\ R \ {x} \in SUBSET S
      BY <2>1
    <3> HIDE DEF V, R
    <3> QED
      BY <3>1, FS_Subset
  <2>3. (\A i \in V : f[i] \in Int) /\ (\A i \in R : f[i] \in Int) /\ f[x] \in Int
    BY <2>1
  <2>4. Total(f, S) = Total(f, U) + Total(f, R)
    BY <1>2
  <2> HIDE DEF V, R
  <2>5. Total(f, V) = f[x] + Total(f, U) /\ Total(f, R) = f[x] + Total(f, R \ {x})
    BY <2>1, <2>2, <2>3, TotalTake
  <2>6. Total(f, U) \in Int /\ Total(f, R \ {x}) \in Int
    <3>1. (\A i \in U : f[i] \in Int) /\ (\A i \in R \ {x} : f[i] \in Int)
      BY <2>1, <2>3
    <3> QED
      BY <2>2, <3>1, TotalType
  <2>7. Total(f, S \ V) = Total(f, R \ {x})
    BY <2>1
  <2>8. Total(f, S) = Total(f, V) + Total(f, S \ V)
    BY <2>3, <2>4, <2>5, <2>6, <2>7
  <2> QED
    BY <2>1, <2>8 DEF V
<1> HIDE DEF P
<1>3. SUBSET T \subseteq P
  BY <1>0, <1>1, <1>2, SetInduction
<1> QED
  BY <1>3 DEF P

\* A part of a sum of natural numbers.
LEMMA TotalPart ==
    ASSUME NEW f, NEW S, IsFiniteSet(S), \A i \in S : f[i] \in Nat, NEW T \in SUBSET S
    PROVE  Total(f, T) <= Total(f, S) /\ Total(f, T) \in Nat
<1>1. IsFiniteSet(T) /\ IsFiniteSet(S \ T)
  <2>1. S \ T \in SUBSET S
    OBVIOUS
  <2> QED
    BY <2>1, FS_Subset
<1>2. \A i \in S : f[i] \in Int
  OBVIOUS
<1>3. Total(f, S) = Total(f, T) + Total(f, S \ T)
  BY <1>2, TotalSplit
<1>4. Total(f, T) \in Nat /\ Total(f, S \ T) \in Nat
  BY <1>1, TotalNat
<1> QED
  BY <1>3, <1>4

\* A sum of zeros.
LEMMA TotalZero ==
    ASSUME NEW f, NEW S, IsFiniteSet(S), \A i \in S : f[i] = 0
    PROVE  Total(f, S) = 0
<1> DEFINE P == {U \in SUBSET S : Total(f, U) = 0}
<1>1. {} \in P
  BY TotalEmpty
<1>2. ASSUME NEW T \in SUBSET S, NEW x \in S, T \in P, x \notin T
      PROVE  T \cup {x} \in P
  <2> DEFINE U == T \cup {x}
  <2>1. U \in SUBSET S /\ x \in U /\ U \ {x} = T /\ Total(f, T) = 0 /\ f[x] = 0
    BY <1>2
  <2>2. IsFiniteSet(U) /\ \A i \in U : f[i] \in Int
    BY <2>1, FS_Subset
  <2> HIDE DEF U
  <2>3. Total(f, U) = f[x] + Total(f, U \ {x})
    BY <2>1, <2>2, TotalTake
  <2> QED
    BY <2>1, <2>3 DEF U
<1> HIDE DEF P
<1>3. SUBSET S \subseteq P
  BY <1>1, <1>2, SetInduction
<1> QED
  BY <1>3 DEF P

Renaming(b, D, S) ==
    /\ b \in [D -> S]
    /\ \A i, j \in D : b[i] = b[j] => i = j
    /\ \A x \in S : \E i \in D : b[i] = x

Renamed(h, f, b, D, S) ==
    /\ Renaming(b, D, S)
    /\ \A i \in D : h[i] = f[b[i]]
    /\ \A x \in S : f[x] \in Int

\* A sum over other names of what is summed over.
LEMMA TotalRenamed ==
    ASSUME NEW f, NEW S, NEW h, NEW D, IsFiniteSet(D), NEW b, Renamed(h, f, b, D, S)
    PROVE  Total(h, D) = Total(f, S)
<1>0. /\ b \in [D -> S] /\ \A i, j \in D : b[i] = b[j] => i = j
      /\ \A x \in S : \E i \in D : b[i] = x
      /\ (\A i \in D : h[i] = f[b[i]]) /\ \A x \in S : f[x] \in Int
  BY DEF Renaming, Renamed
<1> DEFINE Img(T) == {b[i] : i \in T}
           P == {T \in SUBSET D : Total(h, T) = Total(f, Img(T))}
<1>1. {} \in P
  <2>1. Img({}) = {}
    OBVIOUS
  <2> QED
    BY <2>1, TotalEmpty
<1>2. ASSUME NEW T \in SUBSET D, NEW x \in D, T \in P, x \notin T
      PROVE  T \cup {x} \in P
  <2> DEFINE U == T \cup {x}
             V == Img(U)
  <2>1. U \in SUBSET D /\ x \in U /\ U \ {x} = T /\ b[x] \in V
    BY <1>2
  <2>2. V \ {b[x]} = Img(T)
    BY <1>0, <1>2
  <2>3. IsFiniteSet(U)
    BY <2>1, FS_Subset
  <2>4. IsFiniteSet(V)
    <3> DEFINE c == [i \in U |-> b[i]]
    <3>1. c \in Surjection(U, V)
      BY DEF Surjection
    <3> HIDE DEF U, V, c
    <3> QED
      BY <2>3, <3>1, FS_Surjection
  <2>5. (\A i \in U : h[i] \in Int) /\ (\A i \in V : f[i] \in Int)
    BY <1>0, <2>1
  <2>6. Total(h, T) = Total(f, Img(T)) /\ h[x] = f[b[x]]
    BY <1>0, <1>2
  <2> HIDE DEF U, V, Img
  <2>7. Total(h, U) = h[x] + Total(h, T)
    BY <2>1, <2>3, <2>5, TotalTake
  <2>8. Total(f, V) = f[b[x]] + Total(f, V \ {b[x]})
    BY <2>1, <2>4, <2>5, TotalTake
  <2>9. Total(h, U) = Total(f, V)
    BY <2>2, <2>6, <2>7, <2>8
  <2> QED
    BY <2>1, <2>9 DEF U, V, Img
<1> HIDE DEF P
<1>3. SUBSET D \subseteq P
  BY <1>1, <1>2, SetInduction
<1>4. Total(h, D) = Total(f, Img(D))
  BY <1>3 DEF P
<1>5. Img(D) = S
  BY <1>0
<1> QED
  BY <1>4, <1>5

\* A sum over the first numbers goes on by what it meets next.
LEMMA TotalUpTo ==
    ASSUME NEW f, NEW n \in Nat, \A i \in 1 .. n + 1 : f[i] \in Int
    PROVE  Total(f, 1 .. n + 1) = Total(f, 1 .. n) + f[n + 1]
<1> DEFINE S == 1 .. n + 1
           x == n + 1
<1>1. IsFiniteSet(S)
  BY FS_Interval
<1>2. x \in S /\ S \ {x} = 1 .. n
  OBVIOUS
<1>3. \A i \in S : f[i] \in Int
  OBVIOUS
<1>4. IsFiniteSet(1 .. n) /\ \A i \in 1 .. n : f[i] \in Int
  BY FS_Interval
<1> HIDE DEF S, x
<1>5. Total(f, S) = f[x] + Total(f, S \ {x})
  BY <1>1, <1>2, <1>3, TotalTake
<1>6. Total(f, 1 .. n) \in Int /\ f[x] \in Int
  BY <1>2, <1>3, <1>4, TotalType
<1>7. Total(f, S) = f[x] + Total(f, 1 .. n)
  BY <1>2, <1>5
<1>8. Total(f, S) = Total(f, 1 .. n) + f[x]
  BY <1>6, <1>7
<1> QED
  BY <1>8 DEF S, x

\* A sum of ones counts.
LEMMA TotalOnes ==
    ASSUME NEW S, IsFiniteSet(S), NEW f, f = [i \in S |-> 1]
    PROVE  Total(f, S) = Cardinality(S)
<1> DEFINE P == {U \in SUBSET S : Total(f, U) = Cardinality(U)}
<1>1. {} \in P
  BY TotalEmpty, FS_EmptySet
<1>2. ASSUME NEW T \in SUBSET S, NEW x \in S, T \in P, x \notin T
      PROVE  T \cup {x} \in P
  <2> DEFINE U == T \cup {x}
  <2>1. /\ U \in SUBSET S /\ x \in U /\ U \ {x} = T /\ Total(f, T) = Cardinality(T)
        /\ f[x] = 1
    BY <1>2
  <2>2. IsFiniteSet(U) /\ IsFiniteSet(T) /\ \A i \in U : f[i] \in Int
    BY <2>1, FS_Subset
  <2>3. Cardinality(U) = Cardinality(T) + 1 /\ Cardinality(T) \in Nat
    BY <1>2, <2>2, FS_AddElement, FS_CardinalityType
  <2> HIDE DEF U
  <2>4. Total(f, U) = f[x] + Total(f, U \ {x})
    BY <2>1, <2>2, TotalTake
  <2>5. Total(f, U) = 1 + Cardinality(T)
    BY <2>1, <2>4
  <2>6. Total(f, U) = Cardinality(U)
    BY <2>3, <2>5
  <2> QED
    BY <2>1, <2>6 DEF U
<1> HIDE DEF P
<1>3. SUBSET S \subseteq P
  BY <1>1, <1>2, SetInduction
<1> QED
  BY <1>3 DEF P

EndsIn(f, n, c, v) ==
    (\A i \in 1 .. n : f[i] \in Int) /\ \A i \in n + 1 .. n + c : f[i] = v

\* Several equal terms at the end of a sum.
LEMMA TotalRun ==
    ASSUME NEW f, NEW n \in Nat, NEW c \in Nat, NEW v \in Int, EndsIn(f, n, c, v)
    PROVE  Total(f, 1 .. n + c) = Total(f, 1 .. n) + c * v
<1>0. (\A i \in 1 .. n : f[i] \in Int) /\ \A i \in n + 1 .. n + c : f[i] = v
  BY DEF EndsIn
<1> DEFINE S == 1 .. n + c
           T == 1 .. n
           U == n + 1 .. n + c
           z == [i \in U |-> 0]
           one == [i \in U |-> 1]
<1>1. IsFiniteSet(S) /\ IsFiniteSet(U)
  <2>1. n + c \in Int /\ n + 1 \in Int /\ 1 \in Int
    OBVIOUS
  <2> HIDE DEF S, U
  <2> QED
    BY <2>1, FS_Interval DEF S, U
<1>2. T \in SUBSET S /\ S \ T = U
  OBVIOUS
<1>3. \A i \in S : f[i] \in Int
  BY <1>0
<1>4. \A i \in U : z[i] \in Int /\ one[i] \in Int /\ f[i] = z[i] + v * one[i]
  BY <1>0
<1>5. \A i \in U : z[i] = 0
  OBVIOUS
<1>6. one = [i \in U |-> 1]
  OBVIOUS
<1>7. IsFiniteSet(T)
  BY <1>1, <1>2, FS_Subset
<1>8. \A i \in T : f[i] \in Int
  BY <1>0
<1> HIDE DEF S, T, U, z, one
<1>9. Total(f, S) = Total(f, T) + Total(f, U)
  BY <1>1, <1>2, <1>3, TotalSplit
<1>10. Total(f, U) = Total(z, U) + v * Total(one, U)
  BY <1>1, <1>4, TotalLinear
<1>11. Total(z, U) = 0
  BY <1>1, <1>5, TotalZero
<1>12. Total(one, U) = Cardinality(U)
  BY <1>1, <1>6, TotalOnes
<1>13. Cardinality(U) = c
  BY FS_Interval DEF U
<1>14. Total(f, T) \in Int
  BY <1>7, <1>8, TotalType
<1>15. v * c = c * v /\ c * v \in Int
  OBVIOUS
<1>16. Total(f, S) = Total(f, T) + c * v
  BY <1>9, <1>10, <1>11, <1>12, <1>13, <1>14, <1>15
<1> QED
  BY <1>16 DEF S, T

Places(keep, key) == [n \in 1 .. Cardinality(keep) |-> Placed(keep, key, n)]

\* The places of an arrangement are a renaming of the kept positions.
LEMMA PlacesRename ==
    ASSUME NEW keep, IsFiniteSet(keep), keep \subseteq Int,
           NEW key, \A i \in keep : key[i] \in Int
    PROVE  Renaming(Places(keep, key), 1 .. Cardinality(keep), keep)
<1> DEFINE N == 1 .. Cardinality(keep)
           b == Places(keep, key)
<1>1. N = 1 .. Cardinality(keep) /\ b = [n \in N |-> Placed(keep, key, n)]
  BY DEF Places
<1> HIDE DEF N, b
<1>2. \A n \in N : Placed(keep, key, n) \in keep /\ Place(keep, key, Placed(keep, key, n)) = n
  BY <1>1, PlaceReached
<1>3. \A n \in N : b[n] \in keep /\ Place(keep, key, b[n]) = n
  BY <1>1, <1>2
<1>4. ASSUME NEW i \in keep
      PROVE  \E n \in N : b[n] = i
  <2>1. Place(keep, key, i) \in N
    BY <1>1, PlaceType
  <2>2. /\ b[Place(keep, key, i)] \in keep
        /\ Place(keep, key, b[Place(keep, key, i)]) = Place(keep, key, i)
    BY <1>3, <2>1
  <2>3. b[Place(keep, key, i)] = i
    BY <2>2, PlaceOnce
  <2> QED
    BY <2>1, <2>3
<1>5. b \in [N -> keep]
  BY <1>1, <1>2
<1>6. Renaming(b, N, keep)
  BY <1>3, <1>4, <1>5 DEF Renaming
<1> QED
  BY <1>1, <1>6 DEF b

Sortable(keep, key) ==
    IsFiniteSet(keep) /\ keep \subseteq Int /\ \A i \in keep : key[i] \in Int

ArrangedAs(h, f, keep, key) ==
    /\ h = [n \in 1 .. Cardinality(keep) |-> f[Places(keep, key)[n]]]
    /\ \A i \in keep : f[i] \in Int

\* What an arrangement sums to, in its order or in the positions'.
LEMMA ArrangedTotal ==
    ASSUME NEW keep, NEW key, Sortable(keep, key), NEW f, NEW h, ArrangedAs(h, f, keep, key)
    PROVE  Total(h, DOMAIN h) = Total(f, keep)
<1> DEFINE b == Places(keep, key)
           N == 1 .. Cardinality(keep)
<1>1. Renaming(b, N, keep)
  BY PlacesRename DEF Sortable
<1>2. IsFiniteSet(N)
  <2>1. Cardinality(keep) \in Int
    BY FS_CardinalityType DEF Sortable
  <2> QED
    BY <2>1, FS_Interval
<1>3. DOMAIN h = N /\ (\A n \in N : h[n] = f[b[n]]) /\ \A i \in keep : f[i] \in Int
  BY DEF ArrangedAs
<1> HIDE DEF b, N
<1>4. Renamed(h, f, b, N, keep)
  BY <1>1, <1>3 DEF Renamed
<1>5. Total(h, N) = Total(f, keep)
  BY <1>2, <1>4, TotalRenamed
<1> QED
  BY <1>3, <1>5

\* The smallest number of a finite set is in it and bounds it.
LEMMA MinOfSet ==
    ASSUME NEW S, IsFiniteSet(S), S \subseteq Int, S # {}
    PROVE  Min(S) \in S /\ \A y \in S : Min(S) <= y
<1> DEFINE P == {T \in SUBSET S : T = {} \/ \E x \in T : \A y \in T : x <= y}
<1>1. {} \in P
  OBVIOUS
<1>2. ASSUME NEW T \in SUBSET S, NEW x \in S, T \in P, x \notin T
      PROVE  T \cup {x} \in P
  <2>1. CASE T = {}
    BY <2>1
  <2>2. CASE T # {}
    <3>1. PICK z \in T : \A y \in T : z <= y
      BY <1>2, <2>2
    <3>2. \A y \in T \cup {x} : y \in Int
      OBVIOUS
    <3>3. CASE z <= x
      <4>1. \A y \in T \cup {x} : z <= y
        BY <3>1, <3>3
      <4> QED
        BY <4>1
    <3>4. CASE ~(z <= x)
      <4>1. \A y \in T \cup {x} : x <= y
        BY <3>1, <3>2, <3>4
      <4> QED
        BY <4>1
    <3> QED
      BY <3>3, <3>4
  <2> QED
    BY <2>1, <2>2
<1> HIDE DEF P
<1>3. SUBSET S \subseteq P
  BY <1>1, <1>2, SetInduction
<1>4. \E x \in S : \A y \in S : x <= y
  BY <1>3 DEF P
<1> QED
  BY <1>4 DEF Min

\* What is in a set of numbers and bounds it is its smallest.
LEMMA MinIs ==
    ASSUME NEW S, S \subseteq Int, NEW x \in S, \A y \in S : x <= y
    PROVE  Min(S) = x
<1>1. \A z \in S : (\A y \in S : z <= y) => z = x
  OBVIOUS
<1>2. (CHOOSE z \in S : \A y \in S : z <= y) = x
  BY <1>1
<1> QED
  BY <1>2 DEF Min

\* ... or its largest.
LEMMA MaxIs ==
    ASSUME NEW S, S \subseteq Int, NEW x \in S, \A y \in S : x >= y
    PROVE  Max(S) = x
<1>1. \A z \in S : (\A y \in S : z >= y) => z = x
  OBVIOUS
<1>2. (CHOOSE z \in S : \A y \in S : z >= y) = x
  BY <1>1
<1> QED
  BY <1>2 DEF Max

-----------------------------------------------------------------------------
(* More about sequences and sums.                                          *)

\* The elements of a sequence.
LEMMA RangeFinite ==
    ASSUME NEW S, NEW s \in Seq(S)
    PROVE  IsFiniteSet(Range(s)) /\ Range(s) \subseteq S
<1>1. DOMAIN s = 1 .. Len(s) /\ Len(s) \in Nat /\ \A i \in DOMAIN s : s[i] \in S
  OBVIOUS
<1>2. IsFiniteSet(DOMAIN s)
  BY <1>1, FS_Interval
<1>3. s \in [DOMAIN s -> Range(s)]
  BY <1>1 DEF Range
<1>4. s \in Surjection(DOMAIN s, Range(s))
  BY <1>3 DEF Surjection, Range
<1> QED
  BY <1>1, <1>2, <1>4, FS_Surjection DEF Range

\* Sequences over a set are sequences over a larger one.
LEMMA SeqWithin ==
    ASSUME NEW S, NEW T, S \subseteq T, NEW s \in Seq(S)
    PROVE  s \in Seq(T)
OBVIOUS

\* What is selected, by its positions: each one that is kept, once.
IsSelection(sel, seq, keep, pos) ==
    /\ pos \in [DOMAIN sel -> keep]
    /\ \A n \in DOMAIN sel : sel[n] = seq[pos[n]]
    /\ \A m, n \in DOMAIN sel : pos[m] = pos[n] => m = n
    /\ \A i \in keep : \E n \in DOMAIN sel : pos[n] = i

\* A selection takes each position that is kept once.
LEMMA SelectedIs ==
    ASSUME NEW S, NEW seq \in Seq(S), NEW keep \in SUBSET DOMAIN seq
    PROVE  /\ Selected(seq, keep) \in Seq(S) /\ Len(Selected(seq, keep)) = Cardinality(keep)
           /\ \E pos : IsSelection(Selected(seq, keep), seq, keep, pos)
<1> DEFINE key == [i \in keep |-> 0]
           N == 1 .. Cardinality(keep)
           sel == Selected(seq, keep)
           pos == [n \in N |-> Placed(keep, key, n)]
<1>1. IsFiniteSet(keep) /\ keep \subseteq Int
  <2>1. DOMAIN seq = 1 .. Len(seq) /\ Len(seq) \in Nat
    OBVIOUS
  <2>2. IsFiniteSet(DOMAIN seq) /\ DOMAIN seq \subseteq Int
    BY <2>1, FS_Interval
  <2> QED
    BY <2>2, FS_Subset
<1>2. \A i \in keep : key[i] \in Int
  OBVIOUS
<1>3. sel = Arranged(seq, keep, key)
  BY DEF Selected
<1>4. N = 1 .. Cardinality(keep)
  OBVIOUS
<1> HIDE DEF key, N, sel
<1>5. sel \in Seq(S) /\ Len(sel) = Cardinality(keep)
  BY <1>2, <1>3, ArrangedType
<1>6. DOMAIN sel = N
  BY <1>5 DEF N
<1>7. ASSUME NEW n \in N
      PROVE  pos[n] \in keep /\ sel[n] = seq[pos[n]] /\ Place(keep, key, pos[n]) = n
  <2>1. pos[n] = Placed(keep, key, n)
    OBVIOUS
  <2>2. Placed(keep, key, n) \in keep /\ Place(keep, key, Placed(keep, key, n)) = n
    BY <1>1, <1>2, <1>4, PlaceReached
  <2>3. sel[n] = seq[Placed(keep, key, n)]
    BY <1>3, <1>4 DEF Arranged, Placed
  <2> QED
    BY <2>1, <2>2, <2>3
<1>8. ASSUME NEW i \in keep
      PROVE  \E n \in N : pos[n] = i
  <2> DEFINE n == Place(keep, key, i)
  <2>1. n \in N
    BY <1>1, <1>2, <1>4, PlaceType
  <2>2. pos[n] \in keep /\ Place(keep, key, pos[n]) = n
    BY <1>7, <2>1
  <2>3. pos[n] = i
    BY <1>1, <1>2, <2>2, PlaceOnce
  <2> QED
    BY <2>1, <2>3
<1>9. pos \in [N -> keep]
  BY <1>7
<1> HIDE DEF pos
<1>10. IsSelection(sel, seq, keep, pos)
  BY <1>6, <1>7, <1>8, <1>9 DEF IsSelection
<1> QED
  BY <1>5, <1>10 DEF sel

\* The sum over a pair.
LEMMA TotalTwo ==
    ASSUME NEW f, f[1] \in Int, f[2] \in Int
    PROVE  Total(f, 1 .. 2) = f[1] + f[2]
<1> DEFINE S == 1 .. 2
<1>0. IsFiniteSet(S)
  <2> DEFINE n == 2
  <2>1. n \in Nat
    OBVIOUS
  <2> HIDE DEF n
  <2>2. IsFiniteSet(1 .. n)
    BY <2>1, FS_Interval
  <2> QED
    BY <2>2 DEF n
<1>4. 1 \in S /\ S \ {1} = {2} /\ \A i \in S : i = 1 \/ i = 2
  OBVIOUS
<1>1. IsFiniteSet(S) /\ 1 \in S /\ S \ {1} = {2} /\ \A i \in S : f[i] \in Int
  BY <1>0, <1>4
<1> HIDE DEF S
<1>2. Total(f, S) = f[1] + Total(f, S \ {1})
  BY <1>1, TotalTake
<1>3. Total(f, {2}) = f[2]
  BY TotalOne
<1> QED
  BY <1>1, <1>2, <1>3 DEF S

\* The sum of the same number over and over.
LEMMA TotalConstant ==
    ASSUME NEW S, IsFiniteSet(S), NEW c \in Int, NEW f, \A i \in S : f[i] = c
    PROVE  Total(f, S) = c * Cardinality(S)
<1> DEFINE ones == [i \in S |-> 1]
           none == [i \in S |-> 0]
<1>1. \A i \in S : none[i] \in Int /\ ones[i] \in Int /\ none[i] = 0 /\ f[i] = none[i] + c * ones[i]
  OBVIOUS
<1>2. Total(ones, S) = Cardinality(S) /\ Cardinality(S) \in Nat
  BY TotalOnes, FS_CardinalityType
<1> HIDE DEF ones, none
<1>3. Total(none, S) = 0
  BY <1>1, TotalZero
<1>4. Total(f, S) = Total(none, S) + c * Total(ones, S)
  BY <1>1, TotalLinear
<1> QED
  BY <1>2, <1>3, <1>4
=============================================================================
