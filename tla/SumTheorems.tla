------------------------------ MODULE SumTheorems ------------------------------
(***************************************************************************)
(* Facts about numbers and finite sets that the proofs share: what the     *)
(* sums of the community module Functions are, for functions into the      *)
(* integers over a finite set; least and greatest numbers; what holds at   *)
(* every step of a loop, and that the loop has a history; and the ranks of *)
(* the elements of a finite set in a total order.  Facts about sums and    *)
(* ranks are proved by looking at a smallest set on which they would fail. *)
(***************************************************************************)
EXTENDS Integers, FiniteSets, Functions, FiniteSetTheorems,
        WellFoundedInduction, TLAPS

Pick(s) == CHOOSE x \in s : TRUE

\* g adds up f over every subset of S that has at most n elements.
AddsUp(g, f, S, n) ==
    /\ g \in [{s \in SUBSET S : Cardinality(s) <= n} -> Int]
    /\ \A s \in SUBSET S : Cardinality(s) <= n =>
        g[s] = IF s = {} THEN 0 ELSE f[Pick(s)] + g[s \ {Pick(s)}]

\* A set of naturals that is not empty has a least element.
LEMMA LeastNatural ==
    ASSUME NEW T \in SUBSET Nat, T # {}
    PROVE  \E n \in T : \A m \in T : n <= m
<1> DEFINE Initials == {0..n : n \in T}
           R == StrictSubsetOrdering(Nat)
           S == FiniteSubsetsOf(Nat)
<1>1. Initials # {} /\ Initials \subseteq S
  <2>1. ASSUME NEW n \in T PROVE 0..n \in S
    <3>1. n \in Nat /\ 0..n \in SUBSET Nat
      OBVIOUS
    <3>2. IsFiniteSet(0..n)
      BY <3>1, FS_Interval
    <3>3. QED
      BY <3>1, <3>2 DEF FiniteSubsetsOf
  <2> HIDE DEF S
  <2>2. QED
    BY <2>1
<1>2. IsWellFoundedOn(R, S)
  BY FS_StrictSubsetOrderingWellFounded
<1> HIDE DEF Initials, R, S
<1>3. PICK I \in Initials : \A J \in Initials : ~ (<<J, I>> \in R)
  BY <1>1, <1>2, WFMin
<1>4. PICK n \in T : I = 0..n
  BY DEF Initials
<1>5. ASSUME NEW m \in T, m < n PROVE FALSE
  <2>1. 0..m \in Initials
    BY DEF Initials
  <2>2. /\ 0..m \subseteq 0..n
        /\ 0..m # 0..n
    BY <1>5
  <2>3. <<0..m, I>> \in R
    BY <1>1, <1>4, <2>1, <2>2 DEF R, S, StrictSubsetOrdering, FiniteSubsetsOf
  <2>4. QED
    BY <1>3, <2>1, <2>3
<1>6. QED
  BY <1>5

\* One that has a bound has a greatest element.
LEMMA GreatestNatural ==
    ASSUME NEW n \in Nat, NEW T \in SUBSET (0..n), T # {}
    PROVE  \E x \in T : \A y \in T : y <= x
<1> DEFINE Gaps == {n - i : i \in T}
<1>1. \A i \in T : i \in Nat /\ n - i \in Nat
  OBVIOUS
<1>2. Gaps \in SUBSET Nat /\ Gaps # {}
  BY <1>1
<1>3. PICK g \in Gaps : \A h \in Gaps : g <= h
  <2> HIDE DEF Gaps
  <2> QED
    BY <1>2, LeastNatural
<1>4. PICK i \in T : g = n - i
  OBVIOUS
<1>5. ASSUME NEW j \in T PROVE j <= i
  <2>1. n - j \in Gaps
    OBVIOUS
  <2>2. n - i <= n - j
    BY <2>1, <1>3, <1>4
  <2> QED
    BY <2>2, <1>1
<1> QED
  BY <1>5

\* Taking the picked element away leaves a smaller subset.
LEMMA PickSmaller ==
    ASSUME NEW S, IsFiniteSet(S), NEW s \in SUBSET S, s # {}
    PROVE  /\ Pick(s) \in s
           /\ s \ {Pick(s)} \in SUBSET S
           /\ Cardinality(s) \in Nat \ {0}
           /\ Cardinality(s \ {Pick(s)}) = Cardinality(s) - 1
<1>1. Pick(s) \in s
  BY DEF Pick
<1>2. IsFiniteSet(s) /\ Cardinality(s) \in Nat
  BY FS_Subset, FS_CardinalityType
<1>3. Cardinality(s) # 0
  BY <1>2, FS_EmptySet
<1>4. Cardinality(s \ {Pick(s)}) = Cardinality(s) - 1
  BY <1>1, <1>2, FS_RemoveElement
<1>5. QED
  BY <1>1, <1>2, <1>3, <1>4

\* The recursive definition of the sum has a solution, whatever the size.
LEMMA AddsUpExists ==
    ASSUME NEW S, IsFiniteSet(S), NEW f \in [S -> Int]
    PROVE  \A n \in Nat : \E g : AddsUp(g, f, S, n)
<1> DEFINE Bad == {n \in Nat : ~ \E g : AddsUp(g, f, S, n)}
<1>1. SUFFICES ASSUME Bad # {} PROVE FALSE
  OBVIOUS
<1>2. PICK n \in Bad : \A m \in Bad : n <= m
  <2>1. Bad \in SUBSET Nat
    OBVIOUS
  <2> HIDE DEF Bad
  <2>2. QED
    BY <1>1, <2>1, LeastNatural
<1>3. \A s \in SUBSET S : IsFiniteSet(s) /\ Cardinality(s) \in Nat
  BY FS_Subset, FS_CardinalityType
<1>4. CASE n = 0
  <2> DEFINE zero == [s \in {s \in SUBSET S : Cardinality(s) <= 0} |-> 0]
  <2>1. \A s \in SUBSET S : Cardinality(s) <= 0 => s = {}
    BY <1>3, FS_EmptySet
  <2>2. AddsUp(zero, f, S, 0)
    BY <2>1 DEF AddsUp
  <2>3. QED
    BY <1>4, <2>2, <1>2
<1>5. CASE n # 0
  <2>1. n - 1 \in Nat /\ n - 1 \notin Bad
    BY <1>2, <1>5
  <2>2. PICK g : AddsUp(g, f, S, n - 1)
    BY <2>1
  <2> DEFINE dom == {s \in SUBSET S : Cardinality(s) <= n}
             h == [s \in dom |-> IF s = {} THEN 0 ELSE f[Pick(s)] + g[s \ {Pick(s)}]]
  <2>3. ASSUME NEW s \in SUBSET S, Cardinality(s) <= n - 1
        PROVE  g[s] \in Int /\ h[s] = g[s]
    <3>1. s \in dom
      BY <2>3, <1>3, <2>1
    <3>2. QED
      BY <2>2, <2>3, <3>1 DEF AddsUp
  <2>4. ASSUME NEW s \in SUBSET S, s # {}, Cardinality(s) <= n
        PROVE  /\ Pick(s) \in S
               /\ s \ {Pick(s)} \in SUBSET S
               /\ Cardinality(s \ {Pick(s)}) <= n - 1
    BY <2>4, <2>1, PickSmaller
  <2>5. \A s \in dom : h[s] \in Int
    <3> SUFFICES ASSUME NEW s \in dom, s # {}
                 PROVE  f[Pick(s)] + g[s \ {Pick(s)}] \in Int
      OBVIOUS
    <3>1. f[Pick(s)] \in Int
      BY <2>4
    <3>2. g[s \ {Pick(s)}] \in Int
      BY <2>3, <2>4
    <3>3. QED
      BY <3>1, <3>2
  <2>6. \A s \in dom : h[s] = IF s = {} THEN 0 ELSE f[Pick(s)] + h[s \ {Pick(s)}]
    <3> SUFFICES ASSUME NEW s \in dom, s # {}
                 PROVE  h[s] = f[Pick(s)] + h[s \ {Pick(s)}]
      OBVIOUS
    <3>1. h[s] = f[Pick(s)] + g[s \ {Pick(s)}]
      OBVIOUS
    <3>2. h[s \ {Pick(s)}] = g[s \ {Pick(s)}]
      BY <2>3, <2>4
    <3>3. QED
      BY <3>1, <3>2
  <2>7. h \in [dom -> Int]
    BY <2>5
  <2>8. AddsUp(h, f, S, n)
    BY <2>6, <2>7 DEF AddsUp
  <2>9. QED
    BY <2>8, <1>2
<1>6. QED
  BY <1>4, <1>5

\* Any solution over the subsets of S gives the community module's sum over
\* each of them.
LEMMA SumIs ==
    ASSUME NEW S, IsFiniteSet(S), NEW f \in [S -> Int], NEW g,
           AddsUp(g, f, S, Cardinality(S)), NEW T \in SUBSET S
    PROVE  SumFunctionOnSet(f, T) = g[T]
<1> DEFINE Unfold(h) == [s \in SUBSET T |->
                IF s = {} THEN 0 ELSE f[CHOOSE x \in s : TRUE]
                                        + h[s \ {CHOOSE x \in s : TRUE}]]
           iter == CHOOSE h : h = Unfold(h)
<1>1. SumFunctionOnSet(f, T) = iter[T]
  BY DEF SumFunctionOnSet, FoldFunctionOnSet, MapThenFoldSet
<1>2. \A s \in SUBSET S : /\ IsFiniteSet(s)
                          /\ Cardinality(s) \in Nat
                          /\ Cardinality(s) <= Cardinality(S)
  BY FS_Subset, FS_CardinalityType
<1>3. \A s \in SUBSET S :
        g[s] = IF s = {} THEN 0 ELSE f[Pick(s)] + g[s \ {Pick(s)}]
  BY <1>2 DEF AddsUp
<1>4. iter = Unfold(iter)
  <2> DEFINE h == [s \in SUBSET T |-> g[s]]
  <2>1. \A s \in SUBSET T : s # {} => s \ {Pick(s)} \in SUBSET T
    OBVIOUS
  <2>2. \A s \in SUBSET T : h[s] = Unfold(h)[s]
    BY <1>3, <2>1 DEF Pick
  <2>3. h = Unfold(h)
    BY <2>2
  <2> HIDE DEF h, Unfold
  <2>4. QED
    BY <2>3
<1>5. \A s \in SUBSET T :
        iter[s] = IF s = {} THEN 0 ELSE f[Pick(s)] + iter[s \ {Pick(s)}]
  <2> HIDE DEF iter
  <2>1. QED
    BY <1>4 DEF Pick
<1> HIDE DEF iter
<1>6. \A s \in SUBSET T : iter[s] = g[s]
  <2> DEFINE Bad == {n \in Nat : \E s \in SUBSET T : Cardinality(s) = n /\ iter[s] # g[s]}
  <2>1. SUFFICES ASSUME Bad # {} PROVE FALSE
    BY <1>2
  <2>2. PICK n \in Bad : \A m \in Bad : n <= m
    <3>1. Bad \in SUBSET Nat
      OBVIOUS
    <3> HIDE DEF Bad
    <3>2. QED
      BY <2>1, <3>1, LeastNatural
  <2>3. PICK s \in SUBSET T : Cardinality(s) = n /\ iter[s] # g[s]
    BY <2>2
  <2>4. s # {}
    BY <2>3, <1>3, <1>5
  <2>5. /\ s \ {Pick(s)} \in SUBSET T
        /\ Cardinality(s \ {Pick(s)}) = n - 1
        /\ n \in Nat \ {0}
    BY <2>3, <2>4, PickSmaller
  <2>6. iter[s \ {Pick(s)}] = g[s \ {Pick(s)}]
    BY <2>2, <2>5
  <2>7. QED
    BY <2>3, <2>4, <2>6, <1>3, <1>5
<1>7. QED
  BY <1>1, <1>6

\* The sum obeys its recursive definition: it is an integer on every subset, 0
\* on the empty one, and otherwise the value at the picked element plus the
\* sum over the rest.
LEMMA SumUnfolds ==
    ASSUME NEW S, IsFiniteSet(S), NEW f \in [S -> Int], NEW T \in SUBSET S
    PROVE  /\ SumFunctionOnSet(f, T) \in Int
           /\ T = {} => SumFunctionOnSet(f, T) = 0
           /\ T # {} => SumFunctionOnSet(f, T) =
                f[Pick(T)] + SumFunctionOnSet(f, T \ {Pick(T)})
<1>1. Cardinality(S) \in Nat
  BY FS_CardinalityType
<1>2. PICK g : AddsUp(g, f, S, Cardinality(S))
  BY <1>1, AddsUpExists
<1>3. \A s \in SUBSET S : SumFunctionOnSet(f, s) = g[s]
  BY <1>2, SumIs
<1>4. Cardinality(T) <= Cardinality(S)
  BY FS_Subset
<1>5. /\ g[T] \in Int
      /\ g[T] = IF T = {} THEN 0 ELSE f[Pick(T)] + g[T \ {Pick(T)}]
  BY <1>2, <1>4 DEF AddsUp
<1>6. T \ {Pick(T)} \in SUBSET S
  OBVIOUS
<1>7. QED
  BY <1>3, <1>5, <1>6

\* The same for a subset that is not empty, with the rest's sum an integer.
LEMMA SumSplits ==
    ASSUME NEW S, IsFiniteSet(S), NEW f \in [S -> Int], NEW T \in SUBSET S,
           T # {}
    PROVE  /\ SumFunctionOnSet(f, T) =
                f[Pick(T)] + SumFunctionOnSet(f, T \ {Pick(T)})
           /\ SumFunctionOnSet(f, T \ {Pick(T)}) \in Int
<1>1. SumFunctionOnSet(f, T) = f[Pick(T)] + SumFunctionOnSet(f, T \ {Pick(T)})
  BY SumUnfolds
<1> DEFINE R == T \ {Pick(T)}
<1>2. R \in SUBSET S
  OBVIOUS
<1> HIDE DEF R
<1>3. SumFunctionOnSet(f, R) \in Int
  BY <1>2, SumUnfolds
<1>4. QED
  BY <1>1, <1>3 DEF R

\* The sums of two functions that differ at one element differ as they do there.
THEOREM SumChange ==
    ASSUME NEW S, IsFiniteSet(S), NEW f \in [S -> Int], NEW F \in [S -> Int],
           NEW t \in S, \A x \in S : x # t => F[x] = f[x]
    PROVE  SumFunctionOnSet(F, S) = SumFunctionOnSet(f, S) + F[t] - f[t]
<1> DEFINE d(T) == IF t \in T THEN F[t] - f[t] ELSE 0
           Off(T) == SumFunctionOnSet(F, T) # SumFunctionOnSet(f, T) + d(T)
           Bad == {n \in Nat : \E T \in SUBSET S : Cardinality(T) = n /\ Off(T)}
<1>1. F \in [S -> Int] /\ \A x \in S : F[x] = IF x = t THEN F[t] ELSE f[x]
  OBVIOUS
<1>2. \A T \in SUBSET S : IsFiniteSet(T) /\ Cardinality(T) \in Nat
  BY FS_Subset, FS_CardinalityType
<1>3. SUFFICES ASSUME Bad # {} PROVE FALSE
  <2>1. Bad = {} => ~Off(S)
    BY <1>2
  <2>2. SumFunctionOnSet(f, S) \in Int
    BY SumUnfolds
  <2>3. QED
    BY <2>1, <2>2, <1>3
<1>4. PICK n \in Bad : \A m \in Bad : n <= m
  <2>1. Bad \in SUBSET Nat
    OBVIOUS
  <2> HIDE DEF Bad
  <2>2. QED
    BY <1>3, <2>1, LeastNatural
<1>5. PICK T \in SUBSET S : Cardinality(T) = n /\ Off(T)
  BY <1>4
<1>6. T # {}
  <2>1. SumFunctionOnSet(F, {}) = 0
    BY <1>1, SumUnfolds
  <2>2. SumFunctionOnSet(f, {}) = 0
    BY SumUnfolds
  <2>3. QED
    BY <1>5, <2>1, <2>2
<1> DEFINE R == T \ {Pick(T)}
<1>7. /\ Pick(T) \in T
      /\ R \in SUBSET S
      /\ Cardinality(R) = n - 1
      /\ n - 1 \in Nat
      /\ n - 1 < n
  BY <1>5, <1>6, PickSmaller
<1>8. ~Off(R)
  BY <1>4, <1>7
<1>9. /\ SumFunctionOnSet(F, T) = F[Pick(T)] + SumFunctionOnSet(F, R)
      /\ SumFunctionOnSet(f, T) = f[Pick(T)] + SumFunctionOnSet(f, R)
      /\ SumFunctionOnSet(f, R) \in Int
      /\ SumFunctionOnSet(F, R) \in Int
  <2>1. /\ SumFunctionOnSet(F, T) = F[Pick(T)] + SumFunctionOnSet(F, R)
        /\ SumFunctionOnSet(F, R) \in Int
    BY <1>1, <1>6, <1>7, SumSplits
  <2>2. /\ SumFunctionOnSet(f, T) = f[Pick(T)] + SumFunctionOnSet(f, R)
        /\ SumFunctionOnSet(f, R) \in Int
    BY <1>6, <1>7, SumSplits
  <2>3. QED
    BY <2>1, <2>2
<1>10. QED
  BY <1>1, <1>5, <1>7, <1>8, <1>9

\* The sum of non-negative values is no less than any one of them.
THEOREM SumBound ==
    ASSUME NEW S, IsFiniteSet(S), NEW f \in [S -> Nat], NEW U \in SUBSET S,
           NEW t \in U
    PROVE  SumFunctionOnSet(f, U) >= f[t]
<1> DEFINE Low(T) == ~ /\ SumFunctionOnSet(f, T) >= 0
                       /\ t \in T => SumFunctionOnSet(f, T) >= f[t]
           Bad == {n \in Nat : \E T \in SUBSET S : Cardinality(T) = n /\ Low(T)}
<1>1. f \in [S -> Int]
  OBVIOUS
<1>2. SUFFICES ASSUME Bad # {} PROVE FALSE
  <2>1. Cardinality(U) \in Nat
    BY FS_Subset, FS_CardinalityType
  <2>2. QED
    BY <2>1, <1>2
<1>3. PICK n \in Bad : \A m \in Bad : n <= m
  <2>1. Bad \in SUBSET Nat
    OBVIOUS
  <2> HIDE DEF Bad
  <2>2. QED
    BY <1>2, <2>1, LeastNatural
<1>4. PICK T \in SUBSET S : Cardinality(T) = n /\ Low(T)
  BY <1>3
<1>5. T # {}
  <2>1. SumFunctionOnSet(f, {}) = 0
    BY <1>1, SumUnfolds
  <2>2. QED
    BY <1>4, <2>1
<1> DEFINE R == T \ {Pick(T)}
<1>6. /\ Pick(T) \in T
      /\ R \in SUBSET S
      /\ Cardinality(R) = n - 1
      /\ n - 1 \in Nat
      /\ n - 1 < n
  BY <1>4, <1>5, PickSmaller
<1>7. ~Low(R)
  BY <1>3, <1>6
<1>8. /\ SumFunctionOnSet(f, T) = f[Pick(T)] + SumFunctionOnSet(f, R)
      /\ SumFunctionOnSet(f, R) \in Int
  BY <1>1, <1>5, SumSplits
<1>9. f[Pick(T)] \in Nat
  BY <1>6
<1>10. t \in T => t = Pick(T) \/ t \in R
  OBVIOUS
<1>11. QED
  BY <1>4, <1>6, <1>7, <1>8, <1>9, <1>10

\* Values that are at most b add up to at most b times their number.
THEOREM SumAtMost ==
    ASSUME NEW S, IsFiniteSet(S), NEW f \in [S -> Int], NEW b \in Nat,
           \A x \in S : f[x] <= b
    PROVE  SumFunctionOnSet(f, S) <= Cardinality(S) * b
<1> DEFINE High(T) == ~ SumFunctionOnSet(f, T) <= Cardinality(T) * b
           Bad == {n \in Nat : \E T \in SUBSET S : Cardinality(T) = n /\ High(T)}
<1>1. SUFFICES ASSUME Bad # {} PROVE FALSE
  <2>1. Cardinality(S) \in Nat
    BY FS_CardinalityType
  <2>2. QED
    BY <2>1, <1>1
<1>2. PICK n \in Bad : \A m \in Bad : n <= m
  <2>1. Bad \in SUBSET Nat
    OBVIOUS
  <2> HIDE DEF Bad
  <2>2. QED
    BY <1>1, <2>1, LeastNatural
<1>3. PICK T \in SUBSET S : Cardinality(T) = n /\ High(T)
  BY <1>2
<1>4. T # {}
  <2>1. SumFunctionOnSet(f, {}) = 0
    BY SumUnfolds
  <2>2. Cardinality({}) = 0
    BY FS_EmptySet
  <2>3. 0 <= 0 * b
    OBVIOUS
  <2>4. QED
    BY <1>3, <2>1, <2>2, <2>3
<1>5. Cardinality(T) = n
  BY <1>3
<1> DEFINE R == T \ {Pick(T)}
<1>6. /\ Pick(T) \in T
      /\ R \in SUBSET S
      /\ Cardinality(R) = n - 1
      /\ n - 1 \in Nat
      /\ n - 1 < n
  BY <1>4, <1>5, PickSmaller
<1>7. ~High(R)
  BY <1>2, <1>6
<1>8. /\ SumFunctionOnSet(f, T) = f[Pick(T)] + SumFunctionOnSet(f, R)
      /\ SumFunctionOnSet(f, R) \in Int
  BY <1>4, SumSplits
<1>9. f[Pick(T)] \in Int /\ f[Pick(T)] <= b
  BY <1>6
<1>10. SumFunctionOnSet(f, R) <= (n - 1) * b
  BY <1>6, <1>7
<1>11. (n - 1) * b + b = n * b /\ (n - 1) * b \in Int
  BY <1>6
<1>12. SumFunctionOnSet(f, T) <= n * b
  BY <1>8, <1>9, <1>10, <1>11
<1>13. QED
  BY <1>3, <1>12

\* Where any two elements come one before the other, fewer than k elements
\* come before no more than k of them.
THEOREM RankedFew ==
    ASSUME NEW S, IsFiniteSet(S), NEW before \in [S -> SUBSET S], NEW k \in Nat,
           \A t \in S : t \notin before[t],
           \A t, u \in S : t # u => t \in before[u] \/ u \in before[t],
           \A t, u \in S : t \in before[u] => before[t] \subseteq before[u]
    PROVE  Cardinality({t \in S : Cardinality(before[t]) < k}) <= k
<1> DEFINE few == {t \in S : Cardinality(before[t]) < k}
           ranks == {Cardinality(before[t]) : t \in few}
<1>1. \A T \in SUBSET S : IsFiniteSet(T) /\ Cardinality(T) \in Nat
  BY FS_Subset, FS_CardinalityType
<1>2. CASE few = {}
  BY <1>2, FS_EmptySet
<1>3. CASE few # {}
  <2>1. \A t \in few : before[t] \in SUBSET S /\ Cardinality(before[t]) \in Nat
    BY <1>1
  <2>2. ranks \in SUBSET (0 .. k) /\ ranks # {}
    BY <1>3, <2>1
  <2>3. PICK n \in ranks : \A m \in ranks : m <= n
    <3> HIDE DEF ranks
    <3>1. QED
      BY <2>2, GreatestNatural
  <2>4. PICK t \in few : n = Cardinality(before[t])
    BY <2>3
  <2>5. ASSUME NEW u \in few \ {t} PROVE u \in before[t]
    <3>1. SUFFICES ASSUME t \in before[u] PROVE FALSE
      OBVIOUS
    <3>2. before[t] \cup {t} \subseteq before[u] /\ t \notin before[t]
      BY <3>1
    <3>3. Cardinality(before[t] \cup {t}) = n + 1
      BY <1>1, <2>1, <2>4, <3>2, FS_AddElement
    <3>4. n + 1 <= Cardinality(before[u])
      BY <1>1, <2>1, <3>2, <3>3, FS_Subset
    <3>5. Cardinality(before[u]) <= n
      BY <2>3
    <3>6. n \in Nat /\ Cardinality(before[u]) \in Nat
      BY <2>1, <2>4
    <3>7. QED
      BY <3>4, <3>5, <3>6
  <2> DEFINE rest == few \ {t}
  <2>6. rest \subseteq before[t] /\ rest \in SUBSET S /\ few = rest \cup {t}
    BY <2>5
  <2>7. Cardinality(rest) <= n
    BY <1>1, <2>1, <2>4, <2>6, FS_Subset
  <2>8. Cardinality(few) = Cardinality(rest) + 1
    <3>1. t \notin rest /\ IsFiniteSet(rest)
      BY <1>1, <2>6
    <3> HIDE DEF few, rest
    <3>2. QED
      BY <2>6, <3>1, FS_AddElement
  <2>9. n \in Nat /\ n < k /\ Cardinality(rest) \in Nat
    BY <1>1, <2>1, <2>4, <2>6
  <2>10. QED
    BY <2>7, <2>8, <2>9
<1>4. QED
  BY <1>2, <1>3

\* What holds of 0 and passes from each number to the next holds up to N.
LEMMA StepByStep ==
    ASSUME NEW N \in Nat, NEW G \in SUBSET (0 .. N), 0 \in G,
           \A n \in 1 .. N : n - 1 \in G => n \in G
    PROVE  \A n \in 0 .. N : n \in G
<1> DEFINE Bad == (0 .. N) \ G
<1>1. SUFFICES ASSUME Bad # {} PROVE FALSE
  OBVIOUS
<1>2. PICK n \in Bad : \A m \in Bad : n <= m
  <2>1. Bad \in SUBSET Nat
    OBVIOUS
  <2> HIDE DEF Bad
  <2>2. QED
    BY <1>1, <2>1, LeastNatural
<1>3. n \in 1 .. N /\ n - 1 \in 0 .. N /\ n - 1 < n
  BY <1>2
<1>4. n - 1 \in G
  BY <1>2, <1>3
<1>5. QED
  BY <1>2, <1>3, <1>4

\* h is what becomes of x0 in N steps.
History(h, X, x0, N, step) ==
    /\ h \in [0 .. N -> X]
    /\ h[0] = x0
    /\ \A n \in 1 .. N : h[n] = step[<<h[n - 1], n>>]

\* A state that is stepped N times has a history.
LEMMA HistoryExists ==
    ASSUME NEW X, NEW x0 \in X, NEW N \in Nat, NEW step \in [X \X (1 .. N) -> X]
    PROVE  \E h : History(h, X, x0, N, step)
<1> USE DEF History
<1> DEFINE Upto(m, h) == History(h, X, x0, m, step)
           G == {m \in 0 .. N : \E h : Upto(m, h)}
<1>1. 0 \in G
  <2>1. Upto(0, [n \in 0 .. 0 |-> x0])
    OBVIOUS
  <2>2. \E h : Upto(0, h)
    BY <2>1
  <2> HIDE DEF History
  <2>3. QED
    BY <2>2
<1>2. ASSUME NEW m \in 1 .. N, m - 1 \in G PROVE m \in G
  <2>1. PICK h : Upto(m - 1, h)
    BY <1>2
  <2> DEFINE k == [n \in 0 .. m |-> IF n = m THEN step[<<h[m - 1], m>>] ELSE h[n]]
  <2>2. h[m - 1] \in X /\ step[<<h[m - 1], m>>] \in X
    BY <2>1
  <2>3. \A n \in 0 .. m - 1 : k[n] = h[n] /\ k[n] \in X
    BY <2>1
  <2>4. k[m] = step[<<k[m - 1], m>>] /\ k[m] \in X
    <3>1. m - 1 \in 0 .. m - 1 /\ m \in 0 .. m
      OBVIOUS
    <3>2. k[m - 1] = h[m - 1]
      BY <2>3, <3>1
    <3>3. k[m] = step[<<h[m - 1], m>>]
      BY <3>1
    <3>4. QED
      BY <2>2, <3>2, <3>3
  <2>5. k \in [0 .. m -> X] /\ k[0] = x0
    BY <2>1, <2>2, <2>3, <2>4
  <2>6. \A n \in 1 .. m - 1 : k[n] = step[<<k[n - 1], n>>]
    BY <2>1, <2>3
  <2> HIDE DEF k
  <2>7. \A n \in 1 .. m : k[n] = step[<<k[n - 1], n>>]
    <3>1. \A n \in 1 .. m : n = m \/ n \in 1 .. m - 1
      OBVIOUS
    <3>2. QED
      BY <2>4, <2>6, <3>1
  <2>8. \E j : Upto(m, j)
    BY <2>5, <2>7
  <2> HIDE DEF History
  <2>9. QED
    BY <2>8
<1>3. N \in G
  <2>1. G \in SUBSET (0 .. N) /\ N \in 0 .. N
    OBVIOUS
  <2> HIDE DEF G
  <2>2. QED
    BY <1>1, <1>2, <2>1, StepByStep
<1>4. QED
  BY <1>3

\* Where any two elements come one before the other, each of the ranks from 0
\* is taken by one element, and those before have the smaller ranks.
THEOREM RankedOnce ==
    ASSUME NEW S, IsFiniteSet(S), NEW before \in [S -> SUBSET S],
           \A t \in S : t \notin before[t],
           \A t, u \in S : t # u => t \in before[u] \/ u \in before[t],
           \A t, u \in S : t \in before[u] => before[t] \subseteq before[u]
    PROVE  /\ \A t \in S : Cardinality(before[t]) \in 0 .. Cardinality(S) - 1
           /\ \A t, u \in S : t \in before[u] <=>
                Cardinality(before[t]) < Cardinality(before[u])
           /\ \A n \in 0 .. Cardinality(S) - 1 :
                \E t \in S : Cardinality(before[t]) = n
<1> DEFINE N == Cardinality(S)
           ranks == 0 .. N - 1
           rank == [t \in S |-> Cardinality(before[t])]
<1>1. \A T \in SUBSET S : IsFiniteSet(T) /\ Cardinality(T) \in Nat
  BY FS_Subset, FS_CardinalityType
<1>2. ASSUME NEW T \in SUBSET S, NEW U \in SUBSET S, NEW t \in U,
             T \subseteq U, t \notin T
      PROVE  Cardinality(T) < Cardinality(U)
  <2>1. Cardinality(T \cup {t}) = Cardinality(T) + 1
    BY <1>1, <1>2, FS_AddElement
  <2>2. Cardinality(T \cup {t}) <= Cardinality(U)
    BY <1>1, <1>2, FS_Subset
  <2>3. Cardinality(T) \in Nat /\ Cardinality(U) \in Nat
    BY <1>1
  <2>4. QED
    BY <2>1, <2>2, <2>3
<1>3. \A t \in S : rank[t] \in Nat /\ rank[t] < N
  BY <1>1, <1>2
<1>4. N \in Nat
  BY <1>1
<1>5. \A t, u \in S : t \in before[u] => rank[t] < rank[u]
  BY <1>2
<1> HIDE DEF N, rank
<1>6. \A t, u \in S : t \in before[u] <=> rank[t] < rank[u]
  BY <1>3, <1>5
<1>7. rank \in [S -> ranks]
  <2>1. DOMAIN rank = S /\ rank = [t \in S |-> rank[t]]
    BY DEF rank
  <2>2. QED
    BY <1>3, <1>4, <2>1
<1>8. rank \in Injection(S, ranks)
  <2>1. \A t, u \in S : rank[t] = rank[u] => t = u
    BY <1>3, <1>6
  <2>2. QED
    BY <1>7, <2>1 DEF Injection, IsInjective
<1>9. rank \in Surjection(S, ranks)
  <2>1. IsFiniteSet(ranks) /\ Cardinality(ranks) = N
    BY <1>4, FS_Interval
  <2> HIDE DEF ranks
  <2>2. QED
    BY <1>8, <2>1, FS_Injection, FS_Subset DEF N, Surjection, Injection
<1>10. QED
  BY <1>3, <1>4, <1>6, <1>9 DEF N, rank, Surjection
===============================================================================
