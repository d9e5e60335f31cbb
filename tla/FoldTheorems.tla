---------------------------- MODULE FoldTheorems ----------------------------
(***************************************************************************)
(* Induction and recursion over data, without operators as parameters.     *)
(*                                                                         *)
(* The induction theorems of the library take the property as an operator, *)
(* P(_), which no backend can instantiate.  Here the property is the SET   *)
(* of those values that have it, and a recursive definition is given by    *)
(* functions: both are plain parameters.  The theorems below are what the  *)
(* proofs about the folds of the models rest on.                           *)
(***************************************************************************)
EXTENDS Integers, FiniteSetsExt, FiniteSetTheorems, WellFoundedInduction, TLAPS

\* Induction on the natural numbers, for a set S of numbers.
THEOREM NatSetInduction ==
  ASSUME NEW S, 0 \in S, \A n \in Nat : n \in S => n + 1 \in S
  PROVE  \A n \in Nat : n \in S
<1> DEFINE Out == Nat \ S
           Less == {p \in Nat \X Nat : p[1] < p[2]}
<1> SUFFICES ASSUME Out # {} PROVE FALSE
  OBVIOUS
<1>1. IsWellFoundedOn(Less, Nat)
  <2>1. Less = OpToRel(<, Nat)
    BY Zenon DEF OpToRel
  <2> QED BY <2>1, NatLessThanWellFounded
<1>2. PICK n \in Out : \A m \in Out : <<m, n>> \notin Less
  <2>1. Out \subseteq Nat
    OBVIOUS
  <2> HIDE DEF Out, Less
  <2> QED BY <1>1, <2>1, WFMin
<1>3. n \in Nat /\ n # 0 /\ n - 1 \in Nat
  BY <1>2
<1>4. n - 1 \in S
  <2>1. <<n - 1, n>> \in Less
    BY <1>3
  <2>2. n - 1 \notin Out
    <3> HIDE DEF Out, Less
    <3> QED BY <1>2, <2>1
  <2> QED BY <1>3, <2>2
<1>5. n \in S
  BY <1>3, <1>4
<1> QED BY <1>5

\* Induction on the subsets of a finite set, for a set P of sets.
THEOREM SubsetInduction ==
  ASSUME NEW S, IsFiniteSet(S), NEW P, {} \in P,
         \A T \in SUBSET S : T # {} /\ (\A x \in T : T \ {x} \in P) => T \in P
  PROVE  \A T \in SUBSET S : T \in P
<1> DEFINE Sizes == {n \in Nat : \A T \in SUBSET S : Cardinality(T) = n => T \in P}
<1>1. \A T \in SUBSET S : IsFiniteSet(T) /\ Cardinality(T) \in Nat
  BY FS_Subset, FS_CardinalityType
<1>2. 0 \in Sizes
  BY <1>1, FS_EmptySet
<1>3. ASSUME NEW n \in Nat, n \in Sizes PROVE n + 1 \in Sizes
  <2> SUFFICES ASSUME NEW T \in SUBSET S, Cardinality(T) = n + 1 PROVE T \in P
    OBVIOUS
  <2>1. T # {}
    <3>1. Cardinality(T) # 0
      OBVIOUS
    <3> QED BY <3>1, FS_EmptySet
  <2>2. \A x \in T : Cardinality(T \ {x}) = n
    BY <1>1, FS_RemoveElement
  <2> QED BY <1>3, <2>1, <2>2
<1>4. \A n \in Nat : n \in Sizes
  <2> HIDE DEF Sizes
  <2> QED BY <1>2, <1>3, NatSetInduction
<1> QED BY <1>1, <1>4

\* f is the fold of the subsets of S: each value follows from the element picked
\* and the fold of the others.
IsFold(f, S, base, pick, step) ==
  \A s \in SUBSET S :
    f[s] = IF s = {} THEN base ELSE step[<<pick[s], f[s \ {pick[s]}]>>]

\* Every finite set has one.
THEOREM FoldExists ==
  ASSUME NEW S, IsFiniteSet(S), NEW V, NEW base \in V,
         NEW pick \in [(SUBSET S) \ {{}} -> S],
         \A s \in (SUBSET S) \ {{}} : pick[s] \in s,
         NEW step \in [S \X V -> V]
  PROVE  \E f \in [SUBSET S -> V] : IsFold(f, S, base, pick, step)
<1> DEFINE Value(f, s) == IF s = {} THEN base ELSE step[<<pick[s], f[s \ {pick[s]}]>>]
           Folds(n) == {f \in [SUBSET S -> V] :
                          \A s \in SUBSET S : Cardinality(s) <= n => f[s] = Value(f, s)}
           Sizes == {n \in Nat : Folds(n) # {}}
<1>1. \A s \in SUBSET S : IsFiniteSet(s) /\ Cardinality(s) \in Nat
  BY FS_Subset, FS_CardinalityType
<1>2. 0 \in Sizes
  <2> DEFINE f == [s \in SUBSET S |-> base]
  <2>1. f \in Folds(0)
    BY <1>1, FS_EmptySet
  <2> QED BY <2>1
<1>3. ASSUME NEW n \in Nat, n \in Sizes PROVE n + 1 \in Sizes
  <2>1. PICK f \in Folds(n) : TRUE
    BY <1>3
  <2> DEFINE g == [s \in SUBSET S |-> Value(f, s)]
  <2>2. \A s \in SUBSET S : s # {} =>
          /\ pick[s] \in S /\ s \ {pick[s]} \in SUBSET S
          /\ Cardinality(s \ {pick[s]}) = Cardinality(s) - 1
    BY SMTT(30), <1>1, FS_RemoveElement
  <2>3. g \in [SUBSET S -> V]
    <3> SUFFICES ASSUME NEW s \in SUBSET S PROVE Value(f, s) \in V
      OBVIOUS
    <3>1. CASE s = {}
      BY <3>1
    <3>2. CASE s # {}
      <4>1. f[s \ {pick[s]}] \in V /\ pick[s] \in S
        BY <2>2, <3>2
      <4> QED BY <3>2, <4>1
    <3> QED BY <3>1, <3>2
  <2>4. ASSUME NEW s \in SUBSET S, Cardinality(s) <= n + 1 PROVE g[s] = Value(g, s)
    <3>1. CASE s = {}
      BY <3>1
    <3>2. CASE s # {}
      <4> DEFINE t == s \ {pick[s]}
      <4>1. t \in SUBSET S /\ Cardinality(t) <= n
        BY <1>1, <2>2, <2>4, <3>2
      <4>2. g[t] = f[t]
        BY <4>1
      <4> QED BY <3>2, <4>2
    <3> QED BY <3>1, <3>2
  <2>5. g \in Folds(n + 1)
    <3> HIDE DEF g
    <3> QED BY <2>3, <2>4
  <2> HIDE DEF Folds
  <2> QED BY <2>5
<1>4. Cardinality(S) \in Sizes
  <2>1. Cardinality(S) \in Nat
    BY <1>1
  <2> HIDE DEF Sizes
  <2> QED BY <1>2, <1>3, <2>1, NatSetInduction
<1>5. PICK f \in Folds(Cardinality(S)) : TRUE
  BY <1>4
<1>6. \A s \in SUBSET S : f[s] = Value(f, s)
  BY <1>5, FS_Subset
<1> QED BY <1>5, <1>6 DEF IsFold

\* A nonempty set of numbers below a bound has a greatest one.
LEMMA MaxIsIn ==
  ASSUME NEW n \in Nat, NEW s \in SUBSET (1 .. n), s # {}
  PROVE  Max(s) \in s /\ \A x \in s : x <= Max(s)
<1> DEFINE S == 1 .. n
           Tops == {T \in SUBSET S : T # {} => \E x \in T : \A y \in T : x >= y}
<1>1. ASSUME NEW T \in SUBSET S, T # {}, \A x \in T : T \ {x} \in Tops
      PROVE  T \in Tops
  <2>1. PICK x \in T : TRUE
    BY <1>1
  <2>2. CASE T = {x}
    <3>1. x \in Int
      BY <2>1
    <3>2. \A y \in T : x >= y
      BY <2>2, <3>1
    <3> QED BY <2>1, <3>2
  <2>3. CASE T # {x}
    <3>1. PICK z \in T \ {x} : \A y \in T \ {x} : z >= y
      BY <1>1, <2>1, <2>3
    <3>2. x \in Int /\ z \in Int
      OBVIOUS
    <3>3. (\A y \in T : z >= y) \/ (\A y \in T : x >= y)
      BY <3>1, <3>2
    <3> QED BY <2>1, <3>1, <3>3
  <2> QED BY <2>2, <2>3
<1>2. \A T \in SUBSET S : T \in Tops
  <2>1. IsFiniteSet(S) /\ {} \in Tops
    BY FS_Interval
  <2> HIDE DEF Tops, S
  <2> QED BY <1>1, <2>1, SubsetInduction
<1>3. \E x \in s : \A y \in s : x >= y
  BY <1>2
<1>4. Max(s) \in s /\ \A y \in s : Max(s) >= y
  BY <1>3, Zenon DEF Max
<1>5. \A x \in s : x \in Int
  OBVIOUS
<1> QED BY <1>4, <1>5

\* The last of the first k positions, and those before it.
LEMMA MaxOfPrefix ==
  ASSUME NEW n \in Nat, NEW k \in 1 .. n
  PROVE  Max(1 .. k) = k /\ (1 .. k) \ {k} = 1 .. (k - 1)
<1>1. 1 .. k \in SUBSET (1 .. n) /\ k \in 1 .. k
  OBVIOUS
<1>2. Max(1 .. k) \in 1 .. k /\ k <= Max(1 .. k)
  BY <1>1, MaxIsIn
<1>3. Max(1 .. k) = k
  BY <1>2
<1> QED BY <1>3

\* The fold of a sequence of n items: f[1 .. k] is what the first k of them give.
\* FoldLeft is defined by such a function, on sets of positions.
IsSeqFold(f, n, base, step) ==
  \A s \in SUBSET (1 .. n) :
    f[s] = IF s = {} THEN base ELSE step[<<Max(s), f[s \ {Max(s)}]>>]

\* Every sequence has one, whatever it is folded to.
THEOREM SeqFoldExists ==
  ASSUME NEW n \in Nat, NEW V, NEW base \in V, NEW step \in [(1 .. n) \X V -> V]
  PROVE  \E f \in [SUBSET (1 .. n) -> V] : IsSeqFold(f, n, base, step)
<1> DEFINE S == 1 .. n
           pick == [s \in (SUBSET S) \ {{}} |-> Max(s)]
<1>1. \A s \in (SUBSET S) \ {{}} : pick[s] = Max(s) /\ pick[s] \in s
  BY MaxIsIn
<1>2. pick \in [(SUBSET S) \ {{}} -> S]
  BY <1>1
<1>3. IsFiniteSet(S)
  BY FS_Interval
<1>4. PICK f \in [SUBSET S -> V] : IsFold(f, S, base, pick, step)
  <2> HIDE DEF pick, S
  <2>1. \A s \in (SUBSET S) \ {{}} : pick[s] \in s
    BY <1>1
  <2>2. step \in [S \X V -> V]
    BY DEF S
  <2> QED BY <1>2, <1>3, <2>1, <2>2, FoldExists
<1>5. IsSeqFold(f, n, base, step)
  BY <1>1, <1>4 DEF IsFold, IsSeqFold
<1> QED BY <1>5

\* g[k] is what the first k of n items have been folded to.
IsRun(g, n, V, base, step) ==
  /\ g \in [0 .. n -> V]
  /\ g[0] = base
  /\ \A k \in 1 .. n : g[k] = step[<<k, g[k - 1]>>]

InitialParts(f, n) == [k \in 0 .. n |-> f[1 .. k]]

\* f need not be known to have its values in V.
Unfolds(f, n, V, base, step) ==
  /\ f[{}] = base
  /\ \A s \in (SUBSET (1 .. n)) \ {{}} :
       f[s \ {Max(s)}] \in V => f[s] = step[<<Max(s), f[s \ {Max(s)}]>>]

\* The prefixes of the positions lead from the base to the fold of all items.
THEOREM SeqFoldRun ==
  ASSUME NEW n \in Nat, NEW V, NEW base \in V, NEW step \in [(1 .. n) \X V -> V],
         NEW f, Unfolds(f, n, V, base, step)
  PROVE  IsRun(InitialParts(f, n), n, V, base, step)
<1> DEFINE g == InitialParts(f, n)
<1>1. g[0] = base
  <2>1. 1 .. 0 = {} /\ 0 \in 0 .. n
    OBVIOUS
  <2> QED BY <2>1 DEF Unfolds, InitialParts
<1>2. ASSUME NEW k \in 1 .. n, g[k - 1] \in V PROVE g[k] = step[<<k, g[k - 1]>>]
  <2>1. Max(1 .. k) = k /\ (1 .. k) \ {k} = 1 .. (k - 1)
    BY MaxOfPrefix
  <2>2. 1 .. k \in (SUBSET (1 .. n)) \ {{}} /\ k \in 0 .. n /\ k - 1 \in 0 .. n
    OBVIOUS
  <2>3. g[k] = f[1 .. k] /\ g[k - 1] = f[1 .. (k - 1)]
    BY <2>2 DEF InitialParts
  <2> QED BY <1>2, <2>1, <2>2, <2>3 DEF Unfolds
<1> DEFINE Typed == {k \in Nat : k <= n => g[k] \in V}
<1>3. \A k \in Nat : k \in Typed
  <2>1. 0 \in Typed
    BY <1>1
  <2>2. ASSUME NEW k \in Nat, k \in Typed PROVE k + 1 \in Typed
    <3> SUFFICES ASSUME k + 1 <= n PROVE g[k + 1] \in V
      OBVIOUS
    <3>1. k + 1 \in 1 .. n /\ (k + 1) - 1 = k /\ g[k] \in V
      BY <2>2
    <3> HIDE DEF g
    <3>2. g[k + 1] = step[<<k + 1, g[k]>>]
      BY <1>2, <3>1
    <3> QED BY <3>1, <3>2
  <2> HIDE DEF Typed
  <2> QED BY <2>1, <2>2, NatSetInduction
<1>4. \A k \in 0 .. n : g[k] \in V
  <2>1. \A k \in 0 .. n : k \in Nat /\ k <= n
    OBVIOUS
  <2> HIDE DEF g
  <2> QED BY <1>3, <2>1
<1>5. g \in [0 .. n -> V]
  BY <1>4 DEF InitialParts
<1>6. \A k \in 1 .. n : k - 1 \in 0 .. n
  OBVIOUS
<1> HIDE DEF g
<1>7. IsRun(g, n, V, base, step)
  BY <1>1, <1>2, <1>4, <1>5, <1>6 DEF IsRun
<1> QED BY <1>7 DEF g

----------------------------------------------------------------------------
(***************************************************************************)
(* Sums: what FoldFunctionOnSet(+, 0, f, S) computes.                      *)
(***************************************************************************)

Pick(s) == CHOOSE x \in s : TRUE

\* sum holds the partial sums, which take one element after the other.
PartialSums(sum, f, S) ==
  /\ sum[S] = SumFunctionOnSet(f, S)
  /\ sum[{}] = 0
  /\ \A s \in SUBSET S : s # {} => sum[s] = f[Pick(s)] + sum[s \ {Pick(s)}]

\* A sum over a finite set is made of such partial sums.
THEOREM SumUnrolled ==
  ASSUME NEW S, IsFiniteSet(S), NEW f, \A x \in S : f[x] \in Int
  PROVE  \E sum \in [SUBSET S -> Int] : PartialSums(sum, f, S)
<1> DEFINE pick == [s \in (SUBSET S) \ {{}} |-> CHOOSE x \in s : TRUE]
           step == [p \in S \X Int |-> f[p[1]] + p[2]]
           Sum(g) == g = [s \in SUBSET S |-> IF s = {} THEN 0 ELSE
                           f[CHOOSE x \in s : TRUE] + g[s \ {CHOOSE x \in s : TRUE}]]
           sum == CHOOSE g : Sum(g)
<1>1. \A s \in (SUBSET S) \ {{}} : pick[s] \in s /\ pick[s] \in S
  OBVIOUS
<1>2. pick \in [(SUBSET S) \ {{}} -> S] /\ step \in [S \X Int -> Int]
  BY <1>1
<1>3. PICK g \in [SUBSET S -> Int] : \A s \in SUBSET S :
        g[s] = IF s = {} THEN 0 ELSE step[<<pick[s], g[s \ {pick[s]}]>>]
  <2>1. 0 \in Int
    OBVIOUS
  <2>2. \A s \in (SUBSET S) \ {{}} : pick[s] \in s
    BY <1>1
  <2>3. pick \in [(SUBSET S) \ {{}} -> S] /\ step \in [S \X Int -> Int]
    BY <1>2
  <2> HIDE DEF pick, step
  <2>4. \E g \in [SUBSET S -> Int] : IsFold(g, S, 0, pick, step)
    BY <2>1, <2>2, <2>3, FoldExists
  <2> QED BY <2>4 DEF IsFold
<1>4. Sum(g)
  <2> SUFFICES ASSUME NEW s \in SUBSET S, s # {}
               PROVE  g[s] = f[CHOOSE x \in s : TRUE] + g[s \ {CHOOSE x \in s : TRUE}]
    BY <1>3
  <2>1. pick[s] = (CHOOSE x \in s : TRUE) /\ pick[s] \in S
    BY <1>1
  <2>2. g[s] = f[pick[s]] + g[s \ {pick[s]}]
    BY <1>3, <2>1
  <2> QED BY <2>1, <2>2
<1>5. Sum(sum)
  BY <1>4, Zenon
<1>6. sum[S] = SumFunctionOnSet(f, S)
  BY Zenon DEF SumFunctionOnSet, FoldFunctionOnSet, MapThenFoldSet
<1> HIDE DEF sum
<1>7. \A s \in SUBSET S : s # {} => Pick(s) \in s /\ sum[s] = f[Pick(s)] + sum[s \ {Pick(s)}]
  BY <1>5 DEF Pick
<1>8. sum[{}] = 0
  BY <1>5
<1> DEFINE Ints == {s \in SUBSET S : sum[s] \in Int}
<1>9. ASSUME NEW T \in SUBSET S, T # {}, \A x \in T : T \ {x} \in Ints PROVE T \in Ints
  <2>1. Pick(T) \in T /\ sum[T] = f[Pick(T)] + sum[T \ {Pick(T)}]
    BY <1>7, <1>9
  <2>2. f[Pick(T)] \in Int /\ sum[T \ {Pick(T)}] \in Int
    BY <1>9, <2>1
  <2> QED BY <2>1, <2>2
<1>10. \A s \in SUBSET S : s \in Ints
  <2>1. {} \in Ints
    BY <1>8
  <2> HIDE DEF Ints
  <2> QED BY <1>9, <2>1, SubsetInduction
<1>11. sum \in [SUBSET S -> Int]
  BY <1>5, <1>10
<1> QED BY <1>6, <1>7, <1>8, <1>11 DEF PartialSums

\* A sum of integers is an integer.
THEOREM SumIsInt ==
  ASSUME NEW S, IsFiniteSet(S), NEW f, \A x \in S : f[x] \in Int
  PROVE  SumFunctionOnSet(f, S) \in Int
<1>1. PICK sum \in [SUBSET S -> Int] : PartialSums(sum, f, S)
  BY SumUnrolled
<1> QED BY <1>1 DEF PartialSums

\* The sum of zeros.
THEOREM SumOfZeros ==
  ASSUME NEW S, IsFiniteSet(S), NEW f, \A x \in S : f[x] = 0
  PROVE  SumFunctionOnSet(f, S) = 0
<1>1. PICK sum \in [SUBSET S -> Int] : PartialSums(sum, f, S)
  <2>1. \A x \in S : f[x] \in Int
    OBVIOUS
  <2> QED BY <2>1, SumUnrolled
<1> DEFINE Zeros == {s \in SUBSET S : sum[s] = 0}
<1>2. {} \in Zeros
  BY <1>1 DEF PartialSums
<1>3. ASSUME NEW T \in SUBSET S, T # {}, \A x \in T : T \ {x} \in Zeros PROVE T \in Zeros
  <2>1. Pick(T) \in T
    BY <1>3 DEF Pick
  <2>2. sum[T] = f[Pick(T)] + sum[T \ {Pick(T)}]
    BY <1>1, <1>3 DEF PartialSums
  <2> QED BY <1>3, <2>1, <2>2
<1>4. S \in Zeros
  <2> HIDE DEF Zeros
  <2> QED BY <1>2, <1>3, SubsetInduction
<1> QED BY <1>1, <1>4 DEF PartialSums

\* The sum of numbers that are all at most b.
THEOREM SumBounded ==
  ASSUME NEW S, IsFiniteSet(S), NEW b \in Nat,
         NEW f, \A x \in S : f[x] \in Int /\ f[x] <= b
  PROVE  SumFunctionOnSet(f, S) <= Cardinality(S) * b
<1>1. PICK sum \in [SUBSET S -> Int] : PartialSums(sum, f, S)
  BY SumUnrolled
<1> DEFINE Below == {s \in SUBSET S : sum[s] <= Cardinality(s) * b}
<1>2. {} \in Below
  BY <1>1, FS_EmptySet DEF PartialSums
<1>3. ASSUME NEW T \in SUBSET S, T # {}, \A x \in T : T \ {x} \in Below PROVE T \in Below
  <2> DEFINE x == Pick(T)
             c == Cardinality(T \ {x})
  <2>1. x \in T
    BY <1>3 DEF Pick
  <2>2. sum[T] = f[x] + sum[T \ {x}] /\ sum[T \ {x}] <= c * b
    BY <1>1, <1>3, <2>1 DEF PartialSums
  <2>3. IsFiniteSet(T) /\ c \in Nat /\ Cardinality(T) = c + 1
    BY <2>1, FS_Subset, FS_RemoveElement, FS_CardinalityType
  <2>4. f[x] \in Int /\ f[x] <= b /\ sum[T \ {x}] \in Int
    BY <1>1, <2>1
  <2>5. (c + 1) * b = c * b + b /\ c * b \in Int
    <3> HIDE DEF c
    <3> QED BY <2>3
  <2>6. sum[T] <= (c + 1) * b
    <3> HIDE DEF c, x
    <3> QED BY <2>2, <2>3, <2>4, <2>5
  <2> QED BY <2>3, <2>6
<1>4. S \in Below
  <2> HIDE DEF Below
  <2> QED BY <1>2, <1>3, SubsetInduction
<1> QED BY <1>1, <1>4 DEF PartialSums

\* A sum changes by as much as one of its numbers.
THEOREM SumUpdated ==
  ASSUME NEW S, IsFiniteSet(S), NEW f, NEW g, NEW y,
         \A x \in S : f[x] \in Int /\ g[x] \in Int /\ (x # y => g[x] = f[x])
  PROVE  SumFunctionOnSet(g, S) =
           SumFunctionOnSet(f, S) + (IF y \in S THEN g[y] - f[y] ELSE 0)
<1>1. PICK sumf \in [SUBSET S -> Int] : PartialSums(sumf, f, S)
  BY SumUnrolled
<1>2. PICK sumg \in [SUBSET S -> Int] : PartialSums(sumg, g, S)
  BY SumUnrolled
<1> DEFINE Agree == {s \in SUBSET S : sumg[s] = sumf[s] + (IF y \in s THEN g[y] - f[y] ELSE 0)}
<1>3. {} \in Agree
  BY <1>1, <1>2 DEF PartialSums
<1>4. ASSUME NEW T \in SUBSET S, T # {}, \A x \in T : T \ {x} \in Agree PROVE T \in Agree
  <2> DEFINE x == Pick(T)
  <2>1. x \in T /\ T \ {x} \in SUBSET S
    BY <1>4 DEF Pick
  <2> HIDE DEF x
  <2>2. sumf[T] = f[x] + sumf[T \ {x}] /\ sumg[T] = g[x] + sumg[T \ {x}]
    BY <1>1, <1>2, <1>4 DEF x, PartialSums
  <2>3. sumg[T \ {x}] = sumf[T \ {x}] + (IF y \in T \ {x} THEN g[y] - f[y] ELSE 0)
    BY <1>4, <2>1
  <2>4. f[x] \in Int /\ g[x] \in Int /\ sumf[T \ {x}] \in Int /\ sumg[T \ {x}] \in Int
    BY <1>1, <1>2, <2>1
  <2>5. CASE x = y
    BY <2>1, <2>2, <2>3, <2>4, <2>5
  <2>6. CASE x # y
    <3>1. g[x] = f[x]
      BY <2>1, <2>6
    <3>2. y \in T <=> y \in T \ {x}
      BY <2>6
    <3>3. CASE y \in T
      BY <2>1, <2>2, <2>3, <2>4, <3>1, <3>2, <3>3
    <3>4. CASE y \notin T
      BY <2>1, <2>2, <2>3, <2>4, <3>1, <3>2, <3>4
    <3> QED BY <3>3, <3>4
  <2> QED BY <2>5, <2>6
<1>5. S \in Agree
  <2> HIDE DEF Agree
  <2> QED BY <1>3, <1>4, SubsetInduction
<1> QED BY <1>1, <1>2, <1>5 DEF PartialSums
=============================================================================
