---------------------------- MODULE PartsProofs ----------------------------
(***************************************************************************)
(* TLAPS proofs about the parts that Frames is composed of: Starters, for  *)
(* every set of connections and ids, any finite number of requests and any *)
(* number of slots, and Cart, for any products, lists and requests.        *)
(***************************************************************************)
EXTENDS Starters, Cart, SequenceTheorems, FiniteSetTheorems, WellFoundedInduction, TLAPS

----------------------------------------------------------------------------
(* Induction over the subsets of a finite set, by well-foundedness: the set*)
(* that all are shown to be in takes the place of the predicate.           *)

\* A set of subsets of a finite set that has each of which it has all smaller
\* ones has the set itself.
LEMMA SubsetInduction ==
  ASSUME NEW S, IsFiniteSet(S), NEW P,
         \A T \in SUBSET S : (\A U \in SUBSET T : U # T => U \in P) => T \in P
  PROVE  S \in P
<1> SUFFICES ASSUME S \notin P PROVE FALSE
  OBVIOUS
<1> DEFINE R == StrictSubsetOrdering(S)
           Bad == (SUBSET S) \ P
<1>1. IsWellFoundedOn(R, SUBSET S)
  <2>1. IsWellFoundedOn(R, FiniteSubsetsOf(S))
    BY FS_StrictSubsetOrderingWellFounded
  <2>2. FiniteSubsetsOf(S) = SUBSET S
    BY FS_FiniteSubsetsOfFinite
  <2> QED BY <2>1, <2>2
<1>2. PICK T \in Bad : \A U \in Bad : <<U, T>> \notin R
  <2>1. Bad \subseteq SUBSET S /\ Bad # {}
    OBVIOUS
  <2> HIDE DEF R, Bad
  <2> QED BY <1>1, <2>1, WFMin
<1>3. ASSUME NEW U \in SUBSET T, U # T PROVE U \in P
  BY <1>2, <1>3 DEF StrictSubsetOrdering
<1>4. T \in SUBSET S /\ T \notin P
  BY <1>2
<1> QED BY <1>3, <1>4

\* Adding element after element.
LEMMA FiniteInduction ==
  ASSUME NEW S, IsFiniteSet(S), NEW P, {} \in P,
         \A T \in SUBSET S : \A x \in S \ T : T \in P => T \cup {x} \in P
  PROVE  S \in P
<1>1. ASSUME NEW T \in SUBSET S, \A U \in SUBSET T : U # T => U \in P PROVE T \in P
  <2>1. CASE T = {}
    BY <2>1
  <2>2. CASE T # {}
    <3>1. PICK x : x \in T
      BY <2>2
    <3>2. T \ {x} \in P /\ T = (T \ {x}) \cup {x} /\ x \in S \ (T \ {x})
      BY <1>1, <3>1
    <3> QED BY <3>1, <3>2
  <2> QED BY <2>1, <2>2
<1> QED BY <1>1, SubsetInduction

\* A finite set of numbers has a smallest and a largest.
LEMMA Bounds ==
  ASSUME NEW S, S \subseteq Int, IsFiniteSet(S), S # {}
  PROVE  Min(S) \in S /\ Max(S) \in S
<1> DEFINE P == {T \in SUBSET S : T = {} \/
                   /\ \E m \in T : \A y \in T : m =< y
                   /\ \E m \in T : \A y \in T : m >= y}
<1>1. ASSUME NEW T \in SUBSET S, NEW x \in S \ T, T \in P PROVE T \cup {x} \in P
  <2>1. CASE T = {}
    BY <2>1
  <2>2. CASE T # {}
    <3>1. PICK m \in T : \A y \in T : m =< y
      BY <1>1, <2>2
    <3>2. PICK n \in T : \A y \in T : n >= y
      BY <1>1, <2>2
    <3>3. \E k \in T \cup {x} : \A y \in T \cup {x} : k =< y
      <4>1. CASE x =< m
        BY <3>1, <4>1
      <4>2. CASE m =< x
        BY <3>1, <4>2
      <4> QED BY <4>1, <4>2
    <3>4. \E k \in T \cup {x} : \A y \in T \cup {x} : k >= y
      <4>1. CASE x >= n
        BY <3>2, <4>1
      <4>2. CASE n >= x
        BY <3>2, <4>2
      <4> QED BY <4>1, <4>2
    <3> QED BY <3>3, <3>4
  <2> QED BY <2>1, <2>2
<1>2. S \in P
  <2>1. {} \in P
    OBVIOUS
  <2> HIDE DEF P
  <2> QED BY <1>1, <2>1, FiniteInduction
<1> QED BY <1>2 DEF Min, Max

----------------------------------------------------------------------------
(* SumFunctionOnSet is a fold: a function that its steps determine.        *)

Some(s) == CHOOSE x \in s : TRUE
IsSum(f, S, g) ==
  g = [s \in SUBSET S |-> IF s = {} THEN 0 ELSE f[Some(s)] + g[s \ {Some(s)}]]

LEMMA SumIs ==
  ASSUME NEW f, NEW S
  PROVE  SumFunctionOnSet(f, S) = (CHOOSE g : IsSum(f, S, g))[S]
BY DEF SumFunctionOnSet, FoldFunctionOnSet, MapThenFoldSet, IsSum, Some

LEMMA SomeIn == ASSUME NEW s, s # {} PROVE Some(s) \in s
BY DEF Some

LEMMA SumUnique ==
  ASSUME NEW f, NEW S, IsFiniteSet(S), NEW T, S \subseteq T, NEW g, IsSum(f, S, g),
         NEW h, IsSum(f, T, h)
  PROVE  g[S] = h[S]
<1> DEFINE P == {U \in SUBSET S : g[U] = h[U]}
<1>1. ASSUME NEW U \in SUBSET S, \A V \in SUBSET U : V # U => V \in P PROVE U \in P
  <2>1. CASE U = {}
    BY <2>1 DEF IsSum
  <2>2. CASE U # {}
    <3>1. Some(U) \in U
      BY <2>2, SomeIn
    <3>2. g[U \ {Some(U)}] = h[U \ {Some(U)}]
      BY <1>1, <3>1
    <3>3. g[U] = f[Some(U)] + g[U \ {Some(U)}]
      BY <2>2 DEF IsSum
    <3>4. h[U] = f[Some(U)] + h[U \ {Some(U)}]
      <4>1. U \in SUBSET T
        OBVIOUS
      <4> QED BY <2>2, <4>1 DEF IsSum
    <3> QED BY <3>2, <3>3, <3>4
  <2> QED BY <2>1, <2>2
<1>2. S \in P
  <2> HIDE DEF P
  <2> QED BY <1>1, SubsetInduction
<1> QED BY <1>2

LEMMA SumExists ==
  ASSUME NEW f, NEW S, IsFiniteSet(S)
  PROVE  \E g : IsSum(f, S, g)
<1> DEFINE P == {T \in SUBSET S : \E g : IsSum(f, T, g)}
           It(s) == CHOOSE g : IsSum(f, s, g)
<1>1. ASSUME NEW T \in SUBSET S, \A U \in SUBSET T : U # T => U \in P PROVE T \in P
  <2> DEFINE V(s) == It(s)[s]
             g == [s \in SUBSET T |-> IF s = {} THEN 0 ELSE f[Some(s)] + V(s \ {Some(s)})]
  <2>1. ASSUME NEW U \in SUBSET T, U # T PROVE IsSum(f, U, It(U)) /\ IsFiniteSet(U)
    BY <1>1, <2>1, FS_Subset
  <2>2. ASSUME NEW U \in SUBSET T, U # T PROVE g[U] = V(U)
    <3>1. CASE U = {}
      <4>1. IsSum(f, U, It(U)) /\ U \in SUBSET U
        BY <2>1, <2>2
      <4> HIDE DEF It
      <4>2. It(U)[U] = 0
        BY <3>1, <4>1 DEF IsSum
      <4> QED BY <3>1, <4>2
    <3>2. CASE U # {}
      <4> DEFINE W == U \ {Some(U)}
      <4>1. W \in SUBSET T /\ W # T /\ W \subseteq U
        BY <2>2, <3>2, SomeIn
      <4>2. V(W) = It(U)[W]
        <5>1. IsSum(f, W, It(W)) /\ IsFiniteSet(W) /\ IsSum(f, U, It(U))
          BY <2>1, <2>2, <4>1
        <5> HIDE DEF It, W
        <5> QED BY <4>1, <5>1, SumUnique
      <4>3. It(U)[U] = f[Some(U)] + It(U)[W]
        <5>1. IsSum(f, U, It(U))
          BY <2>1, <2>2
        <5> HIDE DEF It
        <5> QED BY <3>2, <5>1 DEF IsSum
      <4> HIDE DEF It
      <4> QED BY <3>2, <4>2, <4>3
    <3> QED BY <3>1, <3>2
  <2>3. ASSUME NEW s \in SUBSET T, s # {} PROVE g[s \ {Some(s)}] = V(s \ {Some(s)})
    BY <2>2, <2>3, SomeIn
  <2>4. IsSum(f, T, g)
    <3> HIDE DEF V
    <3>1. \A s \in SUBSET T : g[s] = IF s = {} THEN 0 ELSE f[Some(s)] + g[s \ {Some(s)}]
      BY <2>3
    <3> QED BY <3>1 DEF IsSum
  <2> HIDE DEF g
  <2> QED BY <2>4
<1>2. S \in P
  <2> HIDE DEF P
  <2> QED BY <1>1, SubsetInduction
<1> QED BY <1>2

LEMMA SumStep ==
  ASSUME NEW f, NEW S, IsFiniteSet(S)
  PROVE  SumFunctionOnSet(f, S) =
           IF S = {} THEN 0
           ELSE f[Some(S)] + SumFunctionOnSet(f, S \ {Some(S)})
<1> DEFINE It(s) == CHOOSE g : IsSum(f, s, g)
<1>1. \A T \in SUBSET S : IsFiniteSet(T) /\ IsSum(f, T, It(T)) /\ SumFunctionOnSet(f, T) = It(T)[T]
  <2> SUFFICES ASSUME NEW T \in SUBSET S
               PROVE  IsFiniteSet(T) /\ IsSum(f, T, It(T)) /\ SumFunctionOnSet(f, T) = It(T)[T]
    OBVIOUS
  <2>1. IsFiniteSet(T)
    BY FS_Subset
  <2> QED BY <2>1, SumExists, SumIs
<1> HIDE DEF It
<1>2. CASE S = {}
  BY <1>1, <1>2 DEF IsSum
<1>3. CASE S # {}
  <2> DEFINE W == S \ {Some(S)}
  <2>1. W \in SUBSET S
    OBVIOUS
  <2>2. It(W)[W] = It(S)[W]
    <3> HIDE DEF W
    <3> QED BY <1>1, <2>1, SumUnique
  <2>3. It(S)[S] = f[Some(S)] + It(S)[W]
    BY <1>1, <1>3 DEF IsSum
  <2> QED BY <1>1, <1>3, <2>1, <2>2, <2>3
<1> QED BY <1>2, <1>3

LEMMA SumEmpty == ASSUME NEW f PROVE SumFunctionOnSet(f, {}) = 0
BY SumStep, FS_EmptySet

\* Functions that agree on the set have one sum there.
LEMMA SumSame ==
  ASSUME NEW S, IsFiniteSet(S), NEW f, NEW h, \A x \in S : f[x] = h[x]
  PROVE  SumFunctionOnSet(f, S) = SumFunctionOnSet(h, S)
<1> DEFINE P == {T \in SUBSET S : SumFunctionOnSet(f, T) = SumFunctionOnSet(h, T)}
<1>1. ASSUME NEW T \in SUBSET S, \A U \in SUBSET T : U # T => U \in P PROVE T \in P
  <2>1. IsFiniteSet(T)
    BY FS_Subset
  <2>2. CASE T = {}
    BY <2>2, SumEmpty
  <2>3. CASE T # {}
    <3>1. Some(T) \in T /\ T \ {Some(T)} \in P
      BY <1>1, <2>3, SomeIn
    <3> QED BY <2>1, <2>3, <3>1, SumStep
  <2> QED BY <2>2, <2>3
<1>2. S \in P
  <2> HIDE DEF P
  <2> QED BY <1>1, SubsetInduction
<1> QED BY <1>2

\* A sum of integers is one, and any element of the set may be taken out.
LEMMA SumTake ==
  ASSUME NEW S, IsFiniteSet(S), NEW f, \A x \in S : f[x] \in Int
  PROVE  /\ SumFunctionOnSet(f, S) \in Int
         /\ \A x \in S : SumFunctionOnSet(f, S) = f[x] + SumFunctionOnSet(f, S \ {x})
<1> DEFINE Sum(T) == SumFunctionOnSet(f, T)
           P == {T \in SUBSET S : Sum(T) \in Int /\ \A x \in T : Sum(T) = f[x] + Sum(T \ {x})}
<1>1. ASSUME NEW T \in SUBSET S, \A U \in SUBSET T : U # T => U \in P PROVE T \in P
  <2>1. CASE T = {}
    BY <2>1, SumEmpty
  <2>2. CASE T # {}
    <3> DEFINE y == Some(T)
    <3>1. y \in T /\ Sum(T) = f[y] + Sum(T \ {y})
      <4>1. IsFiniteSet(T)
        BY FS_Subset
      <4> QED BY <2>2, <4>1, SomeIn, SumStep
    <3> HIDE DEF y
    <3>2. \A U \in SUBSET T : U # T => Sum(U) \in Int /\ \A x \in U : Sum(U) = f[x] + Sum(U \ {x})
      BY <1>1
    <3>3. Sum(T) \in Int
      <4>1. Sum(T \ {y}) \in Int /\ f[y] \in Int
        BY <3>1, <3>2
      <4> HIDE DEF Sum
      <4> QED BY <3>1, <4>1
    <3>4. ASSUME NEW x \in T PROVE Sum(T) = f[x] + Sum(T \ {x})
      <4>1. CASE x = y
        BY <3>1, <4>1
      <4>2. CASE x # y
        <5> DEFINE W == (T \ {y}) \ {x}
        <5>1. Sum(T \ {y}) = f[x] + Sum(W)
          BY <3>1, <3>2, <4>2
        <5>2. Sum(T \ {x}) = f[y] + Sum(W)
          <6>1. y \in T \ {x} /\ T \ {x} # T /\ W = (T \ {x}) \ {y}
            BY <3>1, <4>2
          <6> QED BY <3>2, <6>1
        <5>3. f[x] \in Int /\ f[y] \in Int /\ Sum(W) \in Int
          <6>1. W \in SUBSET T /\ W # T
            BY <3>1
          <6> QED BY <3>1, <3>2, <6>1
        <5> HIDE DEF Sum, W
        <5> QED BY <3>1, <5>1, <5>2, <5>3
      <4> QED BY <4>1, <4>2
    <3> QED BY <3>3, <3>4
  <2> QED BY <2>1, <2>2
<1>2. S \in P
  <2> HIDE DEF P
  <2> QED BY <1>1, SubsetInduction
<1> QED BY <1>2

LEMMA SumAdds ==
  ASSUME NEW S, NEW x, x \notin S, IsFiniteSet(S), NEW f, \A k \in S \cup {x} : f[k] \in Int
  PROVE  /\ SumFunctionOnSet(f, S \cup {x}) = SumFunctionOnSet(f, S) + f[x]
         /\ SumFunctionOnSet(f, S) \in Int
<1>1. IsFiniteSet(S \cup {x}) /\ (S \cup {x}) \ {x} = S
  BY FS_AddElement
<1>2. SumFunctionOnSet(f, S \cup {x}) = f[x] + SumFunctionOnSet(f, S)
  BY <1>1, SumTake
<1>3. SumFunctionOnSet(f, S) \in Int /\ f[x] \in Int
  BY SumTake
<1> QED BY <1>2, <1>3

LEMMA SumUnion ==
  ASSUME NEW S, NEW T, IsFiniteSet(S), IsFiniteSet(T), S \cap T = {},
         NEW f, \A x \in S \cup T : f[x] \in Int
  PROVE  SumFunctionOnSet(f, S \cup T) = SumFunctionOnSet(f, S) + SumFunctionOnSet(f, T)
<1> DEFINE Sum(U) == SumFunctionOnSet(f, U)
           P == {U \in SUBSET T : Sum(S \cup U) = Sum(S) + Sum(U)}
<1>1. {} \in P
  <2>1. Sum(S) \in Int /\ Sum({}) = 0 /\ S \cup {} = S
    BY SumTake, SumEmpty
  <2> HIDE DEF Sum
  <2> QED BY <2>1
<1>2. ASSUME NEW U \in SUBSET T, NEW x \in T \ U, U \in P PROVE U \cup {x} \in P
  <2>1. IsFiniteSet(U) /\ IsFiniteSet(S \cup U)
    BY FS_Subset, FS_Union
  <2>2. Sum(U \cup {x}) = Sum(U) + f[x] /\ Sum(U) \in Int /\ f[x] \in Int
    BY <2>1, SumAdds
  <2>3. Sum((S \cup U) \cup {x}) = Sum(S \cup U) + f[x]
    BY <2>1, SumAdds
  <2>4. Sum(S) \in Int /\ Sum(S \cup U) = Sum(S) + Sum(U)
    BY <1>2, SumTake
  <2>5. (S \cup U) \cup {x} = S \cup (U \cup {x})
    OBVIOUS
  <2>6. Sum(S \cup (U \cup {x})) = Sum(S) + Sum(U \cup {x})
    <3> HIDE DEF Sum
    <3>1. Sum(S \cup (U \cup {x})) = Sum((S \cup U) \cup {x})
      BY <2>5, Zenon
    <3> QED BY <2>2, <2>3, <2>4, <3>1
  <2> QED BY <2>6
<1>3. T \in P
  <2> HIDE DEF P
  <2> QED BY <1>1, <1>2, FiniteInduction
<1> QED BY <1>3

\* Sums of smaller numbers.
LEMMA SumLess ==
  ASSUME NEW S, IsFiniteSet(S), NEW f, NEW h,
         \A x \in S : f[x] \in Int /\ h[x] \in Int /\ f[x] <= h[x]
  PROVE  SumFunctionOnSet(f, S) <= SumFunctionOnSet(h, S)
<1> DEFINE P == {T \in SUBSET S : SumFunctionOnSet(f, T) <= SumFunctionOnSet(h, T)}
<1>1. {} \in P
  BY SumEmpty
<1>2. ASSUME NEW T \in SUBSET S, NEW x \in S \ T, T \in P PROVE T \cup {x} \in P
  <2>1. IsFiniteSet(T)
    BY FS_Subset
  <2>2. /\ SumFunctionOnSet(f, T \cup {x}) = SumFunctionOnSet(f, T) + f[x]
        /\ SumFunctionOnSet(f, T) \in Int
    BY <2>1, SumAdds
  <2>3. /\ SumFunctionOnSet(h, T \cup {x}) = SumFunctionOnSet(h, T) + h[x]
        /\ SumFunctionOnSet(h, T) \in Int
    BY <2>1, SumAdds
  <2> QED BY <1>2, <2>2, <2>3
<1>3. S \in P
  <2> HIDE DEF P
  <2> QED BY <1>1, <1>2, FiniteInduction
<1> QED BY <1>3

LEMMA SumPlus ==
  ASSUME NEW S, IsFiniteSet(S), NEW f, NEW d, NEW h,
         \A x \in S : f[x] \in Int /\ d[x] \in Int /\ h[x] = f[x] + d[x]
  PROVE  SumFunctionOnSet(h, S) = SumFunctionOnSet(f, S) + SumFunctionOnSet(d, S)
<1> DEFINE P == {T \in SUBSET S :
        SumFunctionOnSet(h, T) = SumFunctionOnSet(f, T) + SumFunctionOnSet(d, T)}
<1>1. {} \in P
  BY SumEmpty
<1>2. ASSUME NEW T \in SUBSET S, NEW x \in S \ T, T \in P PROVE T \cup {x} \in P
  <2>1. IsFiniteSet(T) /\ \A k \in T \cup {x} : f[k] \in Int /\ d[k] \in Int /\ h[k] \in Int
    BY FS_Subset
  <2>2. /\ SumFunctionOnSet(f, T \cup {x}) = SumFunctionOnSet(f, T) + f[x]
        /\ SumFunctionOnSet(f, T) \in Int
    BY <2>1, SumAdds
  <2>3. /\ SumFunctionOnSet(d, T \cup {x}) = SumFunctionOnSet(d, T) + d[x]
        /\ SumFunctionOnSet(d, T) \in Int
    BY <2>1, SumAdds
  <2>4. SumFunctionOnSet(h, T \cup {x}) = SumFunctionOnSet(h, T) + h[x]
    BY <2>1, SumAdds
  <2> QED BY <1>2, <2>2, <2>3, <2>4
<1>3. S \in P
  <2> HIDE DEF P
  <2> QED BY <1>1, <1>2, FiniteInduction
<1> QED BY <1>3

LEMMA SumZero ==
  ASSUME NEW S, IsFiniteSet(S), NEW f, \A x \in S : f[x] = 0
  PROVE  SumFunctionOnSet(f, S) = 0
<1> DEFINE P == {T \in SUBSET S : SumFunctionOnSet(f, T) = 0}
<1>1. {} \in P
  BY SumEmpty
<1>2. ASSUME NEW T \in SUBSET S, NEW x \in S \ T, T \in P PROVE T \cup {x} \in P
  <2>1. IsFiniteSet(T) /\ \A k \in T \cup {x} : f[k] \in Int
    BY FS_Subset
  <2>2. SumFunctionOnSet(f, T \cup {x}) = SumFunctionOnSet(f, T) + f[x]
    BY <2>1, SumAdds
  <2> QED BY <1>2, <2>2
<1>3. S \in P
  <2> HIDE DEF P
  <2> QED BY <1>1, <1>2, FiniteInduction
<1> QED BY <1>3

LEMMA SumNat ==
  ASSUME NEW S, IsFiniteSet(S), NEW f, \A x \in S : f[x] \in Nat
  PROVE  SumFunctionOnSet(f, S) \in Nat
<1> DEFINE z == [x \in S |-> 0]
<1>1. SumFunctionOnSet(z, S) = 0
  BY SumZero
<1>2. SumFunctionOnSet(z, S) <= SumFunctionOnSet(f, S)
  BY SumLess
<1>3. SumFunctionOnSet(f, S) \in Int
  BY SumTake
<1> QED BY <1>1, <1>2, <1>3

\* The same numbers under other names.
LEMMA SumRenamed ==
  ASSUME NEW S, IsFiniteSet(S), NEW T, NEW b \in [S -> T], NEW f, NEW h,
         \A x \in S : f[x] \in Int /\ f[x] = h[b[x]],
         \A x, y \in S : b[x] = b[y] => x = y, \A y \in T : \E x \in S : b[x] = y
  PROVE  SumFunctionOnSet(f, S) = SumFunctionOnSet(h, T) /\ IsFiniteSet(T)
<1> DEFINE Img(U) == {b[x] : x \in U}
           P == {U \in SUBSET S : IsFiniteSet(Img(U)) /\ SumFunctionOnSet(f, U) = SumFunctionOnSet(h, Img(U))}
<1>1. {} \in P
  <2>1. Img({}) = {}
    OBVIOUS
  <2> QED BY <2>1, SumEmpty, FS_EmptySet
<1>2. ASSUME NEW U \in SUBSET S, NEW x \in S \ U, U \in P PROVE U \cup {x} \in P
  <2>1. IsFiniteSet(U) /\ Img(U \cup {x}) = Img(U) \cup {b[x]} /\ b[x] \notin Img(U)
    BY FS_Subset
  <2>2. \A k \in Img(U) \cup {b[x]} : h[k] \in Int
    OBVIOUS
  <2>3. IsFiniteSet(Img(U)) /\ SumFunctionOnSet(f, U) = SumFunctionOnSet(h, Img(U))
    BY <1>2
  <2>4. SumFunctionOnSet(f, U \cup {x}) = SumFunctionOnSet(f, U) + f[x]
    <3>1. \A k \in U \cup {x} : f[k] \in Int
      OBVIOUS
    <3> QED BY <2>1, <3>1, SumAdds
  <2>5. IsFiniteSet(Img(U) \cup {b[x]})
    BY <2>3, FS_AddElement
  <2>6. SumFunctionOnSet(h, Img(U) \cup {b[x]}) = SumFunctionOnSet(h, Img(U)) + h[b[x]]
    <3> HIDE DEF Img
    <3> DEFINE y == b[x]
               I == Img(U)
    <3>1. y \notin Img(U) /\ \A k \in Img(U) \cup {y} : h[k] \in Int
      BY <2>1, <2>2
    <3>2. IsFiniteSet(I) /\ y \notin I /\ \A k \in I \cup {y} : h[k] \in Int
      BY <2>3, <3>1
    <3> HIDE DEF y, I
    <3>3. SumFunctionOnSet(h, I \cup {y}) = SumFunctionOnSet(h, I) + h[y]
      BY ONLY <3>2, SumAdds
    <3> QED BY <3>3 DEF y, I
  <2>7. U \cup {x} \in SUBSET S /\ f[x] = h[b[x]]
    OBVIOUS
  <2> HIDE DEF Img
  <2> QED BY <2>1, <2>3, <2>4, <2>5, <2>6, <2>7
<1>3. S \in P
  <2> HIDE DEF P
  <2> QED BY <1>1, <1>2, FiniteInduction
<1>4. Img(S) = T
  OBVIOUS
<1> QED BY <1>3, <1>4

\* A sum follows the one number that changes.
LEMMA SumChange ==
  ASSUME NEW S, IsFiniteSet(S), NEW f, NEW h, NEW r \in S, \A x \in S : f[x] \in Int /\ h[x] \in Int,
         \A x \in S \ {r} : f[x] = h[x]
  PROVE  /\ SumFunctionOnSet(h, S) = SumFunctionOnSet(f, S) + (h[r] - f[r])
         /\ SumFunctionOnSet(h, S) \in Int /\ SumFunctionOnSet(f, S) \in Int
<1> DEFINE T == S \ {r}
<1>1. IsFiniteSet(T)
  BY FS_Subset
<1>2. SumFunctionOnSet(f, T) = SumFunctionOnSet(h, T)
  BY <1>1, SumSame
<1>3. /\ SumFunctionOnSet(f, S) = f[r] + SumFunctionOnSet(f, T)
      /\ SumFunctionOnSet(h, S) = h[r] + SumFunctionOnSet(h, T)
      /\ SumFunctionOnSet(h, S) \in Int /\ SumFunctionOnSet(f, S) \in Int
  BY SumTake
<1>4. SumFunctionOnSet(f, T) \in Int /\ f[r] \in Int /\ h[r] \in Int
  BY <1>1, SumTake
<1> HIDE DEF T
<1> QED BY <1>2, <1>3, <1>4

----------------------------------------------------------------------------
(* Starters.                                                               *)

\* A connection that has asked has an id, and keeps one.
Registered == \A r \in Requests : req[r].pc # "new" => cid[req[r].conn] \in Ids

\* Until its goroutine runs, a request and its connection agree on the id.
SameKey == \A r \in Requests :
  req[r].pc \in {"acquire", "spawn"} => req[r].key = cid[req[r].conn]

SInv == StartersTypeOK /\ Registered
GInv == GuardsMatch /\ SameKey

Places == {"acquire", "spawn", "lambda", "send", "fail", "release", "delete", "done"}
Given == [pc : Places, conn : Conns, key : Ids]
----------------------------------------------------------------------------
(* What a step does to the requests.                                       *)

LEMMA Parts ==
  ASSUME StartersTypeOK, NEW r \in Requests, req[r].pc # "new"
  PROVE  /\ req[r] \in Given
         /\ req[r].pc \in Places /\ req[r].conn \in Conns /\ req[r].key \in Ids
BY DEF StartersTypeOK, Request, Waiting, Given, Places

LEMMA Advanced ==
  ASSUME StartersTypeOK, NEW r \in Requests, req[r].pc # "new",
         NEW where \in Places, Advance(r, where)
  PROVE  /\ req' \in [Requests -> Request]
         /\ req'[r] \in Given /\ req'[r].pc = where
         /\ req'[r].conn = req[r].conn /\ req'[r].key = req[r].key
         /\ \A s \in Requests \ {r} : req'[s] = req[s]
<1>1. req[r] \in Given
  BY Parts
<1>2. [req[r] EXCEPT !.pc = where] \in Given
  BY <1>1 DEF Given
<1>3. req' = [req EXCEPT ![r] = [req[r] EXCEPT !.pc = where]]
  BY <1>1 DEF Advance, Given
<1> QED
  BY <1>1, <1>2, <1>3 DEF StartersTypeOK, Request, Given, Places

LEMMA Started ==
  ASSUME SInv, NEW r \in Requests, StartTask(r)
  PROVE  /\ req' \in [Requests -> Request]
         /\ req'[r] \in Given /\ req'[r].pc = "lambda"
         /\ req'[r].conn = req[r].conn /\ req'[r].key = cid[req[r].conn]
         /\ \A s \in Requests \ {r} : req'[s] = req[s]
<1>1. req[r] \in Given /\ cid[req[r].conn] \in Ids
  BY Parts DEF SInv, Registered, StartTask, At
<1>2. req' = [req EXCEPT ![r] = [req[r] EXCEPT !.pc = "lambda", !.key = cid[req[r].conn]]]
  BY <1>1 DEF StartTask, Given
<1>3. [req[r] EXCEPT !.pc = "lambda", !.key = cid[req[r].conn]] \in Given
  BY <1>1 DEF Given, Places
<1> QED
  BY <1>1, <1>2, <1>3 DEF SInv, StartersTypeOK, Request, Given, Places

LEMMA Taken ==
  ASSUME SInv, NEW c \in Conns, NEW r \in Requests, AskStarters(c, r)
  PROVE  /\ req' \in [Requests -> Request] /\ req[r].pc = "new"
         /\ req'[r] \in Given /\ req'[r].pc \in {"acquire", "done"}
         /\ req'[r].pc = "acquire" <=> cid[c] \notin guard
         /\ req'[r].conn = c /\ req'[r].key = cid[c] /\ cid[c] \in Ids
         /\ \A s \in Requests \ {r} : req'[s] = req[s]
<1>1. cid[c] \in Ids
  BY StartersAssumption DEF SInv, StartersTypeOK, AskStarters
<1>2. PICK where \in {"acquire", "done"} :
        /\ req' = [req EXCEPT ![r] = [pc |-> where, conn |-> c, key |-> cid[c]]]
        /\ where = "acquire" <=> cid[c] \notin guard
  BY DEF AskStarters
<1>3. [pc |-> where, conn |-> c, key |-> cid[c]] \in Given
  BY <1>1 DEF Given, Places
<1> QED
  BY <1>1, <1>2, <1>3 DEF SInv, StartersTypeOK, AskStarters, At, Request, Given, Places

\* The moves a request makes once it has the guard, with what they leave alone.
Moves(r) ==
  \/ \E where \in Places : Advance(r, where) /\ UNCHANGED cid
  \/ StartTask(r)

LEMMA HandlerMoves ==
  ASSUME NEW r \in Requests, InReader(r) \/ InTask(r)
  PROVE  req[r].pc # "new" /\ Moves(r)
BY DEF InReader, InTask, Moves, TryAcquire, GetStarters, SendStarters, Release, DeleteGuard,
       StartTask, At, Places

----------------------------------------------------------------------------
(* Types.                                                                  *)

LEMMA InitSInv == StartersInit => SInv /\ SlotsMatch
<1> SUFFICES ASSUME StartersInit PROVE SInv /\ SlotsMatch
  OBVIOUS
<1>1. StartersTypeOK
  BY StartersAssumption DEF StartersInit, StartersTypeOK, Request, Waiting
<1>2. Registered
  BY DEF StartersInit, Registered, Waiting
<1>3. Holding = {}
  BY DEF StartersInit, Holding, Waiting
<1> QED
  BY <1>1, <1>2, <1>3, FS_EmptySet, StartersAssumption DEF SInv, SlotsMatch, StartersInit

LEMMA SInvSet ==
  ASSUME SInv, NEW c \in Conns, NEW i \in Ids, SetClientID(c, i)
  PROVE  SInv'
<1>1. cid' \in [Conns -> Ids \cup {NoId}] /\ \A d \in Conns : cid[d] \in Ids => cid'[d] \in Ids
  BY DEF SInv, StartersTypeOK, SetClientID
<1>2. StartersTypeOK'
  BY <1>1 DEF SInv, StartersTypeOK, SetClientID, starters
<1>3. Registered'
  <2> SUFFICES ASSUME NEW r \in Requests, req[r].pc # "new"
               PROVE  cid'[req[r].conn] \in Ids
    BY DEF Registered, SetClientID, starters
  <2> QED
    BY <1>1, Parts DEF SInv, Registered
<1> QED
  BY <1>2, <1>3 DEF SInv

LEMMA SInvAsk ==
  ASSUME SInv, NEW c \in Conns, NEW r \in Requests, AskStarters(c, r)
  PROVE  SInv'
<1>1. guard' \subseteq Ids
  BY Taken DEF SInv, StartersTypeOK, AskStarters, LoadOrStore
<1>2. StartersTypeOK'
  BY <1>1, Taken DEF SInv, StartersTypeOK, AskStarters
<1>3. Registered'
  BY Taken DEF SInv, Registered, AskStarters
<1> QED
  BY <1>2, <1>3 DEF SInv

LEMMA SInvHandler ==
  ASSUME SInv, NEW r \in Requests, InReader(r) \/ InTask(r)
  PROVE  SInv'
<1>1. req' \in [Requests -> Request] /\ UNCHANGED cid
      /\ req'[r].conn = req[r].conn /\ \A s \in Requests \ {r} : req'[s] = req[s]
  <2>1. CASE StartTask(r)
    BY <2>1, Started DEF StartTask
  <2>2. CASE \E where \in Places : Advance(r, where) /\ UNCHANGED cid
    BY <2>2, HandlerMoves, Advanced DEF SInv
  <2> QED
    BY <2>1, <2>2, HandlerMoves DEF Moves
<1>2. guard' \subseteq Ids
  BY DEF SInv, StartersTypeOK, InReader, InTask, TryAcquire, StartTask, GetStarters,
         SendStarters, Release, DeleteGuard
<1>3. free' \in Nat
  BY DEF SInv, StartersTypeOK, InReader, InTask, TryAcquire, StartTask, GetStarters,
         SendStarters, Release, DeleteGuard
<1>4. Registered'
  BY <1>1, HandlerMoves DEF SInv, Registered
<1> QED
  BY <1>1, <1>2, <1>3, <1>4 DEF SInv, StartersTypeOK

LEMMA SInvStep == SInv /\ [StartersNext]_startersVars => SInv'
<1> SUFFICES ASSUME SInv, [StartersNext]_startersVars PROVE SInv'
  OBVIOUS
<1>1. CASE UNCHANGED startersVars
  BY <1>1 DEF SInv, StartersTypeOK, Registered, startersVars, starters
<1> QED
  BY <1>1, SInvSet, SInvAsk, SInvHandler DEF StartersNext

\* Every reachable state is well typed, with any number of slots and ids.
THEOREM StartersTypeCorrect == StartersSpec => []StartersTypeOK
<1>1. StartersInit => SInv
  BY InitSInv
<1>2. SInv /\ [StartersNext]_startersVars => SInv'
  BY SInvStep
<1>3. SInv => StartersTypeOK
  BY DEF SInv
<1> QED
  BY <1>1, <1>2, <1>3, PTL DEF StartersSpec

----------------------------------------------------------------------------
(* Slots.                                                                  *)

Holds == {"spawn", "lambda", "send", "fail", "release"}

LEMMA HoldingFinite == IsFiniteSet(Holding)
BY FS_Subset, StartersAssumption DEF Holding

\* A slot is counted for the request that took it and for no other.
LEMMA HoldingChanges ==
  ASSUME NEW r \in Requests, \A s \in Requests \ {r} : req'[s] = req[s]
  PROVE  /\ (req[r].pc \in Holds <=> req'[r].pc \in Holds) => Holding' = Holding
         /\ req[r].pc \notin Holds /\ req'[r].pc \in Holds
              => Cardinality(Holding') = Cardinality(Holding) + 1
         /\ req[r].pc \in Holds /\ req'[r].pc \notin Holds
              => Cardinality(Holding') = Cardinality(Holding) - 1
<1>1. (req[r].pc \in Holds <=> req'[r].pc \in Holds) => Holding' = Holding
  BY DEF Holding, Holds
<1>2. ASSUME req[r].pc \notin Holds, req'[r].pc \in Holds
      PROVE  Holding' = Holding \cup {r} /\ r \notin Holding
  BY <1>2 DEF Holding, Holds
<1>3. ASSUME req[r].pc \in Holds, req'[r].pc \notin Holds
      PROVE  Holding' = Holding \ {r} /\ r \in Holding
  BY <1>3 DEF Holding, Holds
<1> QED
  BY <1>1, <1>2, <1>3, HoldingFinite, FS_AddElement, FS_RemoveElement

LEMMA SlotsAsk ==
  ASSUME SInv, SlotsMatch, NEW c \in Conns, NEW r \in Requests, AskStarters(c, r)
  PROVE  SlotsMatch'
<1>1. Holding' = Holding
  BY Taken, HoldingChanges DEF Holds
<1> QED
  BY <1>1 DEF SlotsMatch, AskStarters

LEMMA SlotsHandler ==
  ASSUME SInv, SlotsMatch, NEW r \in Requests, InReader(r) \/ InTask(r)
  PROVE  SlotsMatch'
<1>1. Cardinality(Holding) \in Nat /\ free \in Nat
  BY HoldingFinite, FS_CardinalityType DEF SInv, StartersTypeOK
<1>2. CASE TryAcquire(r)
  <2>1. req[r].pc = "acquire" /\ \A s \in Requests \ {r} : req'[s] = req[s]
    BY <1>2, Advanced DEF TryAcquire, At, SInv, Places
  <2>2. CASE free > 0 /\ free' = free - 1 /\ Advance(r, "spawn")
    BY <1>1, <2>1, <2>2, Advanced, HoldingChanges DEF SlotsMatch, SInv, Places, Holds
  <2>3. CASE Advance(r, "done") /\ UNCHANGED free
    BY <1>1, <2>1, <2>3, Advanced, HoldingChanges DEF SlotsMatch, SInv, Places, Holds
  <2> QED
    BY <1>2, <2>2, <2>3 DEF TryAcquire
<1>3. CASE StartTask(r)
  BY <1>3, Started, HoldingChanges DEF SlotsMatch, StartTask, At, Holds
<1>4. CASE GetStarters(r) \/ SendStarters(r) \/ DeleteGuard(r)
  <2>1. PICK where \in Places :
          /\ Advance(r, where) /\ UNCHANGED free
          /\ req[r].pc # "new" /\ (req[r].pc \in Holds <=> where \in Holds)
    BY <1>4 DEF GetStarters, SendStarters, DeleteGuard, At, Places, Holds
  <2> QED
    BY <2>1, Advanced, HoldingChanges DEF SlotsMatch, SInv
<1>5. CASE Release(r)
  <2>1. req[r].pc = "release" /\ Advance(r, "delete") /\ free' = free + 1
    BY <1>5 DEF Release, At
  <2> QED
    BY <1>1, <2>1, Advanced, HoldingChanges DEF SlotsMatch, SInv, Places, Holds
<1> QED
  BY <1>2, <1>3, <1>4, <1>5 DEF InReader, InTask

LEMMA SlotsStep == SInv /\ SlotsMatch /\ [StartersNext]_startersVars => SlotsMatch'
<1> SUFFICES ASSUME SInv, SlotsMatch, [StartersNext]_startersVars PROVE SlotsMatch'
  OBVIOUS
<1>1. CASE UNCHANGED startersVars
  BY <1>1 DEF SlotsMatch, Holding, startersVars, starters
<1>2. CASE \E c \in Conns, i \in Ids : SetClientID(c, i)
  BY <1>2 DEF SlotsMatch, Holding, SetClientID, starters
<1> QED
  BY <1>1, <1>2, SlotsAsk, SlotsHandler DEF StartersNext

\* The slots that are free and those that requests hold are all there are: none
\* is lost by a failure and none given back twice.
THEOREM SlotsSafe == StartersSpec => []SlotsMatch
<1>1. StartersInit => SInv /\ SlotsMatch
  BY InitSInv
<1>2. SInv /\ SlotsMatch /\ [StartersNext]_startersVars => (SInv /\ SlotsMatch)'
  BY SInvStep, SlotsStep
<1> QED
  BY <1>1, <1>2, PTL DEF StartersSpec

----------------------------------------------------------------------------
(* Guards.                                                                 *)

LEMMA GInvSet ==
  ASSUME SInv, GInv, ~Rebind, NEW c \in Conns, NEW i \in Ids, SetClientID(c, i)
  PROVE  GInv'
<1>1. \A d \in Conns : cid[d] \in Ids => cid'[d] = cid[d]
  BY StartersAssumption DEF SInv, StartersTypeOK, SetClientID
<1>2. GuardsMatch'
  BY DEF GInv, GuardsMatch, InFlight, SetClientID, starters
<1>3. SameKey'
  <2> SUFFICES ASSUME NEW r \in Requests, req[r].pc \in {"acquire", "spawn"}
               PROVE  req[r].key = cid'[req[r].conn]
    BY DEF SameKey, SetClientID, starters
  <2> QED
    BY <1>1, Parts DEF SInv, Registered, GInv, SameKey
<1> QED
  BY <1>2, <1>3 DEF GInv

LEMMA GInvAsk ==
  ASSUME SInv, GInv, NEW c \in Conns, NEW r \in Requests, AskStarters(c, r)
  PROVE  GInv'
<1>1. SameKey'
  BY Taken DEF GInv, SameKey, AskStarters
<1>2. CASE cid[c] \notin guard
  <2>1. guard' = guard \cup {cid[c]} /\ InFlight' = InFlight \cup {r} /\ r \notin InFlight
    BY <1>2, Taken DEF AskStarters, LoadOrStore, InFlight
  <2> QED
    BY <1>1, <1>2, <2>1, Taken DEF GInv, GuardsMatch, InFlight
<1>3. CASE cid[c] \in guard
  <2>1. guard' = guard /\ InFlight' = InFlight /\ r \notin InFlight
    BY <1>3, Taken DEF AskStarters, InFlight
  <2> QED
    BY <1>1, <2>1, Taken DEF GInv, GuardsMatch, InFlight
<1> QED
  BY <1>2, <1>3

\* A request that ends takes the guard of its own id and of no other.
LEMMA GuardFreed ==
  ASSUME SInv, GInv, NEW r \in Requests, r \in InFlight,
         Advance(r, "done"), guard' = guard \ {req[r].key}, UNCHANGED cid
  PROVE  GInv'
<1>1. /\ req'[r].pc = "done" /\ \A s \in Requests \ {r} : req'[s] = req[s]
  BY Advanced DEF SInv, InFlight, Places
<1>2. InFlight' = InFlight \ {r}
  BY <1>1 DEF InFlight
<1> QED
  BY <1>1, <1>2 DEF GInv, GuardsMatch, SameKey, InFlight

LEMMA GInvHandler ==
  ASSUME SInv, GInv, NEW r \in Requests, InReader(r) \/ InTask(r)
  PROVE  GInv'
<1>1. r \in InFlight
  BY HandlerMoves DEF InReader, InTask, TryAcquire, StartTask, GetStarters, SendStarters,
     Release, DeleteGuard, At, InFlight
<1>2. ASSUME /\ req'[r].pc \notin {"new", "done"} /\ req'[r].key = req[r].key
             /\ req'[r].pc \in {"acquire", "spawn"} => req[r].pc \in {"acquire", "spawn"}
             /\ req'[r].conn = req[r].conn
             /\ \A s \in Requests \ {r} : req'[s] = req[s]
             /\ UNCHANGED <<guard, cid>>
      PROVE  GInv'
  <2>1. InFlight' = InFlight
    BY <1>1, <1>2 DEF InFlight
  <2> QED
    BY <1>1, <1>2, <2>1 DEF GInv, GuardsMatch, SameKey, InFlight
<1>3. CASE TryAcquire(r)
  <2>1. CASE Advance(r, "spawn") /\ UNCHANGED guard
    BY <1>2, <1>3, <2>1, Advanced DEF TryAcquire, At, SInv, Places
  <2>2. CASE guard' = guard \ {req[r].key} /\ Advance(r, "done")
    BY <1>1, <1>3, <2>2, GuardFreed DEF TryAcquire
  <2> QED
    BY <1>3, <2>1, <2>2 DEF TryAcquire
<1>4. CASE StartTask(r)
  <2>1. req[r].key = cid[req[r].conn]
    BY <1>4 DEF StartTask, At, GInv, SameKey
  <2> QED
    BY <1>2, <1>4, <2>1, Started DEF StartTask
<1>5. CASE GetStarters(r) \/ SendStarters(r) \/ Release(r)
  <2>1. PICK where \in {"send", "fail", "release", "delete"} :
          Advance(r, where) /\ UNCHANGED <<guard, cid>>
    BY <1>5 DEF GetStarters, SendStarters, Release
  <2>2. req[r].pc # "new"
    BY <1>1 DEF InFlight
  <2> QED
    BY <1>2, <2>1, <2>2, Advanced DEF SInv, Places
<1>6. CASE DeleteGuard(r)
  BY <1>1, <1>6, GuardFreed DEF DeleteGuard
<1> QED
  BY <1>3, <1>4, <1>5, <1>6 DEF InReader, InTask

\* Connections that keep their id have one request in flight per guarded id and
\* no guard without one, however they share ids and slots.
THEOREM GuardsSafe == ~Rebind /\ StartersSpec => []GuardsMatch
<1> SUFFICES ASSUME ~Rebind PROVE StartersSpec => []GuardsMatch
  OBVIOUS
<1>1. StartersInit => SInv /\ GInv
  BY InitSInv DEF StartersInit, GInv, GuardsMatch, SameKey, InFlight, Waiting
<1>2. SInv /\ GInv /\ [StartersNext]_startersVars => (SInv /\ GInv)'
  <2> SUFFICES ASSUME SInv, GInv, [StartersNext]_startersVars PROVE GInv'
    BY SInvStep
  <2>1. CASE UNCHANGED startersVars
    BY <2>1 DEF GInv, GuardsMatch, SameKey, InFlight, startersVars, starters
  <2> QED
    BY <2>1, GInvSet, GInvAsk, GInvHandler DEF StartersNext
<1>3. GInv => GuardsMatch
  BY DEF GInv
<1> QED
  BY <1>1, <1>2, <1>3, PTL DEF StartersSpec

----------------------------------------------------------------------------
(* Cart: what its lists hold.                                              *)

LEMMA PiecesAre ==
  ASSUME NEW list, NEW S, IsFiniteSet(S), NEW q, \A k \in S : q[k] = list[k].qty
  PROVE  Pieces(list, S) = SumFunctionOnSet(q, S)
<1>1. \A k \in S : [x \in S |-> list[x].qty][k] = q[k]
  OBVIOUS
<1> QED BY <1>1, SumSame DEF Pieces

LEMMA PiecesNat ==
  ASSUME NEW list, NEW S, IsFiniteSet(S), \A k \in S : list[k].qty \in Nat
  PROVE  Pieces(list, S) \in Nat
BY SumNat DEF Pieces

LEMMA PiecesNone ==
  ASSUME NEW list
  PROVE  Pieces(list, {}) = 0
BY SumEmpty DEF Pieces

LEMMA PiecesOne ==
  ASSUME NEW list, NEW k, list[k].qty \in Int
  PROVE  Pieces(list, {k}) = list[k].qty
<1> DEFINE q == [x \in {k} |-> list[x].qty]
<1>1. IsFiniteSet({k}) /\ {k} \ {k} = {}
  BY FS_Singleton
<1>2. SumFunctionOnSet(q, {k}) = q[k] + SumFunctionOnSet(q, {})
  BY <1>1, SumTake
<1> QED BY <1>2, SumEmpty DEF Pieces

LEMMA PiecesSame ==
  ASSUME NEW f, NEW g, NEW S, IsFiniteSet(S), \A k \in S : f[k].qty = g[k].qty
  PROVE  Pieces(f, S) = Pieces(g, S)
<1> DEFINE q == [k \in S |-> g[k].qty]
<1> QED BY PiecesAre DEF Pieces

LEMMA PiecesUnion ==
  ASSUME NEW list, NEW S, NEW T, IsFiniteSet(S), IsFiniteSet(T), S \cap T = {},
         \A k \in S \cup T : list[k].qty \in Int
  PROVE  Pieces(list, S \cup T) = Pieces(list, S) + Pieces(list, T)
<1> DEFINE q == [k \in S \cup T |-> list[k].qty]
<1>1. \A k \in S \cup T : q[k] = list[k].qty
  OBVIOUS
<1>2. Pieces(list, S \cup T) = SumFunctionOnSet(q, S \cup T)
  BY DEF Pieces
<1>3. Pieces(list, S) = SumFunctionOnSet(q, S) /\ Pieces(list, T) = SumFunctionOnSet(q, T)
  <2> HIDE DEF q
  <2> QED BY <1>1, PiecesAre
<1> HIDE DEF q
<1> QED BY <1>1, <1>2, <1>3, SumUnion

LEMMA PiecesRenamed ==
  ASSUME NEW f, NEW S, IsFiniteSet(S), NEW g, NEW T, NEW b \in [S -> T],
         \A x \in S : f[x].qty \in Int /\ f[x].qty = g[b[x]].qty,
         \A x, y \in S : b[x] = b[y] => x = y, \A y \in T : \E x \in S : b[x] = y
  PROVE  Pieces(f, S) = Pieces(g, T)
<1> DEFINE p == [x \in S |-> f[x].qty]
           q == [y \in T |-> g[y].qty]
<1>1. \A x \in S : p[x] \in Int /\ p[x] = q[b[x]]
  OBVIOUS
<1>2. Pieces(f, S) = SumFunctionOnSet(p, S) /\ Pieces(g, T) = SumFunctionOnSet(q, T)
  BY DEF Pieces
<1> HIDE DEF p, q
<1> QED BY <1>1, <1>2, SumRenamed

----------------------------------------------------------------------------
(* Types.                                                                  *)

Item == [id : Products \X BOOLEAN, qty : Nat]
Line == [product : Products, qty : Nat]
ItemsOk(f) == /\ f = [k \in DOMAIN f |-> f[k]]
              /\ DOMAIN f \subseteq Nat /\ IsFiniteSet(DOMAIN f)
              /\ \A k \in DOMAIN f : f[k] \in Item

Asking == {"read items", "write items", "add items", "order", "tell updated", "fail cart",
           "cart_updated", "cart_error"}
Sending == {"flag", "read marketing", "write marketing"}

\* A request has what its earlier steps learnt.
Fits(o) ==
  /\ o = [x \in DOMAIN o |-> o[x]] /\ "pc" \in DOMAIN o /\ o.pc \in CartSteps
  /\ o.pc \in Asking <=> "items" \in DOMAIN o
  /\ o.pc \in Asking => ItemsOk(o.items)
  /\ o.pc \in {"write items", "add items"} =>
       /\ {"updates", "adds"} \subseteq DOMAIN o
       /\ \A k \in DOMAIN o.updates : o.updates[k].index \in Nat /\ o.updates[k].qty \in Nat
       /\ DOMAIN o.updates \subseteq DOMAIN o.items
       /\ \E A \in SUBSET DOMAIN o.items : o.adds = Restrict(o.items, A)
  /\ o.pc \in Sending => o.source \in Sources
  /\ o.pc \in {"read marketing", "write marketing"} => o.tags \in BOOLEAN
  /\ o.pc = "write marketing" => o.seen \in Market

CartTypes ==
  /\ CartTypeOK /\ op = [r \in Orders |-> op[r]] /\ entered <= edits
  /\ \A r \in Orders : Fits(op[r])

LEMMA LinesAre ==
  /\ Lines = Seq(Line)
  /\ \A s \in Lines : /\ s \in [1..Len(s) -> Line] /\ Len(s) \in Nat /\ DOMAIN s = 1..Len(s)
                      /\ IsFiniteSet(DOMAIN s) /\ DOMAIN s \subseteq Nat
                      /\ \A k \in DOMAIN s : s[k] \in Line /\ s[k].product \in Products /\ s[k].qty \in Nat
<1>1. Lines = Seq(Line)
  BY DEF Lines, Line
<1>2. ASSUME NEW s \in Lines PROVE /\ s \in [1..Len(s) -> Line] /\ Len(s) \in Nat /\ DOMAIN s = 1..Len(s)
  BY <1>1
<1>3. ASSUME NEW s \in Lines PROVE IsFiniteSet(DOMAIN s) /\ DOMAIN s \subseteq Nat
  <2>1. Len(s) \in Int /\ DOMAIN s = 1..Len(s)
    BY <1>2, <1>3
  <2>2. IsFiniteSet(1..Len(s))
    BY <2>1, FS_Interval
  <2> QED BY <2>1, <2>2
<1>4. ASSUME NEW s \in Lines, NEW k \in DOMAIN s
      PROVE  s[k] \in Line /\ s[k].product \in Products /\ s[k].qty \in Nat
  BY <1>2 DEF Line
<1> QED BY <1>1, <1>2, <1>3, <1>4

LEMMA MakeLines ==
  ASSUME NEW n \in Nat, NEW s, s = [k \in 1..n |-> s[k]], \A k \in 1..n : s[k] \in Line
  PROVE  s \in Lines /\ Len(s) = n
<1>1. s \in [1..n -> Line]
  BY Zenon
<1> QED BY <1>1, LinesAre

\* A request that moves on and keeps what it has.
LEMMA FitsGoes ==
  ASSUME NEW o, Fits(o), NEW where \in CartSteps,
         \/ o.pc \in Asking /\ where \in Asking \ {"write items", "add items"}
         \/ o.pc = "write items" /\ where = "add items"
         \/ o.pc \notin Asking /\ where \notin Asking \cup Sending
  PROVE  Fits([o EXCEPT !.pc = where])
<1> DEFINE n == [o EXCEPT !.pc = where]
<1>1. /\ n = [x \in DOMAIN n |-> n[x]] /\ DOMAIN n = DOMAIN o /\ n.pc = where
      /\ \A x \in DOMAIN o : x # "pc" => n[x] = o[x]
  BY DEF Fits
<1> HIDE DEF n
<1>2. CASE o.pc \in Asking /\ where \in Asking \ {"write items", "add items"}
  <2>1. n.items = o.items /\ where \in Asking /\ where \notin Sending
    BY <1>1, <1>2 DEF Fits, Asking, Sending
  <2> QED BY <1>1, <1>2, <2>1 DEF Fits, Asking, Sending
<1>3. CASE o.pc = "write items" /\ where = "add items"
  <2>1. o.pc \in Asking /\ where \in Asking /\ where \notin Sending
    BY <1>3 DEF Asking, Sending
  <2>2. n.items = o.items
    BY <1>1, <2>1 DEF Fits
  <2>3. n.adds = o.adds /\ n.updates = o.updates /\ {"updates", "adds"} \subseteq DOMAIN n
    BY <1>1, <1>3 DEF Fits
  <2> QED BY <1>1, <1>3, <2>1, <2>2, <2>3 DEF Fits, Asking, Sending
<1>4. CASE o.pc \notin Asking /\ where \notin Asking \cup Sending
  BY <1>1, <1>4 DEF Fits, Asking, Sending
<1> QED BY <1>2, <1>3, <1>4 DEF n

LEMMA RestrictOk ==
  ASSUME NEW items, ItemsOk(items), NEW A \in SUBSET DOMAIN items
  PROVE  ItemsOk(Restrict(items, A)) /\ DOMAIN Restrict(items, A) = A
         /\ \A k \in A : Restrict(items, A)[k] = items[k]
<1>1. IsFiniteSet(A)
  BY FS_Subset DEF ItemsOk
<1> QED BY <1>1 DEF ItemsOk, Restrict

LEMMA ParseOk ==
  ASSUME NEW data \in Wishes, ValidItems(data)
  PROVE  /\ ItemsOk(parseCartItems(data)) /\ DOMAIN parseCartItems(data) \subseteq DOMAIN data
         /\ \A k \in DOMAIN parseCartItems(data) : parseCartItems(data)[k].id = data[k].id
         /\ \A j, k \in DOMAIN parseCartItems(data) : data[j].id = data[k].id => j = k
<1> DEFINE Same(k) == {j \in DOMAIN data : data[j].id = data[k].id}
           First == {k \in DOMAIN data : \A j \in Same(k) : k <= j}
           X == [id : Products \X BOOLEAN, qty : Int]
           items == parseCartItems(data)
<1>1. data \in Seq(X)
  BY CartAssumption
<1>2. DOMAIN data = 1..Len(data) /\ Len(data) \in Nat /\ \A k \in DOMAIN data : data[k] \in X
  <2> HIDE DEF X
  <2> QED BY <1>1
<1>3. \A k \in DOMAIN data : data[k].qty \in Nat /\ data[k].id \in Products \X BOOLEAN
  BY <1>2 DEF ValidItems
<1>4. IsFiniteSet(DOMAIN data)
  BY <1>2, FS_Interval
<1>5. items = [k \in First |-> [id |-> data[k].id, qty |-> Pieces(data, Same(k))]]
  BY DEF parseCartItems
<1>6. ASSUME NEW k \in DOMAIN data PROVE Pieces(data, Same(k)) \in Nat
  <2>1. IsFiniteSet(Same(k)) /\ \A j \in Same(k) : data[j].qty \in Nat
    BY <1>3, <1>4, FS_Subset
  <2> HIDE DEF Same
  <2> QED BY <2>1, PiecesNat
<1>7. IsFiniteSet(First) /\ First \subseteq DOMAIN data /\ DOMAIN data \subseteq Nat
  BY <1>2, <1>4, FS_Subset
<1>8. \A j, k \in First : data[j].id = data[k].id => j = k
  BY <1>2
<1> HIDE DEF Same, First, items
<1>9. /\ DOMAIN items = First /\ \A k \in First : items[k].id = data[k].id
      /\ items = [k \in DOMAIN items |-> items[k]]
  BY <1>5
<1>10. \A k \in First : items[k] \in Item
  BY <1>3, <1>5, <1>6, <1>7 DEF Item
<1>11. ItemsOk(items)
  BY <1>7, <1>9, <1>10 DEF ItemsOk
<1> QED BY <1>7, <1>8, <1>9, <1>11 DEF items

LEMMA FindOk ==
  ASSUME NEW form \in Lines, NEW id
  PROVE  LET n == findOrderFormItem(form, id) IN n \in Nat /\ (n # 0 => n \in DOMAIN form)
<1> DEFINE hits == {k \in DOMAIN form : id[1] \in Names[form[k].product]}
<1>1. /\ DOMAIN form = 1..Len(form) /\ Len(form) \in Nat /\ DOMAIN form \subseteq Nat
      /\ IsFiniteSet(DOMAIN form)
  BY LinesAre
<1>2. findOrderFormItem(form, id) = IF hits = {} THEN 0 ELSE Min(hits)
  BY DEF findOrderFormItem, normalizeCartItemID
<1>3. CASE hits = {}
  BY <1>2, <1>3
<1>4. CASE hits # {}
  <2>1. IsFiniteSet(hits) /\ hits \subseteq Int /\ hits \subseteq DOMAIN form
    BY <1>1, FS_Subset
  <2>2. Min(hits) \in hits
    <3> HIDE DEF hits
    <3> QED BY <1>4, <2>1, Bounds
  <2> HIDE DEF hits
  <2> QED BY <1>1, <1>2, <1>4, <2>1, <2>2
<1> QED BY <1>3, <1>4

Hit(form, items, k) == findOrderFormItem(form, items[k].id)

LEMMA SortsOk ==
  ASSUME NEW form \in Lines, NEW items, ItemsOk(items)
  PROVE  /\ DOMAIN ToUpdate(form, items) = Known(form, items)
         /\ Known(form, items) \subseteq DOMAIN items
         /\ \A k \in Known(form, items) :
              /\ Hit(form, items, k) \in DOMAIN form
              /\ ToUpdate(form, items)[k].index = Hit(form, items, k)
              /\ ToUpdate(form, items)[k].qty = form[Hit(form, items, k)].qty + items[k].qty
              /\ ToUpdate(form, items)[k].index \in Nat /\ ToUpdate(form, items)[k].qty \in Nat
         /\ ToAdd(form, items) = Restrict(items, DOMAIN items \ Known(form, items))
<1>1. Known(form, items) \subseteq DOMAIN items
  BY DEF Known
<1>2. ASSUME NEW k \in Known(form, items)
      PROVE  /\ Hit(form, items, k) \in DOMAIN form /\ Hit(form, items, k) \in Nat
             /\ form[Hit(form, items, k)].qty \in Nat /\ items[k].qty \in Nat
  <2>1. Hit(form, items, k) # 0 /\ items[k] \in Item
    BY <1>2 DEF Known, ItemsOk, Hit
  <2> QED BY <2>1, FindOk, LinesAre DEF Item, Hit
<1>3. ASSUME NEW k \in Known(form, items)
      PROVE  ToUpdate(form, items)[k] =
               [index |-> Hit(form, items, k), qty |-> form[Hit(form, items, k)].qty + items[k].qty]
  BY <1>3 DEF ToUpdate, NewQuantity, Hit
<1>4. DOMAIN ToUpdate(form, items) = Known(form, items)
  BY DEF ToUpdate
<1> QED BY <1>1, <1>2, <1>3, <1>4 DEF ToAdd

LEMMA StraysOk ==
  ASSUME NEW form \in Lines, NEW items, ItemsOk(items)
  PROVE  /\ Strays(form, items) \subseteq Products
         /\ \A p : p \notin Strays(form, items) => \A k \in Known(form, items) :
              items[k].id[1] = p \/ form[Hit(form, items, k)].product = p =>
                /\ items[k].id[1] = p /\ form[Hit(form, items, k)].product = p
                /\ \A j \in Known(form, items) : Hit(form, items, j) = Hit(form, items, k) => j = k
<1> DEFINE Spot(k) == Hit(form, items, k)
           known == Known(form, items)
           Both(k) == {items[k].id[1], form[Spot(k)].product}
           Wrong(k) == (\E j \in known \ {k} : Spot(j) = Spot(k)) \/ items[k].id[1] # form[Spot(k)].product
<1>1. Strays(form, items) = UNION {Both(k) : k \in {k \in known : Wrong(k)}}
  BY DEF Strays, Hit, normalizeCartItemID
<1>2. ASSUME NEW k \in known PROVE Both(k) \subseteq Products
  <2>1. k \in DOMAIN items /\ Spot(k) \in DOMAIN form
    BY SortsOk
  <2>2. items[k] \in Item
    BY <2>1 DEF ItemsOk
  <2>3. items[k].id[1] \in Products
    BY <2>2 DEF Item
  <2>4. form[Spot(k)].product \in Products
    BY <2>1, LinesAre
  <2> QED BY <2>3, <2>4
<1>3. ASSUME NEW p, p \notin Strays(form, items), NEW k \in known, p \in Both(k)
      PROVE  ~Wrong(k)
  <2> HIDE DEF Both, Wrong, known
  <2> QED BY <1>1, <1>3
<1>4. Strays(form, items) \subseteq Products
  <2> HIDE DEF Both, Wrong, known
  <2> QED BY <1>1, <1>2
<1>5. ASSUME NEW p, p \notin Strays(form, items), NEW k \in known,
             items[k].id[1] = p \/ form[Spot(k)].product = p
      PROVE  /\ items[k].id[1] = p /\ form[Spot(k)].product = p
             /\ \A j \in known : Spot(j) = Spot(k) => j = k
  <2>1. ~Wrong(k)
    BY <1>3, <1>5
  <2> HIDE DEF Spot, known
  <2> QED BY <1>5, <2>1
<1> QED BY <1>4, <1>5

LEMMA UpdatedOk ==
  ASSUME lines \in Lines, NEW updates, Applicable(updates),
         DOMAIN updates \subseteq Nat, IsFiniteSet(DOMAIN updates),
         \A k \in DOMAIN updates : updates[k].qty \in Nat
  PROVE  /\ Updated(updates) \in Lines /\ DOMAIN Updated(updates) = DOMAIN lines
         /\ \A n \in DOMAIN lines : Updated(updates)[n].product = lines[n].product
<1> DEFINE For(n) == {k \in DOMAIN updates : updates[k].index = n}
           u == Updated(updates)
<1>1. /\ DOMAIN lines = 1..Len(lines) /\ Len(lines) \in Nat
      /\ \A n \in DOMAIN lines : lines[n] \in Line
  BY LinesAre
<1>2. u = [n \in DOMAIN lines |->
            IF For(n) = {} THEN lines[n] ELSE [lines[n] EXCEPT !.qty = updates[Max(For(n))].qty]]
  BY DEF Updated
<1>3. ASSUME NEW n, For(n) # {} PROVE updates[Max(For(n))].qty \in Nat
  <2>1. IsFiniteSet(For(n)) /\ For(n) \subseteq Int /\ For(n) \subseteq DOMAIN updates
    BY FS_Subset
  <2>2. Max(For(n)) \in For(n)
    <3> HIDE DEF For
    <3> QED BY <1>3, <2>1, Bounds
  <2> QED BY <2>1, <2>2
<1> HIDE DEF For, u
<1>4. ASSUME NEW n \in DOMAIN lines PROVE u[n] \in Line /\ u[n].product = lines[n].product
  BY <1>1, <1>2, <1>3 DEF Line
<1>5. u = [n \in 1..Len(lines) |-> u[n]] /\ DOMAIN u = DOMAIN lines
  BY <1>1, <1>2
<1>6. u \in Lines
  BY <1>1, <1>4, <1>5, MakeLines
<1> QED BY <1>4, <1>5, <1>6 DEF u

\* The lines that are made of items.
New(items, order) ==
  [n \in DOMAIN order |->
    [product |-> normalizeCartItemID(items[order[n]].id), qty |-> items[order[n]].qty]]

LEMMA NewOk ==
  ASSUME NEW items, ItemsOk(items), NEW order \in Orderings(DOMAIN items)
  PROVE  /\ New(items, order) \in Lines /\ DOMAIN New(items, order) = DOMAIN order
         /\ order \in [DOMAIN order -> DOMAIN items]
         /\ \A m, n \in DOMAIN order : order[m] = order[n] => m = n
         /\ \A k \in DOMAIN items : \E n \in DOMAIN order : order[n] = k
<1> DEFINE c == Cardinality(DOMAIN items)
<1>1. c \in Nat
  BY FS_CardinalityType DEF ItemsOk
<1>2. /\ order \in [1..c -> DOMAIN items] /\ DOMAIN order = 1..c
      /\ \A m, n \in DOMAIN order : order[m] = order[n] => m = n
      /\ \A k \in DOMAIN items : \E n \in DOMAIN order : order[n] = k
  BY DEF Orderings, Bijection, Injection, Surjection, IsInjective
<1>3. ASSUME NEW n \in 1..c PROVE New(items, order)[n] \in Line
  BY <1>2 DEF New, ItemsOk, Item, Line, normalizeCartItemID
<1>4. New(items, order) = [n \in 1..c |-> New(items, order)[n]]
  BY <1>2 DEF New
<1> HIDE DEF c
<1>5. New(items, order) \in Lines
  BY <1>1, <1>3, <1>4, MakeLines
<1> QED BY <1>2, <1>4, <1>5

LEMMA AddedIs ==
  ASSUME NEW items, NEW order, NEW atEnd
  PROVE  Added(items, order, atEnd) = IF atEnd THEN lines \o New(items, order)
                                      ELSE New(items, order) \o lines
BY DEF Added, New

LEMMA JoinOk ==
  ASSUME NEW s \in Lines, NEW t \in Lines
  PROVE  s \o t \in Lines
BY LinesAre, ConcatProperties

\* A list is what is before an entry, the entry, and what is after it.
LEMMA CutOk ==
  ASSUME NEW s \in Lines, NEW k \in DOMAIN s
  PROVE  /\ SubSeq(s, 1, k - 1) \in Lines /\ SubSeq(s, k + 1, Len(s)) \in Lines
         /\ Len(SubSeq(s, 1, k - 1)) = k - 1 /\ Len(SubSeq(s, k + 1, Len(s))) = Len(s) - k
         /\ \A j \in 1..(k - 1) : SubSeq(s, 1, k - 1)[j] = s[j]
         /\ \A j \in 1..(Len(s) - k) : SubSeq(s, k + 1, Len(s))[j] = s[k + j]
         /\ RemoveAt(s, k) \in Lines
<1>1. /\ s \in Seq(Line) /\ k \in 1..Len(s) /\ Len(s) \in Nat
      /\ \A j \in 1..Len(s) : s[j] \in Line
  BY LinesAre
<1>2. /\ SubSeq(s, 1, k - 1) \in Seq(Line)
      /\ Len(SubSeq(s, 1, k - 1)) = IF 1 <= k - 1 THEN k - 1 - 1 + 1 ELSE 0
      /\ \A j \in 1..(k - 1 - 1 + 1) : SubSeq(s, 1, k - 1)[j] = s[1 + j - 1]
  BY <1>1, SubSeqProperties
<1>3. /\ SubSeq(s, k + 1, Len(s)) \in Seq(Line)
      /\ Len(SubSeq(s, k + 1, Len(s))) = IF k + 1 <= Len(s) THEN Len(s) - (k + 1) + 1 ELSE 0
      /\ \A j \in 1..(Len(s) - (k + 1) + 1) : SubSeq(s, k + 1, Len(s))[j] = s[(k + 1) + j - 1]
  BY <1>1, SubSeqProperties
<1>4. SubSeq(s, 1, k - 1) \in Lines /\ SubSeq(s, k + 1, Len(s)) \in Lines
  BY <1>2, <1>3, LinesAre
<1>5. RemoveAt(s, k) \in Lines
  BY <1>4, JoinOk DEF RemoveAt
<1> QED BY <1>1, <1>2, <1>3, <1>4, <1>5

----------------------------------------------------------------------------
(* The steps keep the types.                                               *)

FormParts == {"items", "marketing"}

LEMMA OrderTypes ==
  ASSUME CartTypes, NEW r \in Orders, op' = [k \in Orders |-> op'[k]],
         \A k \in Orders \ {r} : op'[k] = op[k], Fits(op'[r]),
         lines' \in Lines, market' \in Market, mixed' \subseteq FormParts,
         crossed' \subseteq Products,
         failures' \in 0..MaxFailures, UNCHANGED <<own, entered, edits>>
  PROVE  CartTypes'
<1>1. \A k \in Orders : Fits(op'[k])
  BY DEF CartTypes
<1>2. \A k \in Orders : op'[k].pc \in CartSteps
  BY <1>1 DEF Fits
<1> QED BY <1>1, <1>2 DEF CartTypes, CartTypeOK, FormParts

LEMMA CallOk ==
  ASSUME CartTypes, CallFails \/ CallWorks
  PROVE  failures' \in 0..MaxFailures
BY CartAssumption DEF CartTypes, CartTypeOK, CallFails, CallWorks

LEMMA OrderIs ==
  ASSUME CartTypes
  PROVE  /\ lines \in Lines /\ market \in Market /\ mixed \subseteq FormParts
         /\ crossed \subseteq Products
         /\ \A r \in Orders : Fits(op[r])
         /\ \A part \in FormParts : \A others : Writes(part, others) => mixed' \subseteq FormParts
BY DEF CartTypes, CartTypeOK, FormParts, Writes

LEMMA OrderSet ==
  ASSUME CartTypes, NEW r \in Orders, NEW o, op' = [op EXCEPT ![r] = o]
  PROVE  /\ op' = [k \in Orders |-> op'[k]] /\ op'[r] = o
         /\ \A k \in Orders \ {r} : op'[k] = op[k]
BY DEF CartTypes

LEMMA OrderGoes ==
  ASSUME CartTypes, NEW r \in Orders, NEW where \in CartSteps, OpGoto(r, where),
         \/ op[r].pc \in Asking /\ where \in Asking \ {"write items", "add items"}
         \/ op[r].pc = "write items" /\ where = "add items"
         \/ op[r].pc \notin Asking /\ where \notin Asking \cup Sending
  PROVE  /\ op' = [k \in Orders |-> op'[k]] /\ op'[r] = [op[r] EXCEPT !.pc = where]
         /\ \A k \in Orders \ {r} : op'[k] = op[k]
         /\ Fits(op'[r]) /\ op'[r].pc = where
<1>1. op' = [op EXCEPT ![r] = [op[r] EXCEPT !.pc = where]]
  BY DEF OpGoto
<1>2. Fits([op[r] EXCEPT !.pc = where])
  BY OrderIs, FitsGoes
<1>3. [op[r] EXCEPT !.pc = where].pc = where
  BY OrderIs DEF Fits
<1> QED BY <1>1, <1>2, <1>3, OrderSet

\* What the update of a request leaves, and what its new lines do.
LEMMA UpdateLines ==
  ASSUME CartTypes, NEW r \in Orders, op[r].pc = "write items", Applicable(op[r].updates)
  PROVE  Updated(op[r].updates) \in Lines
<1> DEFINE u == op[r].updates
<1>1. /\ DOMAIN u \subseteq DOMAIN op[r].items /\ \A k \in DOMAIN u : u[k].qty \in Nat
      /\ ItemsOk(op[r].items)
  BY OrderIs DEF Fits, Asking
<1>2. DOMAIN u \subseteq Nat /\ IsFiniteSet(DOMAIN u)
  BY <1>1, FS_Subset DEF ItemsOk
<1> QED BY <1>1, <1>2, OrderIs, UpdatedOk

LEMMA AddLines ==
  ASSUME CartTypes, NEW r \in Orders, op[r].pc = "add items",
         NEW order \in Orderings(DOMAIN op[r].adds), NEW atEnd
  PROVE  Added(op[r].adds, order, atEnd) \in Lines /\ ItemsOk(op[r].adds)
<1>1. PICK A \in SUBSET DOMAIN op[r].items : op[r].adds = Restrict(op[r].items, A)
  BY OrderIs DEF Fits
<1>2. ItemsOk(op[r].items)
  BY OrderIs DEF Fits, Asking
<1>3. ItemsOk(Restrict(op[r].items, A))
  BY <1>2, RestrictOk
<1>4. ItemsOk(op[r].adds)
  BY <1>1, <1>3, Zenon
<1> QED BY <1>4, OrderIs, NewOk, AddedIs, JoinOk

LEMMA AskTypes ==
  ASSUME CartTypes, NEW r \in Orders, NEW data \in Wishes, AddToCart(r, data)
  PROVE  /\ CartTypes' /\ op' = [k \in Orders |-> op'[k]]
         /\ \A k \in Orders \ {r} : op'[k] = op[k]
<1>1. UNCHANGED <<lines, market, mixed, crossed, own, entered, edits, failures>>
  BY DEF AddToCart, formVars
<1>2. failures \in 0..MaxFailures
  BY DEF CartTypes, CartTypeOK
<1>3. CASE ValidItems(data)
  <2> DEFINE o == [pc |-> "read items", items |-> parseCartItems(data)]
  <2>1. op' = [op EXCEPT ![r] = o]
    BY <1>3 DEF AddToCart
  <2>2. Fits(o)
    <3>1. ItemsOk(o.items) /\ o.pc = "read items" /\ DOMAIN o = {"pc", "items"}
      BY <1>3, ParseOk
    <3>2. o = [x \in DOMAIN o |-> o[x]]
      OBVIOUS
    <3> HIDE DEF o
    <3> QED BY <3>1, <3>2 DEF Fits, Asking, Sending, CartSteps
  <2> HIDE DEF o
  <2> QED BY <1>1, <1>2, <2>1, <2>2, OrderSet, OrderTypes, OrderIs
<1>4. CASE ~ValidItems(data)
  <2> DEFINE o == [pc |-> "refused"]
  <2>1. op' = [op EXCEPT ![r] = o]
    BY <1>4 DEF AddToCart
  <2>2. Fits(o)
    BY DEF Fits, Asking, Sending, CartSteps, CartDone
  <2> HIDE DEF o
  <2> QED BY <1>1, <1>2, <2>1, <2>2, OrderSet, OrderTypes, OrderIs
<1> QED BY <1>3, <1>4

LEMMA ReadTypes ==
  ASSUME CartTypes, NEW r \in Orders, ReadItems(r)
  PROVE  /\ CartTypes' /\ op' = [k \in Orders |-> op'[k]]
         /\ \A k \in Orders \ {r} : op'[k] = op[k]
         /\ UNCHANGED <<lines, mixed, own>> /\ crossed \subseteq crossed'
<1>1. /\ UNCHANGED <<lines, market, mixed, own, entered, edits>> /\ failures' \in 0..MaxFailures
      /\ crossed \subseteq crossed'
  BY CallOk DEF ReadItems
<1>2. op[r].pc = "read items" /\ op[r].pc \in Asking
  BY DEF ReadItems, OpAt, Asking
<1>0. crossed' \subseteq Products
  <2>1. ItemsOk(op[r].items) /\ lines \in Lines /\ crossed \subseteq Products
    BY <1>2, OrderIs DEF Fits
  <2>2. Strays(lines, op[r].items) \subseteq Products
    BY <2>1, StraysOk
  <2>3. UNCHANGED crossed \/ crossed' = crossed \cup Strays(lines, op[r].items)
    BY DEF ReadItems
  <2> QED BY <2>1, <2>2, <2>3
<1>3. CASE OpGoto(r, "fail cart")
  <2>1. "fail cart" \in Asking \ {"write items", "add items"} /\ "fail cart" \in CartSteps
    BY DEF Asking, CartSteps
  <2> QED BY <1>0, <1>1, <1>2, <1>3, <2>1, OrderGoes, OrderTypes, OrderIs
<1>4. CASE ~OpGoto(r, "fail cart")
  <2> DEFINE o(where) == [pc |-> where, items |-> op[r].items,
                updates |-> ToUpdate(lines, op[r].items), adds |-> ToAdd(lines, op[r].items)]
  <2>1. PICK where \in {"add items", "write items"} : op' = [op EXCEPT ![r] = o(where)]
    BY <1>4 DEF ReadItems
  <2>2. Fits(o(where))
    <3> DEFINE n == o(where)
    <3>1. /\ n.items = op[r].items /\ n.pc = where /\ DOMAIN n = {"pc", "items", "updates", "adds"}
          /\ n.updates = ToUpdate(lines, op[r].items) /\ n.adds = ToAdd(lines, op[r].items)
      OBVIOUS
    <3>2. n = [x \in DOMAIN n |-> n[x]]
      OBVIOUS
    <3>3. ItemsOk(op[r].items)
      BY <1>2, OrderIs DEF Fits
    <3>4. /\ \A k \in DOMAIN n.updates : n.updates[k].index \in Nat /\ n.updates[k].qty \in Nat
          /\ DOMAIN n.updates \subseteq DOMAIN n.items
          /\ \E A \in SUBSET DOMAIN n.items : n.adds = Restrict(n.items, A)
      <4>1. lines \in Lines /\ DOMAIN lines \subseteq Nat
        BY OrderIs, LinesAre
      <4> DEFINE i == op[r].items
      <4>2. /\ DOMAIN ToUpdate(lines, i) \subseteq DOMAIN i
            /\ \A k \in DOMAIN ToUpdate(lines, i) :
                 ToUpdate(lines, i)[k].index \in Nat /\ ToUpdate(lines, i)[k].qty \in Nat
            /\ \E A \in SUBSET DOMAIN i : ToAdd(lines, i) = Restrict(i, A)
        <5> HIDE DEF i
        <5>1. ItemsOk(i)
          BY <3>3 DEF i
        <5>2. /\ DOMAIN ToUpdate(lines, i) = Known(lines, i) /\ Known(lines, i) \subseteq DOMAIN i
              /\ \E A \in SUBSET DOMAIN i : ToAdd(lines, i) = Restrict(i, A)
          <6>1. DOMAIN i \ Known(lines, i) \in SUBSET DOMAIN i
            OBVIOUS
          <6> QED BY <4>1, <5>1, <6>1, SortsOk
        <5>3. ASSUME NEW k \in Known(lines, i)
              PROVE  ToUpdate(lines, i)[k].index \in Nat /\ ToUpdate(lines, i)[k].qty \in Nat
          BY <4>1, <5>1, <5>3, SortsOk
        <5> QED BY <5>2, <5>3
      <4> HIDE DEF n
      <4> QED BY <3>1, <4>2
    <3> HIDE DEF n
    <3>5. Fits(n)
      BY <3>1, <3>2, <3>3, <3>4 DEF Fits, Asking, Sending, CartSteps
    <3> QED BY <3>5 DEF n
  <2> HIDE DEF o
  <2> QED BY <1>0, <1>1, <2>1, <2>2, OrderSet, OrderTypes, OrderIs
<1> QED BY <1>3, <1>4

LEMMA WriteTypes ==
  ASSUME CartTypes, NEW r \in Orders,
         UpdateItems(r) \/ AddItems(r) \/ PostOrder(r) \/ AnswerCart(r)
  PROVE  /\ CartTypes' /\ op' = [k \in Orders |-> op'[k]]
         /\ \A k \in Orders \ {r} : op'[k] = op[k]
         /\ \E where \in Asking : op'[r] = [op[r] EXCEPT !.pc = where] /\ op'[r].pc = where
<1> DEFINE Allowed(where) == \/ where \in Asking \ {"write items", "add items"}
                             \/ op[r].pc = "write items" /\ where = "add items"
<1>1. UNCHANGED <<market, crossed, own, entered, edits>> /\ failures' \in 0..MaxFailures
  <2>1. CASE UpdateItems(r)
    BY <2>1, CallOk DEF UpdateItems
  <2>2. CASE AddItems(r)
    BY <2>2, CallOk DEF AddItems
  <2>3. CASE PostOrder(r)
    BY <2>3, CallOk DEF PostOrder, formVars
  <2>4. CASE AnswerCart(r)
    BY <2>4, CallOk DEF AnswerCart, formVars, CallWorks
  <2> QED BY <2>1, <2>2, <2>3, <2>4
<1>2. /\ op[r].pc \in Asking
      /\ \E where \in Asking : OpGoto(r, where) /\ Allowed(where)
  <2>1. CASE UpdateItems(r)
    <3>1. PICK where \in {"order", "add items", "fail cart"} : OpGoto(r, where)
      BY <2>1 DEF UpdateItems
    <3>2. op[r].pc = "write items"
      BY <2>1 DEF UpdateItems, OpAt
    <3>3. where \in Asking \ {"write items", "add items"} \/ where = "add items"
      BY DEF Asking
    <3>4. op[r].pc \in Asking /\ where \in Asking
      BY <3>2 DEF Asking
    <3>5. Allowed(where)
      BY <3>2, <3>3
    <3> HIDE DEF Allowed
    <3> QED BY <3>1, <3>4, <3>5
  <2>2. CASE AddItems(r) \/ PostOrder(r) \/ AnswerCart(r)
    <3>1. PICK where \in {"order", "tell updated", "fail cart", "cart_updated", "cart_error"} :
            OpGoto(r, where)
      BY <2>2 DEF AddItems, PostOrder, AnswerCart
    <3>2. op[r].pc \in Asking
      BY <2>2 DEF AddItems, PostOrder, AnswerCart, OpAt, Asking
    <3>3. where \in Asking /\ where \in Asking \ {"write items", "add items"}
      BY DEF Asking
    <3>4. Allowed(where)
      BY <3>3
    <3> HIDE DEF Allowed
    <3> QED BY <3>1, <3>2, <3>3, <3>4
  <2> QED BY <2>1, <2>2
<1>3. lines' \in Lines /\ mixed' \subseteq FormParts
  <2>1. CASE UpdateItems(r)
    <3>1. \/ UNCHANGED <<lines, mixed>>
          \/ /\ Applicable(op[r].updates) /\ lines' = Updated(op[r].updates)
             /\ Writes("items", Orders \ {r})
      BY <2>1 DEF UpdateItems
    <3>2. op[r].pc = "write items" /\ "items" \in FormParts
      BY <2>1 DEF UpdateItems, OpAt, FormParts
    <3> QED BY <3>1, <3>2, UpdateLines, OrderIs
  <2>2. CASE AddItems(r)
    <3>1. \/ UNCHANGED <<lines, mixed>>
          \/ \E order \in Orderings(DOMAIN op[r].adds), atEnd \in BOOLEAN :
               lines' = Added(op[r].adds, order, atEnd) /\ Writes("items", Orders \ {r})
      BY <2>2 DEF AddItems
    <3>2. op[r].pc = "add items" /\ "items" \in FormParts
      BY <2>2 DEF AddItems, OpAt, FormParts
    <3> QED BY <3>1, <3>2, AddLines, OrderIs
  <2>3. CASE PostOrder(r) \/ AnswerCart(r)
    BY <2>3, OrderIs DEF PostOrder, AnswerCart, formVars
  <2> QED BY <2>1, <2>2, <2>3
<1>4. Asking \subseteq CartSteps
  BY DEF Asking, CartSteps, CartDone
<1> QED BY <1>1, <1>2, <1>3, <1>4, OrderGoes, OrderTypes, OrderIs

LEMMA UtmTypes ==
  ASSUME CartTypes, NEW r \in Orders,
         \/ \E s \in Sources \cup {NoSource} : SendUTM(r, s)
         \/ channelUsesMarketingTags(r) \/ ReadMarketing(r) \/ WriteMarketing(r) \/ AnswerUTM(r)
  PROVE  /\ CartTypes' /\ op' = [k \in Orders |-> op'[k]]
         /\ \A k \in Orders \ {r} : op'[k] = op[k]
         /\ op'[r].pc \notin Asking /\ op[r].pc \notin Asking
         /\ UNCHANGED <<lines, own, crossed>> /\ ("items" \in mixed' <=> "items" \in mixed)
<1>1. /\ UNCHANGED <<lines, own, crossed, entered, edits>> /\ failures' \in 0..MaxFailures
      /\ op[r].pc \notin Asking /\ ("items" \in mixed' <=> "items" \in mixed)
      /\ mixed' \subseteq FormParts
  <2>1. CASE \E s \in Sources \cup {NoSource} : SendUTM(r, s)
    BY <2>1, CallOk, OrderIs DEF SendUTM, formVars, CallWorks, OpAt, Asking
  <2>2. CASE channelUsesMarketingTags(r)
    BY <2>2, CallOk, OrderIs DEF channelUsesMarketingTags, formVars, OpAt, Asking
  <2>3. CASE ReadMarketing(r)
    BY <2>3, CallOk, OrderIs DEF ReadMarketing, formVars, OpAt, Asking
  <2>4. CASE WriteMarketing(r)
    <3>1. UNCHANGED mixed \/ Writes("marketing", Orders \ {r})
      BY <2>4 DEF WriteMarketing
    <3>2. mixed' \subseteq FormParts /\ ("items" \in mixed' <=> "items" \in mixed)
      BY <3>1, OrderIs DEF Writes, FormParts
    <3> QED BY <2>4, <3>2, CallOk DEF WriteMarketing, OpAt, Asking
  <2>5. CASE AnswerUTM(r)
    BY <2>5, CallOk, OrderIs DEF AnswerUTM, formVars, CallWorks, OpAt, Asking
  <2> QED BY <2>1, <2>2, <2>3, <2>4, <2>5
<1>2. CASE \E where \in {"fail utm", "tell sent", "utm_sent", "utm_error"} :
             OpGoto(r, where) /\ market' \in Market
  <2>1. PICK where \in {"fail utm", "tell sent", "utm_sent", "utm_error"} :
           OpGoto(r, where) /\ market' \in Market
    BY <1>2
  <2>2. where \notin Asking \cup Sending /\ where \in CartSteps
    BY DEF Asking, Sending, CartSteps, CartDone
  <2> QED BY <1>1, <2>1, <2>2, OrderGoes, OrderTypes, OrderIs
<1>3. CASE \E o : op' = [op EXCEPT ![r] = o] /\ Fits(o) /\ o.pc \notin Asking /\ UNCHANGED market
  <2>1. PICK o : op' = [op EXCEPT ![r] = o] /\ Fits(o) /\ o.pc \notin Asking /\ UNCHANGED market
    BY <1>3
  <2>2. /\ op' = [k \in Orders |-> op'[k]] /\ op'[r] = o
        /\ \A k \in Orders \ {r} : op'[k] = op[k]
    BY <2>1, OrderSet
  <2>3. lines' \in Lines /\ market' \in Market /\ crossed' \subseteq Products
        /\ UNCHANGED <<own, entered, edits>>
    BY <1>1, <2>1, OrderIs
  <2>4. CartTypes'
    BY <1>1, <2>1, <2>2, <2>3, OrderTypes
  <2> QED BY <1>1, <2>1, <2>2, <2>4
<1>4. CASE \E s \in Sources \cup {NoSource} : SendUTM(r, s)
  <2>1. PICK s \in Sources \cup {NoSource} : SendUTM(r, s)
    BY <1>4
  <2>2. CASE s \in Sources
    <3> DEFINE o == [pc |-> "flag", source |-> s]
    <3>1. op' = [op EXCEPT ![r] = o] /\ UNCHANGED market
      BY <2>1, <2>2 DEF SendUTM, formVars
    <3>2. Fits(o) /\ o.pc \notin Asking
      BY <2>2 DEF Fits, Asking, Sending, CartSteps
    <3> QED BY <1>3, <3>1, <3>2
  <2>3. CASE s \notin Sources
    <3> DEFINE o == [pc |-> "refused"]
    <3>1. op' = [op EXCEPT ![r] = o] /\ UNCHANGED market
      BY <2>1, <2>3 DEF SendUTM, formVars
    <3>2. Fits(o) /\ o.pc \notin Asking
      BY DEF Fits, Asking, Sending, CartSteps, CartDone
    <3> QED BY <1>3, <3>1, <3>2
  <2> QED BY <2>2, <2>3
<1>5. CASE channelUsesMarketingTags(r)
  <2>1. op[r].source \in Sources /\ UNCHANGED market
    BY <1>5, OrderIs DEF channelUsesMarketingTags, OpAt, Fits, Sending, formVars
  <2>2. PICK t \in BOOLEAN :
          op' = [op EXCEPT ![r] = [pc |-> "read marketing", source |-> op[r].source, tags |-> t]]
    BY <1>5 DEF channelUsesMarketingTags
  <2> DEFINE o == [pc |-> "read marketing", source |-> op[r].source, tags |-> t]
  <2>3. Fits(o) /\ o.pc \notin Asking
    BY <2>1 DEF Fits, Asking, Sending, CartSteps
  <2> QED BY <1>3, <2>1, <2>2, <2>3
<1>6. CASE ReadMarketing(r)
  <2>1. CASE OpGoto(r, "fail utm")
    BY <1>2, <1>6, <2>1, OrderIs DEF ReadMarketing, formVars
  <2>2. CASE ~OpGoto(r, "fail utm")
    <3> DEFINE o == [pc |-> "write marketing", source |-> op[r].source, tags |-> op[r].tags,
                     seen |-> market]
    <3>1. /\ op[r].source \in Sources /\ op[r].tags \in BOOLEAN /\ market \in Market
          /\ UNCHANGED market
      BY <1>6, OrderIs DEF ReadMarketing, OpAt, Fits, Sending, formVars
    <3>2. op' = [op EXCEPT ![r] = o]
      BY <1>6, <2>2 DEF ReadMarketing
    <3>3. Fits(o) /\ o.pc \notin Asking
      BY <3>1 DEF Fits, Asking, Sending, CartSteps
    <3> QED BY <1>3, <3>1, <3>2, <3>3
  <2> QED BY <2>1, <2>2
<1>7. CASE WriteMarketing(r)
  <2>1. /\ op[r].seen \in Market /\ op[r].source \in Sources /\ op[r].tags \in BOOLEAN
        /\ market \in Market
    BY <1>7, OrderIs DEF WriteMarketing, OpAt, Fits, Sending
  <2>2. WithSource(op[r].seen, op[r]) \in Market
    BY <2>1 DEF WithSource, Market, mergeMarketingTag
  <2>3. market' \in Market
    BY <1>7, <2>1, <2>2 DEF WriteMarketing
  <2> QED BY <1>2, <1>7, <2>3 DEF WriteMarketing
<1>8. CASE AnswerUTM(r)
  BY <1>2, <1>8, OrderIs DEF AnswerUTM, formVars
<1> QED BY <1>4, <1>5, <1>6, <1>7, <1>8

LEMMA ShopperTypes ==
  ASSUME CartTypes, ShopperShops \/ EnterCoupon
  PROVE  CartTypes' /\ UNCHANGED op
<1>1. CASE ShopperShops
  <2>1. /\ UNCHANGED <<market, entered, crossed, op, failures>> /\ edits < MaxEdits /\ edits' = edits + 1
        /\ Writes("items", Orders)
    BY <1>1 DEF ShopperShops
  <2>2. edits' \in 0..MaxEdits /\ entered' <= edits' /\ mixed' \subseteq FormParts
    <3>1. edits \in 0..MaxEdits /\ entered <= edits /\ entered \in 0..MaxEdits
      BY DEF CartTypes, CartTypeOK
    <3> QED BY <2>1, <3>1, OrderIs, CartAssumption DEF FormParts
  <2>3. PICK k \in DOMAIN lines :
          \/ /\ lines' = RemoveAt(lines, k)
             /\ own' = [own EXCEPT ![lines[k].product] = @ - lines[k].qty]
          \/ /\ lines' = [lines EXCEPT ![k].qty = @ + 1]
             /\ own' = [own EXCEPT ![lines[k].product] = @ + 1]
    BY <1>1 DEF ShopperShops
  <2>4. lines \in Lines /\ lines[k] \in Line /\ lines[k].qty \in Nat /\ own \in [Products -> Int]
    BY LinesAre DEF CartTypes, CartTypeOK
  <2>5. own' \in [Products -> Int]
    BY <2>3, <2>4
  <2>6. lines' \in Lines
    <3>1. CASE lines' = RemoveAt(lines, k)
      BY <2>4, <3>1, CutOk
    <3>2. CASE lines' = [lines EXCEPT ![k].qty = @ + 1]
      <4>1. [lines[k] EXCEPT !.qty = @ + 1] \in Line
        BY <2>4 DEF Line
      <4>2. lines' = [lines EXCEPT ![k] = [lines[k] EXCEPT !.qty = @ + 1]]
        BY <3>2
      <4>3. lines \in Seq(Line) /\ k \in 1..Len(lines)
        BY <2>4, LinesAre
      <4>4. lines' \in Seq(Line)
        BY <4>1, <4>2, <4>3, ExceptSeq
      <4> QED BY <4>4, LinesAre
    <3> QED BY <2>3, <3>1, <3>2
  <2> QED BY <2>1, <2>2, <2>5, <2>6 DEF CartTypes, CartTypeOK, FormParts
<1>2. CASE EnterCoupon
  <2>1. /\ UNCHANGED <<lines, own, crossed, op, failures>> /\ edits < MaxEdits /\ edits' = edits + 1
        /\ entered' = entered + 1 /\ market' = [market EXCEPT !.coupon = entered']
        /\ Writes("marketing", Orders)
    BY <1>2 DEF EnterCoupon
  <2>2. /\ edits' \in 0..MaxEdits /\ entered' <= edits' /\ entered' \in 0..MaxEdits
        /\ mixed' \subseteq FormParts
    <3>1. edits \in 0..MaxEdits /\ entered <= edits /\ entered \in 0..MaxEdits
      BY DEF CartTypes, CartTypeOK
    <3> QED BY <2>1, <3>1, OrderIs, CartAssumption DEF FormParts
  <2>3. market' \in Market
    BY <2>1, <2>2, OrderIs DEF Market
  <2> QED BY <2>1, <2>2, <2>3 DEF CartTypes, CartTypeOK, FormParts
<1> QED BY <1>1, <1>2

LEMMA StartTypes ==
  ASSUME CartInit
  PROVE  CartTypes
<1>0. ASSUME NEW p \in Products PROVE InCart(p) \in Nat
  <2> DEFINE some == {k \in DOMAIN lines : lines[k].product = p}
  <2>1. lines \in Lines
    BY CartAssumption DEF CartInit
  <2>2. IsFiniteSet(some) /\ \A k \in some : lines[k].qty \in Nat
    BY <2>1, LinesAre, FS_Subset
  <2> HIDE DEF some
  <2>3. Pieces(lines, some) \in Nat
    BY <2>2, PiecesNat
  <2> QED BY <2>3 DEF InCart, some
<1>1. /\ lines \in Lines /\ market \in Market /\ own \in [Products -> Int] /\ entered = 0
      /\ mixed = {} /\ crossed = {} /\ edits \in 0..MaxEdits /\ edits = 0 /\ failures \in 0..MaxFailures
  BY <1>0, CartAssumption DEF CartInit, Market
<1>2. op = [r \in Orders |-> op[r]] /\ \A r \in Orders : op[r].pc = "new" /\ Fits(op[r])
  BY DEF CartInit, Quiet, Fits, Asking, Sending, CartSteps
<1>3. "new" \in CartSteps /\ 0 \in 0..MaxEdits
  BY CartAssumption DEF CartSteps
<1> QED BY <1>1, <1>2, <1>3 DEF CartTypes, CartTypeOK

----------------------------------------------------------------------------
(* What a list holds of a product.                                         *)

LinesOf(list, p) == {k \in DOMAIN list : list[k].product = p}
Held(list, p) == Pieces(list, LinesOf(list, p))

LEMMA HeldOk ==
  ASSUME NEW s \in Lines, NEW p
  PROVE  IsFiniteSet(LinesOf(s, p)) /\ \A k \in LinesOf(s, p) : s[k].qty \in Nat
BY LinesAre, FS_Subset DEF LinesOf

LEMMA PiecesTake ==
  ASSUME NEW list, NEW S, IsFiniteSet(S), \A k \in S : list[k].qty \in Int, NEW m \in S
  PROVE  /\ Pieces(list, S) = list[m].qty + Pieces(list, S \ {m})
         /\ Pieces(list, S \ {m}) \in Int
<1> DEFINE q == [k \in S |-> list[k].qty]
<1>1. IsFiniteSet(S \ {m}) /\ \A k \in S : q[k] = list[k].qty
  BY FS_Subset
<1>2. SumFunctionOnSet(q, S) = q[m] + SumFunctionOnSet(q, S \ {m})
  BY SumTake
<1>3. Pieces(list, S \ {m}) = SumFunctionOnSet(q, S \ {m})
  BY <1>1, PiecesAre
<1>4. SumFunctionOnSet(q, S \ {m}) \in Int
  BY <1>1, SumTake
<1>5. Pieces(list, S) = SumFunctionOnSet(q, S)
  BY DEF Pieces
<1> QED BY <1>2, <1>3, <1>4, <1>5

\* One line with another quantity.
LEMMA HeldChange ==
  ASSUME NEW s \in Lines, NEW t \in Lines, NEW m \in DOMAIN s, DOMAIN t = DOMAIN s,
         \A n \in DOMAIN s : t[n].product = s[n].product,
         \A n \in DOMAIN s \ {m} : s[n].product = s[m].product => t[n].qty = s[n].qty
  PROVE  Held(t, s[m].product) = Held(s, s[m].product) + (t[m].qty - s[m].qty)
<1> DEFINE p == s[m].product
           S == LinesOf(s, p)
           T == S \ {m}
<1>1. LinesOf(t, p) = S /\ m \in S
  BY DEF LinesOf
<1>2. IsFiniteSet(S) /\ \A k \in S : s[k].qty \in Int /\ t[k].qty \in Int
  BY <1>1, HeldOk
<1>3. IsFiniteSet(T) /\ \A k \in T : t[k].qty = s[k].qty
  BY <1>2, FS_Subset DEF LinesOf
<1> HIDE DEF S, T
<1>4. Pieces(t, T) = Pieces(s, T)
  BY <1>3, PiecesSame
<1>5. /\ Pieces(s, S) = s[m].qty + Pieces(s, T) /\ Pieces(s, T) \in Int
      /\ Pieces(t, S) = t[m].qty + Pieces(t, T)
  BY <1>1, <1>2, PiecesTake DEF T
<1>6. s[m].qty \in Int /\ t[m].qty \in Int
  BY <1>1, <1>2
<1> QED BY <1>1, <1>4, <1>5, <1>6 DEF Held, S

LEMMA HeldSame ==
  ASSUME NEW s \in Lines, NEW t, DOMAIN t = DOMAIN s, NEW p,
         \A n \in DOMAIN s : t[n].product = s[n].product,
         \A n \in DOMAIN s : s[n].product = p => t[n].qty = s[n].qty
  PROVE  Held(t, p) = Held(s, p)
<1>1. LinesOf(t, p) = LinesOf(s, p) /\ IsFiniteSet(LinesOf(s, p)) /\ \A n \in LinesOf(s, p) : t[n].qty = s[n].qty
  BY HeldOk DEF LinesOf
<1> QED BY <1>1, PiecesSame DEF Held

\* Lines behind lines.
LEMMA HeldJoin ==
  ASSUME NEW s \in Lines, NEW t \in Lines, NEW p
  PROVE  Held(s \o t, p) = Held(s, p) + Held(t, p)
<1> DEFINE u == s \o t
           L == Len(s)
           S == LinesOf(s, p)
           T == {k \in LinesOf(u, p) : k > L}
           b == [j \in LinesOf(t, p) |-> L + j]
<1>1. /\ Len(s) \in Nat /\ Len(t) \in Nat /\ DOMAIN s = 1..L /\ DOMAIN t = 1..Len(t)
      /\ DOMAIN u = 1..(L + Len(t)) /\ u \in Lines
      /\ \A k \in 1..L : u[k] = s[k]
      /\ \A k \in 1..Len(t) : u[L + k] = t[k]
  <2>1. s \in Seq(Line) /\ t \in Seq(Line) /\ Len(s) \in Nat /\ Len(t) \in Nat
        /\ DOMAIN s = 1..L /\ DOMAIN t = 1..Len(t)
    BY LinesAre
  <2>2. /\ Len(u) = L + Len(t)
        /\ \A k \in 1..(L + Len(t)) : u[k] = IF k <= L THEN s[k] ELSE t[k - L]
    BY <2>1, ConcatProperties
  <2>3. u \in Lines /\ DOMAIN u = 1..Len(u)
    BY JoinOk, LinesAre
  <2> HIDE DEF u
  <2> QED BY <2>1, <2>2, <2>3
<1> HIDE DEF u
<1>2. LinesOf(u, p) = S \cup T /\ S \cap T = {}
  BY <1>1 DEF LinesOf
<1>3. /\ IsFiniteSet(LinesOf(u, p)) /\ \A k \in LinesOf(u, p) : u[k].qty \in Int
      /\ IsFiniteSet(S) /\ IsFiniteSet(LinesOf(t, p)) /\ \A k \in LinesOf(t, p) : t[k].qty \in Int
  BY <1>1, HeldOk
<1>4. IsFiniteSet(T) /\ \A k \in S \cup T : u[k].qty \in Int
  BY <1>2, <1>3, FS_Subset
<1>5. Pieces(u, S) = Pieces(s, S)
  <2>1. \A k \in S : u[k].qty = s[k].qty
    BY <1>1 DEF LinesOf
  <2> HIDE DEF S
  <2> QED BY <1>3, <2>1, PiecesSame
<1>6. Pieces(t, LinesOf(t, p)) = Pieces(u, T)
  <2>1. b \in [LinesOf(t, p) -> T] /\ \A x \in LinesOf(t, p) : t[x].qty = u[b[x]].qty
    BY <1>1 DEF LinesOf
  <2>2. \A x, y \in LinesOf(t, p) : b[x] = b[y] => x = y
    BY <1>1 DEF LinesOf
  <2>3. ASSUME NEW y \in T PROVE \E x \in LinesOf(t, p) : b[x] = y
    <3>1. y - L \in 1..Len(t) /\ u[L + (y - L)] = t[y - L] /\ L + (y - L) = y
      BY <1>1 DEF LinesOf
    <3>2. y - L \in LinesOf(t, p)
      BY <1>1, <3>1 DEF LinesOf
    <3> QED BY <3>1, <3>2
  <2> HIDE DEF b, T
  <2> QED BY <1>3, <2>1, <2>2, <2>3, PiecesRenamed
<1>7. Pieces(u, S \cup T) = Pieces(u, S) + Pieces(u, T)
  <2> HIDE DEF S, T
  <2> QED BY <1>2, <1>3, <1>4, PiecesUnion
<1> QED BY <1>2, <1>5, <1>6, <1>7 DEF Held, u

\* A list without one of its lines.
LEMMA HeldCut ==
  ASSUME NEW s \in Lines, NEW k \in DOMAIN s, NEW p
  PROVE  Held(RemoveAt(s, k), p) = Held(s, p) - (IF s[k].product = p THEN s[k].qty ELSE 0)
<1> DEFINE u == RemoveAt(s, k)
           b == [j \in LinesOf(u, p) |-> IF j < k THEN j ELSE j + 1]
           T == LinesOf(s, p) \ {k}
<1>1. /\ Len(s) \in Nat /\ DOMAIN s = 1..Len(s) /\ u \in Lines /\ k \in 1..Len(s)
      /\ DOMAIN u = 1..(Len(s) - 1)
      /\ \A j \in 1..(Len(s) - 1) : u[j] = IF j < k THEN s[j] ELSE s[j + 1]
  <2> DEFINE x == SubSeq(s, 1, k - 1)
             y == SubSeq(s, k + 1, Len(s))
  <2>1. Len(s) \in Nat /\ DOMAIN s = 1..Len(s) /\ k \in 1..Len(s)
    BY LinesAre
  <2>2. /\ x \in Lines /\ y \in Lines /\ Len(x) = k - 1 /\ Len(y) = Len(s) - k
        /\ \A j \in 1..(k - 1) : x[j] = s[j]
        /\ \A j \in 1..(Len(s) - k) : y[j] = s[k + j] /\ u \in Lines
    BY CutOk
  <2>3. u = x \o y /\ u \in Lines
    BY CutOk DEF RemoveAt
  <2> HIDE DEF x, y
  <2>4. /\ Len(x \o y) = Len(x) + Len(y)
        /\ \A j \in 1..(Len(x) + Len(y)) : (x \o y)[j] = IF j <= Len(x) THEN x[j] ELSE y[j - Len(x)]
    <3>1. x \in Seq(Line) /\ y \in Seq(Line)
      BY <2>2, LinesAre
    <3> QED BY <3>1, ConcatProperties
  <2>5. DOMAIN u = 1..Len(u)
    BY <2>3, LinesAre
  <2> HIDE DEF u
  <2>6. Len(u) = Len(s) - 1
    BY <2>1, <2>2, <2>3, <2>4
  <2>7. ASSUME NEW j \in 1..(Len(s) - 1) PROVE u[j] = IF j < k THEN s[j] ELSE s[j + 1]
    <3>1. CASE j < k
      BY <2>1, <2>2, <2>3, <2>4, <3>1
    <3>2. CASE ~(j < k)
      <4>1. j - (k - 1) \in 1..(Len(s) - k) /\ ~(j <= k - 1) /\ k + (j - (k - 1)) = j + 1
            /\ j \in 1..(Len(x) + Len(y))
        BY <2>1, <2>2, <3>2
      <4>2. (x \o y)[j] = y[j - (k - 1)]
        BY <2>2, <2>4, <4>1
      <4>3. y[j - (k - 1)] = s[k + (j - (k - 1))]
        BY <2>2, <4>1
      <4>4. u[j] = s[j + 1]
        BY <2>3, <4>1, <4>2, <4>3, Zenon
      <4> QED BY <3>2, <4>4
    <3> QED BY <3>1, <3>2
  <2> QED BY <2>1, <2>3, <2>5, <2>6, <2>7
<1> HIDE DEF u
<1>2. /\ IsFiniteSet(LinesOf(u, p)) /\ \A j \in LinesOf(u, p) : u[j].qty \in Int
      /\ IsFiniteSet(LinesOf(s, p)) /\ \A j \in LinesOf(s, p) : s[j].qty \in Int
  BY <1>1, HeldOk
<1>3. Pieces(u, LinesOf(u, p)) = Pieces(s, T)
  <2>1. b \in [LinesOf(u, p) -> T] /\ \A j \in LinesOf(u, p) : u[j].qty = s[b[j]].qty
    <3>1. ASSUME NEW j \in LinesOf(u, p) PROVE b[j] \in T /\ u[j].qty = s[b[j]].qty
      <4>1. j \in 1..(Len(s) - 1) /\ u[j].product = p
        BY <1>1 DEF LinesOf
      <4>2. b[j] \in 1..Len(s) /\ b[j] # k /\ u[j] = s[b[j]]
        BY <1>1, <4>1
      <4> HIDE DEF b
      <4> QED BY <1>1, <4>1, <4>2 DEF LinesOf
    <3> HIDE DEF T
    <3> QED BY <3>1
  <2>2. \A x, y \in LinesOf(u, p) : b[x] = b[y] => x = y
    BY <1>1 DEF LinesOf
  <2>3. ASSUME NEW y \in T PROVE \E x \in LinesOf(u, p) : b[x] = y
    <3> DEFINE x == IF y < k THEN y ELSE y - 1
    <3>1. y \in 1..Len(s) /\ y # k /\ s[y].product = p
      BY <1>1 DEF LinesOf
    <3>2. x \in 1..(Len(s) - 1) /\ u[x] = s[y]
      BY <1>1, <3>1
    <3>3. x \in LinesOf(u, p)
      BY <1>1, <3>1, <3>2 DEF LinesOf
    <3>4. b[x] = y
      <4>1. y = IF x < k THEN x ELSE x + 1
        BY <1>1, <3>1
      <4> HIDE DEF x
      <4> QED BY <3>3, <4>1
    <3> QED BY <3>3, <3>4
  <2> HIDE DEF b, T
  <2> QED BY <1>2, <2>1, <2>2, <2>3, PiecesRenamed
<1>4. CASE s[k].product = p
  <2>1. k \in LinesOf(s, p)
    BY <1>4 DEF LinesOf
  <2>2. Pieces(s, LinesOf(s, p)) = s[k].qty + Pieces(s, T) /\ Pieces(s, T) \in Int
    BY <1>2, <2>1, PiecesTake
  <2> HIDE DEF T
  <2> QED BY <1>2, <1>3, <1>4, <2>1, <2>2 DEF Held, u
<1>5. CASE s[k].product # p
  <2>1. T = LinesOf(s, p)
    BY <1>5 DEF LinesOf
  <2>2. Pieces(s, LinesOf(s, p)) \in Nat
    BY PiecesNat, HeldOk
  <2> HIDE DEF T
  <2> QED BY <1>3, <1>5, <2>1, <2>2 DEF Held, u
<1> QED BY <1>4, <1>5

LEMMA MaxOne ==
  ASSUME NEW k \in Nat
  PROVE  Max({k}) = k
<1>1. {k} \subseteq Int /\ {k} # {}
  OBVIOUS
<1>2. IsFiniteSet({k})
  BY FS_Singleton
<1> QED BY <1>1, <1>2, Bounds

\* An update on a fresh reading adds what is asked for of the known items, of a
\* product that the lists tell apart.
LEMMA UpdateHeld ==
  ASSUME lines \in Lines, NEW items, ItemsOk(items), NEW p, p \notin Strays(lines, items)
  PROVE  /\ Applicable(ToUpdate(lines, items))
         /\ Held(Updated(ToUpdate(lines, items)), p) =
              Held(lines, p) + Pieces(items, Known(lines, items) \cap Of(p, items))
<1> DEFINE u == ToUpdate(lines, items)
           known == Known(lines, items)
           K == known \cap Of(p, items)
           For(n) == {k \in known : u[k].index = n}
           new == Updated(u)
           at(k) == Hit(lines, items, k)
           L == LinesOf(lines, p)
           M == {at(k) : k \in K}
           b == [k \in K |-> at(k)]
           old == [n \in L |-> lines[n].qty]
           now == [n \in L |-> new[n].qty]
           d == [n \in L |-> new[n].qty - lines[n].qty]
           q == [k \in K |-> items[k].qty]
<1>1. DOMAIN u = known /\ known \subseteq DOMAIN items /\ K \subseteq known
  BY SortsOk
<1>2. ASSUME NEW k \in known
      PROVE  /\ at(k) \in DOMAIN lines
             /\ u[k].index = at(k) /\ u[k].qty = lines[at(k)].qty + items[k].qty
             /\ u[k].qty \in Nat /\ items[k].qty \in Nat
  <2>1. items[k] \in Item
    BY <1>1 DEF ItemsOk
  <2>2. items[k].qty \in Nat
    BY <2>1 DEF Item
  <2>3. k \in Known(lines, items)
    OBVIOUS
  <2>4. /\ Hit(lines, items, k) \in DOMAIN lines
        /\ u[k].index = Hit(lines, items, k)
        /\ u[k].qty = lines[Hit(lines, items, k)].qty + items[k].qty /\ u[k].qty \in Nat
    <3>1. \A j \in Known(lines, items) :
            /\ Hit(lines, items, j) \in DOMAIN lines
            /\ ToUpdate(lines, items)[j].index = Hit(lines, items, j)
            /\ ToUpdate(lines, items)[j].qty = lines[Hit(lines, items, j)].qty + items[j].qty
            /\ ToUpdate(lines, items)[j].index \in Nat /\ ToUpdate(lines, items)[j].qty \in Nat
      BY SortsOk, Zenon
    <3> QED BY <2>3, <3>1
  <2> QED BY <2>2, <2>4
<1>3. DOMAIN u \subseteq Nat /\ IsFiniteSet(DOMAIN u) /\ \A k \in DOMAIN u : u[k].qty \in Nat
  <2>1. DOMAIN items \subseteq Nat /\ IsFiniteSet(DOMAIN items)
    BY DEF ItemsOk
  <2> HIDE DEF u, known
  <2> QED BY <1>1, <1>2, <2>1, FS_Subset
<1>4. Applicable(u)
  <2> HIDE DEF u, known, at
  <2> QED BY <1>1, <1>2 DEF Applicable
<1>5. new \in Lines /\ DOMAIN new = DOMAIN lines /\ \A n \in DOMAIN lines : new[n].product = lines[n].product
  <2> HIDE DEF u
  <2> QED BY <1>3, <1>4, UpdatedOk
<1>6. new = [n \in DOMAIN lines |->
              IF For(n) = {} THEN lines[n] ELSE [lines[n] EXCEPT !.qty = u[Max(For(n))].qty]]
  <2> HIDE DEF u, known
  <2> QED BY <1>1 DEF Updated
<1>7. ASSUME NEW k \in known, k \in K \/ at(k) \in L
      PROVE  k \in K /\ at(k) \in L /\ \A j \in known : at(j) = at(k) => j = k
  <2>1. items[k].id[1] = p \/ lines[at(k)].product = p
    BY <1>7 DEF Of, normalizeCartItemID, LinesOf
  <2>2. /\ items[k].id[1] = p /\ lines[at(k)].product = p
        /\ \A j \in known : at(j) = at(k) => j = k
    BY <2>1, StraysOk
  <2> QED BY <1>1, <1>2, <2>2 DEF Of, normalizeCartItemID, LinesOf
<1>8. /\ IsFiniteSet(L) /\ LinesOf(new, p) = L /\ L \subseteq DOMAIN lines
      /\ \A n \in L : lines[n].qty \in Nat /\ new[n].qty \in Nat
  <2> HIDE DEF new
  <2> QED BY <1>5, HeldOk DEF LinesOf
<1>9. IsFiniteSet(K) /\ \A k \in K : items[k].qty \in Nat
  <2> HIDE DEF known, u
  <2>1. IsFiniteSet(known)
    BY <1>1, <1>3
  <2> QED BY <1>2, <2>1, FS_Subset
<1> HIDE DEF u, known, new, at
<1>10. ASSUME NEW k \in K PROVE at(k) \in L /\ new[at(k)].qty = lines[at(k)].qty + items[k].qty
  <2>1. at(k) \in L /\ For(at(k)) = {k}
    BY <1>1, <1>2, <1>7
  <2>2. Max({k}) = k
    <3>1. k \in Nat
      BY <1>1, <1>3
    <3> QED BY <3>1, MaxOne
  <2> HIDE DEF For
  <2>3. new[at(k)] = [lines[at(k)] EXCEPT !.qty = u[k].qty]
    BY <1>6, <1>8, <2>1, <2>2
  <2>4. lines[at(k)] \in Line /\ u[k].qty = lines[at(k)].qty + items[k].qty
    BY <1>1, <1>2, <1>8, <2>1, LinesAre
  <2> QED BY <2>1, <2>3, <2>4 DEF Line
<1>11. ASSUME NEW n \in L \ M PROVE new[n].qty = lines[n].qty
  <2>1. For(n) = {}
    BY <1>2, <1>7
  <2> HIDE DEF For
  <2> QED BY <1>6, <1>8, <2>1
<1>12. M \subseteq L /\ IsFiniteSet(M) /\ IsFiniteSet(L \ M) /\ M \cup (L \ M) = L
  <2>1. M \subseteq L
    BY <1>10
  <2> HIDE DEF M, L
  <2> QED BY <1>8, <2>1, FS_Subset
<1>13. SumFunctionOnSet(q, K) = SumFunctionOnSet(d, M)
  <2>1. b \in [K -> M] /\ \A y \in M : \E x \in K : b[x] = y
    OBVIOUS
  <2>2. \A x, y \in K : b[x] = b[y] => x = y
    BY <1>1, <1>7
  <2>3. ASSUME NEW x \in K PROVE q[x] \in Int /\ q[x] = d[b[x]]
    <3>1. d[b[x]] = new[at(x)].qty - lines[at(x)].qty /\ lines[at(x)].qty \in Nat /\ items[x].qty \in Nat
      BY <1>8, <1>9, <1>10
    <3> QED BY <1>10, <3>1
  <2> HIDE DEF q, d, b, M, K
  <2> QED BY <1>9, <2>1, <2>2, <2>3, SumRenamed
<1>14. \A n \in L : d[n] \in Int /\ old[n] \in Int /\ now[n] = old[n] + d[n]
  <2> HIDE DEF L
  <2> QED BY <1>8
<1>15. \A n \in L \ M : d[n] = 0
  <2> HIDE DEF L, M
  <2> QED BY <1>8, <1>11
<1>16. Pieces(items, K) = SumFunctionOnSet(q, K)
  BY DEF Pieces
<1>17. Pieces(lines, L) = SumFunctionOnSet(old, L) /\ Pieces(new, L) = SumFunctionOnSet(now, L)
  BY DEF Pieces
<1> HIDE DEF L, M, K, q, d, old, now
<1>18. SumFunctionOnSet(d, L) = SumFunctionOnSet(d, M) + SumFunctionOnSet(d, L \ M)
  <2>1. \A x \in M \cup (L \ M) : d[x] \in Int
    BY <1>12, <1>14
  <2>2. SumFunctionOnSet(d, M \cup (L \ M)) = SumFunctionOnSet(d, M) + SumFunctionOnSet(d, L \ M)
    BY <1>12, <2>1, SumUnion
  <2> QED BY <1>12, <2>2
<1>19. SumFunctionOnSet(d, L \ M) = 0
  BY <1>12, <1>15, SumZero
<1>20. SumFunctionOnSet(now, L) = SumFunctionOnSet(old, L) + SumFunctionOnSet(d, L)
  BY <1>8, <1>14, SumPlus
<1>21. SumFunctionOnSet(d, M) \in Int
  <2>1. \A x \in M : d[x] \in Int
    BY <1>12, <1>14
  <2> QED BY <1>12, <2>1, SumTake
<1>22. Held(new, p) = Held(lines, p) + Pieces(items, K)
  <2>1. Held(new, p) = Pieces(new, L) /\ Held(lines, p) = Pieces(lines, L)
    BY <1>8 DEF Held, L
  <2> QED BY <1>13, <1>16, <1>17, <1>18, <1>19, <1>20, <1>21, <2>1
<1> QED BY <1>4, <1>22 DEF u, known, new, K

LEMMA NewHeld ==
  ASSUME NEW items, ItemsOk(items), NEW order \in Orderings(DOMAIN items), NEW p
  PROVE  Held(New(items, order), p) = Pieces(items, Of(p, items))
<1> DEFINE s == New(items, order)
           b == [n \in LinesOf(s, p) |-> order[n]]
<1>1. /\ s \in Lines /\ DOMAIN s = DOMAIN order /\ order \in [DOMAIN order -> DOMAIN items]
      /\ \A m, n \in DOMAIN order : order[m] = order[n] => m = n
      /\ \A k \in DOMAIN items : \E n \in DOMAIN order : order[n] = k
  BY NewOk
<1>2. \A n \in DOMAIN order : s[n].product = items[order[n]].id[1] /\ s[n].qty = items[order[n]].qty
  BY DEF New, normalizeCartItemID
<1> HIDE DEF s
<1>3. IsFiniteSet(LinesOf(s, p)) /\ \A n \in LinesOf(s, p) : s[n].qty \in Int
  BY <1>1, HeldOk
<1>4. b \in [LinesOf(s, p) -> Of(p, items)] /\ \A n \in LinesOf(s, p) : s[n].qty = items[b[n]].qty
  BY <1>1, <1>2 DEF LinesOf, Of, normalizeCartItemID
<1>5. \A m, n \in LinesOf(s, p) : b[m] = b[n] => m = n
  BY <1>1 DEF LinesOf
<1>6. ASSUME NEW k \in Of(p, items) PROVE \E n \in LinesOf(s, p) : b[n] = k
  <2>1. k \in DOMAIN items /\ items[k].id[1] = p
    BY DEF Of, normalizeCartItemID
  <2>2. PICK n \in DOMAIN order : order[n] = k
    BY <1>1, <2>1
  <2>3. n \in LinesOf(s, p)
    BY <1>1, <1>2, <2>1, <2>2 DEF LinesOf
  <2> QED BY <2>2, <2>3
<1> HIDE DEF b
<1>7. Pieces(s, LinesOf(s, p)) = Pieces(items, Of(p, items))
  BY <1>3, <1>4, <1>5, <1>6, PiecesRenamed
<1> QED BY <1>7 DEF Held, s

LEMMA AddHeld ==
  ASSUME lines \in Lines, NEW items, ItemsOk(items), NEW order \in Orderings(DOMAIN items),
         NEW atEnd, NEW p
  PROVE  Held(Added(items, order, atEnd), p) = Held(lines, p) + Pieces(items, Of(p, items))
<1> DEFINE s == New(items, order)
<1>1. s \in Lines /\ Held(s, p) = Pieces(items, Of(p, items))
  BY NewOk, NewHeld
<1>2. Held(s, p) \in Nat /\ Held(lines, p) \in Nat
  BY <1>1, HeldOk, PiecesNat DEF Held
<1>3. Added(items, order, atEnd) = IF atEnd THEN lines \o s ELSE s \o lines
  BY AddedIs
<1> HIDE DEF s
<1>4. Held(lines \o s, p) = Held(lines, p) + Held(s, p) /\ Held(s \o lines, p) = Held(s, p) + Held(lines, p)
  BY <1>1, HeldJoin
<1> QED BY <1>1, <1>2, <1>3, <1>4

----------------------------------------------------------------------------
(* The accounts.                                                           *)

Kept == {"order", "tell updated", "cart_updated"}
AskedOf(o, p) == IF "items" \in DOMAIN o THEN Pieces(o.items, Of(p, o.items)) ELSE 0
PutOf(o, p) == AskedOf(o, p) - Pieces(o.adds, Of(p, o.adds))
Least(o, p) == IF o.pc \in Kept THEN AskedOf(o, p)
               ELSE IF o.pc = "add items" THEN PutOf(o, p) ELSE 0
Most(o, p)  == IF o.pc \in Kept \cup {"fail cart", "cart_error"} THEN AskedOf(o, p)
               ELSE IF o.pc = "add items" THEN PutOf(o, p) ELSE 0
Low(p)  == SumFunctionOnSet([r \in Orders |-> Least(op[r], p)], Orders)
High(p) == SumFunctionOnSet([r \in Orders |-> Most(op[r], p)], Orders)

Steady(o) == o.pc = "write items" =>
  /\ o.updates = ToUpdate(lines, o.items) /\ o.adds = ToAdd(lines, o.items)
  /\ Strays(lines, o.items) \subseteq crossed

CartBooks ==
  /\ CartTypes
  /\ "items" \notin mixed =>
       /\ \A r \in Orders : Steady(op[r])
       /\ \A p \in Products \ crossed : own[p] + Low(p) <= InCart(p) /\ InCart(p) <= own[p] + High(p)

LEMMA RestPieces ==
  ASSUME NEW items, ItemsOk(items), NEW A \in SUBSET DOMAIN items, NEW p
  PROVE  /\ Pieces(Restrict(items, A), Of(p, Restrict(items, A))) = Pieces(items, Of(p, items) \cap A)
         /\ Pieces(items, Of(p, items)) =
              Pieces(items, Of(p, items) \cap A) + Pieces(items, Of(p, items) \ A)
         /\ Pieces(items, Of(p, items)) \in Nat /\ Pieces(items, Of(p, items) \cap A) \in Nat
         /\ Pieces(items, Of(p, items) \ A) \in Nat
<1> DEFINE rest == Restrict(items, A)
           S == Of(p, items) \cap A
           T == Of(p, items) \ A
<1>1. DOMAIN rest = A /\ \A k \in A : rest[k] = items[k]
  BY RestrictOk
<1>2. Of(p, rest) = S
  BY <1>1 DEF Of
<1>3. /\ IsFiniteSet(DOMAIN items) /\ Of(p, items) \subseteq DOMAIN items
      /\ \A k \in DOMAIN items : items[k].qty \in Nat
  BY DEF ItemsOk, Item, Of
<1>4. IsFiniteSet(S) /\ IsFiniteSet(T) /\ S \cap T = {} /\ S \cup T = Of(p, items)
  BY <1>3, FS_Subset
<1>5. \A k \in S \cup T : items[k].qty \in Nat /\ items[k].qty \in Int
  BY <1>3
<1>6. \A k \in S : rest[k].qty = items[k].qty
  BY <1>1
<1> HIDE DEF rest, S, T
<1>7. Pieces(rest, S) = Pieces(items, S)
  BY <1>4, <1>6, PiecesSame
<1>8. Pieces(items, S \cup T) = Pieces(items, S) + Pieces(items, T)
  BY <1>4, <1>5, PiecesUnion
<1>9. Pieces(items, S) \in Nat /\ Pieces(items, T) \in Nat
  BY <1>4, <1>5, PiecesNat
<1>10. Pieces(rest, Of(p, rest)) = Pieces(items, S)
  BY <1>2, <1>7
<1>11. /\ Pieces(items, Of(p, items)) = Pieces(items, S) + Pieces(items, T)
       /\ Pieces(items, Of(p, items)) \in Nat
  <2>1. Pieces(items, Of(p, items)) = Pieces(items, S \cup T)
    BY <1>4, Zenon
  <2>2. Pieces(items, S \cup T) \in Nat
    BY <1>8, <1>9
  <2> QED BY <1>8, <2>1, <2>2
<1> QED BY <1>9, <1>10, <1>11 DEF rest, S, T

\* What a request can have put into the cart.
LEMMA Amounts ==
  ASSUME NEW o, Fits(o), NEW p
  PROVE  /\ AskedOf(o, p) \in Nat /\ Least(o, p) \in Int /\ Most(o, p) \in Int
         /\ Least(o, p) <= Most(o, p) /\ Most(o, p) <= AskedOf(o, p) /\ 0 <= Least(o, p)
         /\ o.pc = "cart_updated" => Least(o, p) = AskedOf(o, p)
         /\ o.pc \notin Asking => Least(o, p) = 0 /\ Most(o, p) = 0
         /\ o.pc \in Asking => AskedOf(o, p) = Pieces(o.items, Of(p, o.items))
<1>1. AskedOf(o, p) \in Nat
  <2>1. CASE "items" \in DOMAIN o
    <3>1. ItemsOk(o.items)
      BY <2>1 DEF Fits
    <3>2. Pieces(o.items, Of(p, o.items)) \in Nat
      BY <3>1, RestPieces
    <3> QED BY <2>1, <3>2 DEF AskedOf
  <2>2. CASE "items" \notin DOMAIN o
    BY <2>2 DEF AskedOf
  <2> QED BY <2>1, <2>2
<1>2. ASSUME o.pc = "add items" PROVE PutOf(o, p) \in Nat /\ PutOf(o, p) <= AskedOf(o, p)
  <2>1. ItemsOk(o.items) /\ "items" \in DOMAIN o
    BY <1>2 DEF Fits, Asking
  <2>2. PICK A \in SUBSET DOMAIN o.items : o.adds = Restrict(o.items, A)
    BY <1>2 DEF Fits
  <2> DEFINE i == o.items
             a == Pieces(i, Of(p, i))
             n == Pieces(i, Of(p, i) \cap A)
             m == Pieces(i, Of(p, i) \ A)
  <2>3. /\ Pieces(o.adds, Of(p, o.adds)) = n /\ a = n + m
        /\ a \in Nat /\ n \in Nat /\ m \in Nat
    <3> HIDE DEF i
    <3>1. ItemsOk(i) /\ A \in SUBSET DOMAIN i /\ o.adds = Restrict(i, A)
      BY <2>1, <2>2 DEF i
    <3>2. /\ Pieces(Restrict(i, A), Of(p, Restrict(i, A))) = n /\ a = n + m
          /\ a \in Nat /\ n \in Nat /\ m \in Nat
      BY <3>1, RestPieces, Zenon
    <3> HIDE DEF a, n, m
    <3> QED BY <3>1, <3>2
  <2>4. AskedOf(o, p) = a
    BY <2>1 DEF AskedOf
  <2> HIDE DEF a, n, m
  <2> QED BY <2>3, <2>4 DEF PutOf
<1>3. o.pc \notin Asking => o.pc \notin Kept \cup {"fail cart", "cart_error", "add items"}
  BY DEF Asking, Kept
<1>4. o.pc \in Asking => AskedOf(o, p) = Pieces(o.items, Of(p, o.items))
  BY DEF Fits, AskedOf
<1>5. o.pc = "add items" => o.pc \notin Kept \cup {"fail cart", "cart_error"}
  BY DEF Kept
<1>6. /\ o.pc \in Kept => Least(o, p) = AskedOf(o, p)
      /\ o.pc \in Kept \cup {"fail cart", "cart_error"} => Most(o, p) = AskedOf(o, p)
      /\ o.pc = "add items" => Least(o, p) = PutOf(o, p) /\ Most(o, p) = PutOf(o, p)
      /\ o.pc \notin Kept \cup {"add items"} => Least(o, p) = 0
      /\ o.pc \notin Kept \cup {"add items", "fail cart", "cart_error"} => Most(o, p) = 0
  BY <1>5 DEF Least, Most
<1>7. o.pc = "cart_updated" => o.pc \in Kept
  BY DEF Kept
<1>8. /\ Least(o, p) \in Int /\ Most(o, p) \in Int /\ Least(o, p) <= Most(o, p)
      /\ Most(o, p) <= AskedOf(o, p) /\ 0 <= Least(o, p)
  <2> DEFINE a == AskedOf(o, p)
             l == Least(o, p)
             m == Most(o, p)
             put == PutOf(o, p)
  <2>1. /\ a \in Nat
        /\ o.pc \in Kept => l = a /\ m = a
        /\ o.pc = "add items" => l = put /\ m = put /\ put \in Nat /\ put <= a
        /\ o.pc \in {"fail cart", "cart_error"} => l = 0 /\ m = a
        /\ o.pc \notin Kept \cup {"add items", "fail cart", "cart_error"} => l = 0 /\ m = 0
    <3>1. o.pc \in {"fail cart", "cart_error"} => o.pc \notin Kept \cup {"add items"}
      BY DEF Kept
    <3> QED BY <1>1, <1>2, <1>6, <3>1, Zenon
  <2> HIDE DEF a, l, m, put
  <2>2. \/ l = a /\ m = a
        \/ l = put /\ m = put /\ put \in Nat /\ put <= a
        \/ l = 0 /\ m = a
        \/ l = 0 /\ m = 0
    <3>1. \/ o.pc \in Kept \/ o.pc = "add items" \/ o.pc \in {"fail cart", "cart_error"}
          \/ o.pc \notin Kept \cup {"add items", "fail cart", "cart_error"}
      OBVIOUS
    <3> QED BY <2>1, <3>1, Zenon
  <2>3. a \in Nat
    BY <2>1
  <2>4. l \in Int /\ m \in Int /\ l <= m /\ m <= a /\ 0 <= l
    BY <2>2, <2>3
  <2> QED BY <2>4 DEF a, l, m
<1>9. o.pc \notin Asking => Least(o, p) = 0 /\ Most(o, p) = 0
  BY <1>3, <1>6
<1> QED BY <1>1, <1>4, <1>6, <1>7, <1>8, <1>9

\* The sums follow one request.
LEMMA BooksStep ==
  ASSUME IsFiniteSet(Orders), CartBooks, CartTypes', NEW r \in Orders,
         \A k \in Orders \ {r} : op'[k] = op[k],
         crossed \subseteq crossed', own' = own,
         "items" \notin mixed' =>
           /\ "items" \notin mixed
           /\ \A k \in Orders : Steady(op[k])'
           /\ \A p \in Products \ crossed' : \E d \in Int :
                /\ InCart(p)' = InCart(p) + d
                /\ Least(op'[r], p) - Least(op[r], p) <= d
                /\ d <= Most(op'[r], p) - Most(op[r], p)
  PROVE  CartBooks'
<1>2. ASSUME "items" \notin mixed', NEW p \in Products \ crossed'
      PROVE  (own[p] + Low(p) <= InCart(p) /\ InCart(p) <= own[p] + High(p))'
  <2>1. PICK d \in Int :
          /\ InCart(p)' = InCart(p) + d
          /\ Least(op'[r], p) - Least(op[r], p) <= d
          /\ d <= Most(op'[r], p) - Most(op[r], p)
    BY <1>2
  <2>2. \A k \in Orders : Fits(op[k]) /\ Fits(op'[k])
    BY DEF CartBooks, CartTypes
  <2> DEFINE l == [k \in Orders |-> Least(op[k], p)]
             l2 == [k \in Orders |-> Least(op'[k], p)]
             h == [k \in Orders |-> Most(op[k], p)]
             h2 == [k \in Orders |-> Most(op'[k], p)]
  <2>3. \A k \in Orders : l[k] \in Int /\ l2[k] \in Int /\ h[k] \in Int /\ h2[k] \in Int
    BY <2>2, Amounts
  <2>4. \A k \in Orders \ {r} : l[k] = l2[k] /\ h[k] = h2[k]
    OBVIOUS
  <2>5. /\ l[r] = Least(op[r], p) /\ l2[r] = Least(op'[r], p)
        /\ h[r] = Most(op[r], p) /\ h2[r] = Most(op'[r], p)
    OBVIOUS
  <2>6. /\ Low(p) = SumFunctionOnSet(l, Orders) /\ Low(p)' = SumFunctionOnSet(l2, Orders)
        /\ High(p) = SumFunctionOnSet(h, Orders) /\ High(p)' = SumFunctionOnSet(h2, Orders)
    BY DEF Low, High
  <2> HIDE DEF l, l2, h, h2
  <2>7. /\ Low(p)' = Low(p) + (l2[r] - l[r]) /\ Low(p) \in Int
        /\ High(p)' = High(p) + (h2[r] - h[r]) /\ High(p) \in Int
    <3>1. /\ SumFunctionOnSet(l2, Orders) = SumFunctionOnSet(l, Orders) + (l2[r] - l[r])
          /\ SumFunctionOnSet(l, Orders) \in Int
      <4>1. \A k \in Orders : l[k] \in Int /\ l2[k] \in Int
        BY <2>3
      <4>2. \A k \in Orders \ {r} : l[k] = l2[k]
        BY <2>4
      <4>3. IsFiniteSet(Orders) /\ r \in Orders
        OBVIOUS
      <4> QED BY ONLY <4>1, <4>2, <4>3, SumChange, SMTT(30)
    <3>2. /\ SumFunctionOnSet(h2, Orders) = SumFunctionOnSet(h, Orders) + (h2[r] - h[r])
          /\ SumFunctionOnSet(h, Orders) \in Int
      <4>1. \A k \in Orders : h[k] \in Int /\ h2[k] \in Int
        BY <2>3
      <4>2. \A k \in Orders \ {r} : h[k] = h2[k]
        BY <2>4
      <4>3. IsFiniteSet(Orders) /\ r \in Orders
        OBVIOUS
      <4> QED BY ONLY <4>1, <4>2, <4>3, SumChange, SMTT(30)
    <3> QED BY <2>6, <3>1, <3>2
  <2>8. own[p] + Low(p) <= InCart(p) /\ InCart(p) <= own[p] + High(p)
    BY <1>2 DEF CartBooks
  <2>9. own[p] \in Int /\ InCart(p) \in Int
    <3>1. lines \in Lines /\ own \in [Products -> Int]
      BY DEF CartBooks, CartTypes, CartTypeOK
    <3>2. Held(lines, p) \in Nat
      BY <3>1, HeldOk, PiecesNat DEF Held
    <3> QED BY <3>1, <3>2 DEF InCart, Held, LinesOf
  <2>10. own'[p] = own[p]
    OBVIOUS
  <2>11. l2[r] - l[r] <= d /\ d <= h2[r] - h[r]
    BY <2>1, <2>5
  <2>12. l2[r] \in Int /\ l[r] \in Int /\ h2[r] \in Int /\ h[r] \in Int
    BY <2>3
  <2> QED BY <2>1, <2>7, <2>8, <2>9, <2>10, <2>11, <2>12
<1> QED BY <1>2 DEF CartBooks

\* The cart is as it was.
LEMMA BooksStill ==
  ASSUME IsFiniteSet(Orders), CartBooks, CartTypes', NEW r \in Orders,
         \A k \in Orders \ {r} : op'[k] = op[k],
         crossed \subseteq crossed', UNCHANGED <<own, lines>>,
         "items" \notin mixed' =>
           /\ "items" \notin mixed
           /\ Steady(op[r])'
           /\ \A p \in Products : Least(op'[r], p) <= Least(op[r], p) /\ Most(op[r], p) <= Most(op'[r], p)
  PROVE  CartBooks'
<1>1. ASSUME NEW p \in Products PROVE InCart(p)' = InCart(p) + 0
  <2>1. InCart(p) \in Nat
    <3>1. lines \in Lines
      BY DEF CartBooks, CartTypes, CartTypeOK
    <3>2. Held(lines, p) \in Nat
      BY <3>1, HeldOk, PiecesNat DEF Held
    <3> QED BY <3>2 DEF InCart, Held, LinesOf
  <2> QED BY <2>1 DEF InCart
<1>2. ASSUME "items" \notin mixed' PROVE \A k \in Orders : Steady(op[k])'
  BY <1>2 DEF CartBooks, Steady
<1>3. ASSUME NEW p \in Products
      PROVE  /\ Least(op'[r], p) \in Int /\ Least(op[r], p) \in Int
             /\ Most(op'[r], p) \in Int /\ Most(op[r], p) \in Int
  <2>1. Fits(op[r]) /\ Fits(op'[r])
    BY DEF CartBooks, CartTypes
  <2> QED BY <2>1, Amounts
<1>4. ASSUME "items" \notin mixed', NEW p \in Products
      PROVE  \E d \in Int :
                /\ InCart(p)' = InCart(p) + d
                /\ Least(op'[r], p) - Least(op[r], p) <= d
                /\ d <= Most(op'[r], p) - Most(op[r], p)
  <2>1. /\ Least(op'[r], p) - Least(op[r], p) <= 0
        /\ 0 <= Most(op'[r], p) - Most(op[r], p)
    BY <1>3, <1>4
  <2> QED BY <1>1, <2>1
<1> QED BY <1>2, <1>4, BooksStep

----------------------------------------------------------------------------
(* The steps keep the books.                                               *)

LEMMA BooksOk ==
  ASSUME CartBooks, NEW r \in Orders
  PROVE  /\ CartTypes /\ Fits(op[r]) /\ lines \in Lines /\ op = [k \in Orders |-> op[k]]
         /\ op[r].pc \in Asking => ItemsOk(op[r].items)
         /\ \A part, others : Writes(part, others) => mixed \subseteq mixed'
         /\ own \in [Products -> Int]
BY DEF CartBooks, CartTypes, CartTypeOK, Fits, Writes

LEMMA AskBooks ==
  ASSUME IsFiniteSet(Orders), CartBooks, NEW r \in Orders, NEW data \in Wishes, AddToCart(r, data)
  PROVE  CartBooks'
<1>1. /\ CartTypes' /\ \A k \in Orders \ {r} : op'[k] = op[k]
  BY AskTypes, BooksOk
<1>2. op[r].pc = "new" /\ UNCHANGED <<own, lines, mixed, crossed>>
  BY DEF AddToCart, OpAt, formVars
<1>3. \/ op'[r] = [pc |-> "refused"]
      \/ op'[r] = [pc |-> "read items", items |-> parseCartItems(data)] /\ ValidItems(data)
  BY BooksOk DEF AddToCart
<1>4. op'[r].pc \in {"refused", "read items"}
  <2> DEFINE o == op'[r]
  <2>1. CASE o = [pc |-> "refused"]
    <3>1. o.pc = "refused"
      <4> HIDE DEF o
      <4> QED BY <2>1
    <3> QED BY <3>1
  <2>2. CASE o = [pc |-> "read items", items |-> parseCartItems(data)]
    <3>1. o.pc = "read items"
      <4> HIDE DEF o
      <4> QED BY <2>2
    <3> QED BY <3>1
  <2> QED BY <1>3, <2>1, <2>2
<1>5. \A p : Least(op[r], p) = 0 /\ Most(op[r], p) = 0 /\ Least(op'[r], p) = 0 /\ Most(op'[r], p) = 0
  BY <1>2, <1>4 DEF Least, Most, Kept
<1>6. Steady(op[r])'
  BY <1>4 DEF Steady
<1> QED BY <1>1, <1>2, <1>5, <1>6, BooksStill

LEMMA RestAll ==
  ASSUME NEW items, ItemsOk(items), NEW adds, adds = Restrict(items, DOMAIN items), NEW p
  PROVE  Pieces(adds, Of(p, adds)) = Pieces(items, Of(p, items))
<1>1. Of(p, items) \cap DOMAIN items = Of(p, items)
  BY DEF Of
<1>2. Pieces(adds, Of(p, adds)) = Pieces(items, Of(p, items) \cap DOMAIN items)
  BY RestPieces
<1> QED BY <1>1, <1>2

LEMMA ReadBooks ==
  ASSUME IsFiniteSet(Orders), CartBooks, NEW r \in Orders, ReadItems(r)
  PROVE  CartBooks'
<1>1. /\ CartTypes' /\ \A k \in Orders \ {r} : op'[k] = op[k]
      /\ UNCHANGED <<own, lines, mixed>> /\ crossed \subseteq crossed'
  BY ReadTypes, BooksOk
<1>2. op[r].pc = "read items" /\ op[r].pc \in Asking
  BY DEF ReadItems, OpAt, Asking
<1> DEFINE items == op[r].items
<1>3. ItemsOk(items)
  BY <1>2, BooksOk
<1>4. \A p : Least(op[r], p) = 0 /\ Most(op[r], p) = 0
  BY <1>2 DEF Least, Most, Kept
<1>5. Fits(op'[r])
  BY <1>1 DEF CartTypes
<1>6. CASE OpGoto(r, "fail cart")
  <2>1. op'[r].pc = "fail cart" /\ op'[r].items = items
    <3>1. op'[r] = [op[r] EXCEPT !.pc = "fail cart"]
      BY <1>6, BooksOk DEF OpGoto
    <3>2. {"pc", "items"} \subseteq DOMAIN op[r]
      BY <1>2, BooksOk DEF Fits
    <3> QED BY <3>1, <3>2
  <2>2. \A p : Least(op'[r], p) = 0
    BY <2>1 DEF Least, Kept
  <2>3. \A p : 0 <= Most(op'[r], p)
    BY <1>5, <2>2, Amounts
  <2>4. Steady(op[r])'
    BY <2>1 DEF Steady
  <2> HIDE DEF items
  <2>6. \A p : Least(op'[r], p) <= Least(op[r], p) /\ Most(op[r], p) <= Most(op'[r], p)
    BY <1>4, <2>2, <2>3
  <2> QED BY <1>1, <2>4, <2>6, BooksStill
<1>7. CASE ~OpGoto(r, "fail cart")
  <2> DEFINE o(where) == [pc |-> where, items |-> items,
                updates |-> ToUpdate(lines, items), adds |-> ToAdd(lines, items)]
             where2 == IF Known(lines, items) = {} THEN "add items" ELSE "write items"
  <2>1. op'[r] = o(where2)
    BY <1>7, BooksOk DEF ReadItems
  <2>2. /\ op'[r].pc = where2 /\ op'[r].items = items
        /\ op'[r].updates = ToUpdate(lines, items) /\ op'[r].adds = ToAdd(lines, items)
    <3> DEFINE n == op'[r]
               u == ToUpdate(lines, items)
               a == ToAdd(lines, items)
    <3>1. n = [pc |-> where2, items |-> items, updates |-> u, adds |-> a]
      BY <2>1
    <3> HIDE DEF n, u, a, items, where2
    <3>2. n.pc = where2 /\ n.items = items /\ n.updates = u /\ n.adds = a
      BY <3>1
    <3> QED BY <3>2 DEF n, u, a
  <2>3. Steady(op[r])'
    <3>1. crossed' = crossed \cup Strays(lines, items)
      BY <1>7 DEF ReadItems
    <3> HIDE DEF items
    <3> QED BY <1>1, <2>2, <3>1 DEF Steady
  <2>4. ASSUME NEW p PROVE Least(op'[r], p) = 0 /\ Most(op'[r], p) = 0
    <3>1. CASE Known(lines, items) # {}
      BY <2>2, <3>1 DEF Least, Most, Kept
    <3>2. CASE Known(lines, items) = {}
      <4> DEFINE A == DOMAIN items \ Known(lines, items)
      <4>1. op'[r].adds = Restrict(items, A) /\ A = DOMAIN items /\ A \in SUBSET DOMAIN items
        BY <2>2, <3>2 DEF ToAdd
      <4> HIDE DEF items, A
      <4>3. Pieces(op'[r].adds, Of(p, op'[r].adds)) = Pieces(items, Of(p, items))
        BY <1>3, <4>1, RestAll
      <4>4. op'[r].pc = "add items"
        BY <2>2, <3>2
      <4>5. AskedOf(op'[r], p) = Pieces(items, Of(p, items)) /\ AskedOf(op'[r], p) \in Nat
        BY <1>5, <2>2, <4>4, Amounts DEF Asking
      <4>6. PutOf(op'[r], p) = 0
        BY <4>3, <4>5 DEF PutOf
      <4> QED BY <4>4, <4>6 DEF Least, Most, Kept
    <3> QED BY <3>1, <3>2
  <2> HIDE DEF items, o, where2
  <2>6. \A p : Least(op'[r], p) <= Least(op[r], p) /\ Most(op[r], p) <= Most(op'[r], p)
    <3> TAKE p
    <3>1. Least(op'[r], p) = 0 /\ Most(op'[r], p) = 0 /\ Least(op[r], p) = 0 /\ Most(op[r], p) = 0
      BY <1>4, <2>4
    <3> QED BY <3>1
  <2> QED BY <1>1, <2>3, <2>6, BooksStill
<1> QED BY <1>6, <1>7

LEMMA StillBooks ==
  ASSUME IsFiniteSet(Orders), CartBooks, NEW r \in Orders, PostOrder(r) \/ AnswerCart(r)
  PROVE  CartBooks'
<1>1. /\ CartTypes' /\ \A k \in Orders \ {r} : op'[k] = op[k]
      /\ \E where \in Asking : op'[r] = [op[r] EXCEPT !.pc = where] /\ op'[r].pc = where
  BY WriteTypes, BooksOk
<1>2. UNCHANGED <<own, lines, mixed, crossed>>
  BY DEF PostOrder, AnswerCart, formVars
<1>3. op[r].pc \in Asking
  BY DEF PostOrder, AnswerCart, OpAt, Asking
<1>4. op'[r].items = op[r].items /\ DOMAIN op'[r] = DOMAIN op[r] /\ "items" \in DOMAIN op[r]
  BY <1>1, <1>3, BooksOk DEF Fits
<1>5. \A p : AskedOf(op'[r], p) = AskedOf(op[r], p)
  BY <1>4 DEF AskedOf
<1>6. \/ op[r].pc \in {"order", "tell updated"} /\ op'[r].pc \in {"tell updated", "cart_updated"}
      \/ op[r].pc = "fail cart" /\ op'[r].pc = "cart_error"
  BY BooksOk DEF PostOrder, AnswerCart, OpAt, OpGoto, Fits
<1>7. \A p : Least(op[r], p) = Least(op'[r], p) /\ Most(op[r], p) = Most(op'[r], p)
  BY <1>5, <1>6 DEF Least, Most, Kept
<1>8. Steady(op[r])'
  BY <1>6 DEF Steady
<1>9. \A p : Least(op'[r], p) <= Least(op[r], p) /\ Most(op[r], p) <= Most(op'[r], p)
  <2>1. Fits(op[r])
    BY BooksOk
  <2> QED BY <1>7, <2>1, Amounts
<1> QED BY <1>1, <1>2, <1>8, <1>9, BooksStill

LEMMA UtmBooks ==
  ASSUME IsFiniteSet(Orders), CartBooks, NEW r \in Orders,
         \/ \E s \in Sources \cup {NoSource} : SendUTM(r, s)
         \/ channelUsesMarketingTags(r) \/ ReadMarketing(r) \/ WriteMarketing(r) \/ AnswerUTM(r)
  PROVE  CartBooks'
<1>1. /\ CartTypes' /\ \A k \in Orders \ {r} : op'[k] = op[k]
      /\ op'[r].pc \notin Asking /\ op[r].pc \notin Asking
      /\ UNCHANGED <<lines, own, crossed>> /\ ("items" \in mixed' <=> "items" \in mixed)
  BY UtmTypes, BooksOk
<1>2. \A p : Least(op[r], p) = 0 /\ Most(op[r], p) = 0 /\ Least(op'[r], p) = 0 /\ Most(op'[r], p) = 0
  <2>1. Fits(op[r]) /\ Fits(op'[r])
    BY <1>1, BooksOk DEF CartTypes
  <2> QED BY <1>1, <2>1, Amounts
<1>3. Steady(op[r])'
  BY <1>1 DEF Steady, Asking
<1> QED BY <1>1, <1>2, <1>3, BooksStill

\* Nobody else was about to write when this one did, or the books are open.
LEMMA Alone ==
  ASSUME CartBooks, NEW others, others \subseteq Orders, Writes("items", others), "items" \notin mixed'
  PROVE  "items" \notin mixed /\ \A k \in others : op[k].pc # "write items"
BY DEF Writes, WriteStep

LEMMA UpdateBooks ==
  ASSUME IsFiniteSet(Orders), CartBooks, NEW r \in Orders, UpdateItems(r)
  PROVE  CartBooks'
<1>1. /\ CartTypes' /\ \A k \in Orders \ {r} : op'[k] = op[k]
      /\ \E where \in Asking : op'[r] = [op[r] EXCEPT !.pc = where] /\ op'[r].pc = where
  BY WriteTypes, BooksOk
<1>2. op[r].pc = "write items" /\ op[r].pc \in Asking /\ UNCHANGED <<own, crossed>>
  BY DEF UpdateItems, OpAt, Asking
<1> DEFINE items == op[r].items
           o == op[r]
           n == op'[r]
<1>3. ItemsOk(items) /\ lines \in Lines
  BY <1>2, BooksOk
<1>4. n.items = items /\ n.adds = o.adds /\ DOMAIN n = DOMAIN o /\ "items" \in DOMAIN o
  BY <1>1, <1>2, BooksOk DEF Fits
<1>5. /\ n.pc \in {"fail cart", "order", "add items"}
      /\ n.pc = "order" => DOMAIN o.adds = {}
      /\ \/ UNCHANGED <<lines, mixed>> /\ n.pc = "fail cart"
         \/ lines' = Updated(o.updates) /\ Writes("items", Orders \ {r})
  <2>1. \A where : OpGoto(r, where) => n.pc = where
    BY BooksOk DEF OpGoto, Fits
  <2> HIDE DEF n
  <2> QED BY <2>1 DEF UpdateItems
<1>6. Fits(o) /\ Fits(n)
  BY <1>1, BooksOk DEF CartTypes
<1>7. ASSUME NEW p
      PROVE  /\ Least(o, p) = 0 /\ Most(o, p) = 0 /\ AskedOf(n, p) = AskedOf(o, p)
             /\ n.pc = "fail cart" => Least(n, p) = 0 /\ Most(n, p) = AskedOf(n, p)
             /\ n.pc = "order" => Least(n, p) = AskedOf(n, p) /\ Most(n, p) = AskedOf(n, p)
             /\ n.pc = "add items" => Least(n, p) = PutOf(n, p) /\ Most(n, p) = PutOf(n, p)
             /\ PutOf(n, p) = PutOf(o, p)
  <2> HIDE DEF o, n, items
  <2>1. o.items = items /\ o.pc = "write items"
    BY <1>2 DEF o, items
  <2>2. AskedOf(n, p) = AskedOf(o, p)
    BY <1>4, <2>1 DEF AskedOf
  <2>3. PutOf(n, p) = PutOf(o, p)
    BY <1>4, <2>2 DEF PutOf
  <2> QED BY <2>1, <2>2, <2>3 DEF Least, Most, Kept
<1>9. CASE UNCHANGED <<lines, mixed>> /\ n.pc = "fail cart"
  <2>1. Steady(op[r])'
    BY <1>9 DEF Steady
  <2>2. ASSUME NEW p
        PROVE  Least(op'[r], p) <= Least(op[r], p) /\ Most(op[r], p) <= Most(op'[r], p)
    <3>1. AskedOf(n, p) \in Nat
      BY <1>6, Amounts
    <3>2. Least(n, p) = 0 /\ Least(o, p) = 0 /\ Most(o, p) = 0 /\ Most(n, p) = AskedOf(n, p)
      BY <1>7, <1>9
    <3> QED BY <3>1, <3>2
  <2> QED BY <1>1, <1>2, <1>9, <2>1, <2>2, BooksStill
<1>10. CASE lines' = Updated(o.updates) /\ Writes("items", Orders \ {r})
  <2>1. ASSUME "items" \notin mixed'
        PROVE  /\ "items" \notin mixed /\ Steady(o)
               /\ \A k \in Orders : Steady(op[k])'
    <3>1. "items" \notin mixed /\ \A k \in Orders \ {r} : op[k].pc # "write items"
      BY <1>10, <2>1, Alone
    <3>2. Steady(o)
      BY <3>1 DEF CartBooks
    <3>3. n.pc # "write items"
      BY <1>5
    <3>4. \A k \in Orders : op'[k].pc # "write items"
      BY <1>1, <3>1, <3>3
    <3> HIDE DEF o, n, items
    <3> QED BY <3>1, <3>2, <3>4 DEF Steady
  <2>2. ASSUME "items" \notin mixed', NEW p \in Products \ crossed'
        PROVE  \E d \in Int :
                 /\ InCart(p)' = InCart(p) + d
                 /\ Least(op'[r], p) - Least(op[r], p) <= d
                 /\ d <= Most(op'[r], p) - Most(op[r], p)
    <3> DEFINE known == Known(lines, items)
               A == DOMAIN items \ known
               d == Pieces(items, Of(p, items) \cap known)
               left == Pieces(items, Of(p, items) \cap A)
    <3>1. /\ o.updates = ToUpdate(lines, items) /\ o.adds = Restrict(items, A)
          /\ p \notin Strays(lines, items)
      BY <1>2, <2>1, <2>2 DEF Steady, ToAdd
    <3>2. Held(lines', p) = Held(lines, p) + Pieces(items, known \cap Of(p, items))
      <4>1. lines' = Updated(ToUpdate(lines, items))
        BY <1>10, <3>1
      <4> HIDE DEF items
      <4>2. Held(Updated(ToUpdate(lines, items)), p) = Held(lines, p) + Pieces(items, known \cap Of(p, items))
        BY <1>3, <3>1, UpdateHeld
      <4> QED BY <4>1, <4>2
    <3>3. InCart(p)' = InCart(p) + d
      <4>1. known \cap Of(p, items) = Of(p, items) \cap known
        OBVIOUS
      <4>2. InCart(p)' = Held(lines', p) /\ InCart(p) = Held(lines, p)
        BY DEF InCart, Held, LinesOf
      <4> QED BY <3>2, <4>1, <4>2
    <3>4. Of(p, items) \ A = Of(p, items) \cap known /\ A \in SUBSET DOMAIN items
      BY DEF Of
    <3> HIDE DEF items, A, known, n, o
    <3>5. /\ Pieces(o.adds, Of(p, o.adds)) = left
          /\ Pieces(items, Of(p, items)) = left + d /\ left \in Nat /\ d \in Nat
      <4>1. Pieces(Restrict(items, A), Of(p, Restrict(items, A))) = left
        BY <1>3, <3>4, RestPieces
      <4>2. Pieces(items, Of(p, items)) = left + Pieces(items, Of(p, items) \ A)
        BY <1>3, <3>4, RestPieces
      <4>3. left \in Nat /\ Pieces(items, Of(p, items) \ A) \in Nat
        BY <1>3, <3>4, RestPieces
      <4> HIDE DEF left
      <4> QED BY <3>1, <3>4, <4>1, <4>2, <4>3
    <3>6. AskedOf(o, p) = left + d /\ PutOf(o, p) = d
      <4>1. AskedOf(o, p) = Pieces(items, Of(p, items))
        BY <1>2, <1>6, Amounts DEF o, items
      <4> HIDE DEF left, d
      <4> QED BY <3>5, <4>1 DEF PutOf
    <3>7. n.pc = "order" => left = 0
      <4>1. ASSUME n.pc = "order" PROVE left = 0
        <5>1. DOMAIN o.adds = {}
          BY <1>5, <4>1
        <5>2. Of(p, o.adds) = {}
          BY <5>1 DEF Of
        <5> QED BY <3>5, <5>2, PiecesNone
      <4> QED BY <4>1
    <3>8. Least(n, p) <= d /\ d <= Most(n, p) /\ Least(o, p) = 0 /\ Most(o, p) = 0
      <4> DEFINE a == AskedOf(n, p)
                 put == PutOf(n, p)
      <4>1. a = left + d /\ put = d /\ left \in Nat /\ d \in Nat
        BY <1>7, <3>5, <3>6
      <4>2. /\ Least(o, p) = 0 /\ Most(o, p) = 0
            /\ n.pc = "fail cart" => Least(n, p) = 0 /\ Most(n, p) = a
            /\ n.pc = "order" => Least(n, p) = a /\ Most(n, p) = a
            /\ n.pc = "add items" => Least(n, p) = put /\ Most(n, p) = put
        BY <1>7
      <4>3. \/ Least(n, p) = 0 /\ Most(n, p) = a
            \/ Least(n, p) = a /\ Most(n, p) = a /\ left = 0
            \/ Least(n, p) = put /\ Most(n, p) = put
        BY <1>5, <3>7, <4>2
      <4>4. Least(o, p) = 0 /\ Most(o, p) = 0
        BY <4>2
      <4> DEFINE l == Least(n, p)
                 m == Most(n, p)
      <4>5. \/ l = 0 /\ m = a
            \/ l = a /\ m = a /\ left = 0
            \/ l = put /\ m = put
        BY <4>3
      <4> HIDE DEF a, put, left, d, l, m
      <4>6. l <= d /\ d <= m
        BY <4>1, <4>5
      <4> QED BY <4>4, <4>6 DEF l, m
    <3>9. d \in Int
      BY <3>5
    <3> HIDE DEF d, left
    <3>10. Least(n, p) - Least(o, p) <= d /\ d <= Most(n, p) - Most(o, p)
      <4>1. Least(n, p) \in Int /\ Most(n, p) \in Int
        BY <1>6, Amounts
      <4> QED BY <3>8, <3>9, <4>1
    <3> QED BY <3>3, <3>9, <3>10 DEF n, o
  <2> HIDE DEF items
  <2> QED BY <1>1, <1>2, <2>1, <2>2, BooksStep
<1> QED BY <1>5, <1>9, <1>10

LEMMA AddBooks ==
  ASSUME IsFiniteSet(Orders), CartBooks, NEW r \in Orders, AddItems(r)
  PROVE  CartBooks'
<1>1. /\ CartTypes' /\ \A k \in Orders \ {r} : op'[k] = op[k]
      /\ \E where \in Asking : op'[r] = [op[r] EXCEPT !.pc = where] /\ op'[r].pc = where
  BY WriteTypes, BooksOk
<1>2. op[r].pc = "add items" /\ op[r].pc \in Asking /\ UNCHANGED <<own, crossed>>
  BY DEF AddItems, OpAt, Asking
<1> DEFINE o == op[r]
           n == op'[r]
<1>3. ItemsOk(o.items) /\ lines \in Lines /\ Fits(o) /\ Fits(n)
  BY <1>1, <1>2, BooksOk DEF CartTypes
<1>4. n.items = o.items /\ n.adds = o.adds /\ DOMAIN n = DOMAIN o /\ "items" \in DOMAIN o
  BY <1>1, <1>2, BooksOk DEF Fits
<1>5. /\ n.pc \in {"fail cart", "order"}
      /\ \/ UNCHANGED <<lines, mixed>> /\ n.pc = "fail cart"
         \/ /\ Writes("items", Orders \ {r})
            /\ \E order \in Orderings(DOMAIN o.adds), atEnd \in BOOLEAN :
                 lines' = Added(o.adds, order, atEnd)
  <2>1. \A where : OpGoto(r, where) => n.pc = where
    BY BooksOk DEF OpGoto, Fits
  <2> HIDE DEF n
  <2> QED BY <2>1 DEF AddItems
<1>6. ASSUME NEW p
      PROVE  /\ Least(o, p) = PutOf(o, p) /\ Most(o, p) = PutOf(o, p)
             /\ n.pc = "fail cart" => Least(n, p) = 0 /\ Most(n, p) = AskedOf(o, p)
             /\ n.pc = "order" => Least(n, p) = AskedOf(o, p) /\ Most(n, p) = AskedOf(o, p)
  <2> HIDE DEF o, n
  <2>1. o.pc = "add items"
    BY <1>2 DEF o
  <2>2. AskedOf(n, p) = AskedOf(o, p)
    BY <1>4 DEF AskedOf
  <2> QED BY <2>1, <2>2 DEF Least, Most, Kept
<1>7. \A k \in Orders : "items" \notin mixed /\ "items" \notin mixed' => Steady(op[k])'
  <2>1. n.pc # "write items"
    BY <1>5
  <2>2. ASSUME NEW k \in Orders, "items" \notin mixed, "items" \notin mixed', k # r PROVE Steady(op[k])'
    <3>1. op'[k] = op[k]
      BY <1>1, <2>2
    <3>2. UNCHANGED lines \/ op[k].pc # "write items"
      <4>1. CASE Writes("items", Orders \ {r})
        BY <2>2, <4>1, Alone
      <4> QED BY <1>5, <4>1
    <3>3. Steady(op[k])
      BY <2>2 DEF CartBooks
    <3> QED BY <1>2, <3>1, <3>2, <3>3 DEF Steady
  <2> HIDE DEF n
  <2>3. Steady(op[r])'
    BY <2>1 DEF Steady, n
  <2> QED BY <2>2, <2>3
<1>8. ASSUME "items" \notin mixed' PROVE "items" \notin mixed
  <2>1. CASE Writes("items", Orders \ {r})
    BY <1>8, <2>1, Alone
  <2> QED BY <1>5, <1>8, <2>1
<1>9. ASSUME NEW p \in Products
      PROVE  \E d \in Int :
                 /\ InCart(p)' = InCart(p) + d
                 /\ Least(op'[r], p) - Least(op[r], p) <= d
                 /\ d <= Most(op'[r], p) - Most(op[r], p)
  <2> DEFINE left == Pieces(o.adds, Of(p, o.adds))
             a == AskedOf(o, p)
             put == PutOf(o, p)
             l == Least(n, p)
             m == Most(n, p)
  <2>1. left \in Nat /\ a \in Nat /\ put \in Nat /\ a = put + left
    <3>1. a \in Nat /\ 0 <= Least(o, p)
      BY <1>3, Amounts
    <3>2. Least(o, p) = put
      BY <1>6
    <3>3. put = a - left
      BY DEF PutOf
    <3>4. left \in Nat
      <4>1. ItemsOk(o.adds)
        <5>1. PICK A \in SUBSET DOMAIN o.items : o.adds = Restrict(o.items, A)
          BY <1>2, <1>3 DEF Fits
        <5>2. ItemsOk(Restrict(o.items, A))
          BY <1>3, RestrictOk
        <5> QED BY <5>1, <5>2, Zenon
      <4>2. IsFiniteSet(Of(p, o.adds)) /\ \A k \in Of(p, o.adds) : o.adds[k].qty \in Nat
        BY <4>1, FS_Subset DEF Of, ItemsOk, Item
      <4> HIDE DEF o
      <4> QED BY <4>2, PiecesNat
    <3> HIDE DEF a, left, put
    <3> QED BY <3>1, <3>2, <3>3, <3>4
  <2>2. InCart(p)' = Held(lines', p) /\ InCart(p) = Held(lines, p) /\ Held(lines, p) \in Nat
    BY <1>3, HeldOk, PiecesNat DEF InCart, Held, LinesOf
  <2>3. \/ InCart(p)' = InCart(p) /\ n.pc = "fail cart"
        \/ InCart(p)' = InCart(p) + left
    <3>1. CASE UNCHANGED <<lines, mixed>> /\ n.pc = "fail cart"
      BY <2>2, <3>1
    <3>2. CASE \E order \in Orderings(DOMAIN o.adds), atEnd \in BOOLEAN :
                 lines' = Added(o.adds, order, atEnd)
      <4>1. PICK order \in Orderings(DOMAIN o.adds), atEnd \in BOOLEAN :
                   lines' = Added(o.adds, order, atEnd)
        BY <3>2
      <4>2. ItemsOk(o.adds)
        BY <1>2, <4>1, AddLines, BooksOk
      <4>3. Held(Added(o.adds, order, atEnd), p) = Held(lines, p) + left
        <5> HIDE DEF o
        <5> QED BY <1>3, <4>2, AddHeld
      <4> QED BY <2>2, <4>1, <4>3
    <3> QED BY <1>5, <3>1, <3>2
  <2>4. /\ Least(o, p) = put /\ Most(o, p) = put
        /\ \/ l = 0 /\ m = a /\ n.pc = "fail cart"
           \/ l = a /\ m = a /\ n.pc # "fail cart"
    BY <1>5, <1>6
  <2>5. \E d \in Int : InCart(p)' = InCart(p) + d /\ l - put <= d /\ d <= m - put
    <3> HIDE DEF l, m, a, put, left
    <3>1. CASE InCart(p)' = InCart(p) /\ n.pc = "fail cart"
      <4>0. InCart(p) \in Nat
        BY <2>2, Zenon
      <4> DEFINE c == InCart(p)
                 c2 == InCart(p)'
      <4>1. c2 = c + 0
        <5>1. c2 = c /\ c \in Nat
          BY <3>1, <4>0
        <5> HIDE DEF c, c2
        <5> QED BY <5>1
      <4>2. l = 0 /\ m = a
        BY <2>4, <3>1
      <4>3. l - put <= 0 /\ 0 <= m - put
        BY <2>1, <4>2
      <4> QED BY <4>1, <4>3
    <3>2. CASE InCart(p)' = InCart(p) + left
      <4>1. m = a /\ (l = 0 \/ l = a)
        BY <2>4
      <4>2. l - put <= left /\ left <= m - put /\ left \in Int
        BY <2>1, <4>1
      <4> QED BY <3>2, <4>2
    <3> QED BY <2>3, <3>1, <3>2
  <2> QED BY <2>4, <2>5
<1> QED BY <1>1, <1>2, <1>7, <1>8, <1>9, BooksStep

LEMMA ShopBooks ==
  ASSUME IsFiniteSet(Orders), CartBooks, ShopperShops \/ EnterCoupon
  PROVE  CartBooks'
<1>1. CartTypes' /\ UNCHANGED <<op, crossed>> /\ lines \in Lines
  BY ShopperTypes DEF CartBooks, CartTypes, CartTypeOK, ShopperShops, EnterCoupon
<1>3. \A p : Low(p)' = Low(p) /\ High(p)' = High(p)
  BY <1>1 DEF Low, High
<1>4. CASE EnterCoupon
  <2>1. UNCHANGED <<lines, own>> /\ ("items" \in mixed' <=> "items" \in mixed)
    BY <1>4 DEF EnterCoupon, Writes
  <2>2. \A p : InCart(p)' = InCart(p)
    BY <2>1 DEF InCart
  <2>3. \A r \in Orders : Steady(op[r]) => Steady(op[r])'
    BY <1>1, <2>1 DEF Steady
  <2> QED BY <1>1, <1>3, <2>1, <2>2, <2>3 DEF CartBooks
<1>5. CASE ShopperShops
  <2>1. PICK k \in DOMAIN lines :
          \/ /\ lines' = RemoveAt(lines, k)
             /\ own' = [own EXCEPT ![lines[k].product] = @ - lines[k].qty]
          \/ /\ lines' = [lines EXCEPT ![k].qty = @ + 1]
             /\ own' = [own EXCEPT ![lines[k].product] = @ + 1]
    BY <1>5 DEF ShopperShops
  <2>2. ASSUME "items" \notin mixed' PROVE "items" \notin mixed /\ \A r \in Orders : Steady(op[r])'
    <3>1. "items" \notin mixed /\ \A r \in Orders : op[r].pc # "write items"
      BY <1>5, <2>2, Alone DEF ShopperShops
    <3> QED BY <1>1, <3>1 DEF Steady
  <2>3. own \in [Products -> Int] /\ lines[k].product \in Products /\ lines[k].qty \in Nat
    BY <1>1, LinesAre DEF CartBooks, CartTypes, CartTypeOK
  <2>4. ASSUME NEW p \in Products
        PROVE  /\ InCart(p)' - own'[p] = InCart(p) - own[p]
               /\ InCart(p)' \in Int /\ own'[p] \in Int /\ InCart(p) \in Int /\ own[p] \in Int
    <3>1. InCart(p)' = Held(lines', p) /\ InCart(p) = Held(lines, p)
      BY DEF InCart, Held, LinesOf
    <3>2. Held(lines', p) \in Nat /\ Held(lines, p) \in Nat
      <4>1. lines' \in Lines
        BY <1>1 DEF CartTypes, CartTypeOK
      <4> QED BY <1>1, <4>1, HeldOk, PiecesNat DEF Held
    <3>3. CASE /\ lines' = RemoveAt(lines, k)
               /\ own' = [own EXCEPT ![lines[k].product] = @ - lines[k].qty]
      <4>1. Held(lines', p) = Held(lines, p) - (IF lines[k].product = p THEN lines[k].qty ELSE 0)
        BY <1>1, <3>3, HeldCut
      <4>2. own'[p] = own[p] - (IF lines[k].product = p THEN lines[k].qty ELSE 0) /\ own[p] \in Int
        BY <2>3, <3>3
      <4> QED BY <2>3, <3>1, <3>2, <4>1, <4>2
    <3>4. CASE /\ lines' = [lines EXCEPT ![k].qty = @ + 1]
               /\ own' = [own EXCEPT ![lines[k].product] = @ + 1]
      <4>1. own'[p] = own[p] + (IF lines[k].product = p THEN 1 ELSE 0) /\ own[p] \in Int
        BY <2>3, <3>4
      <4>2. lines[k] \in Line
        BY <1>1, LinesAre
      <4>3. /\ DOMAIN lines' = DOMAIN lines
            /\ \A m \in DOMAIN lines : lines'[m].product = lines[m].product
            /\ \A m \in DOMAIN lines \ {k} : lines'[m].qty = lines[m].qty
            /\ lines'[k].qty = lines[k].qty + 1
        BY <3>4, <4>2 DEF Line
      <4>4. lines' \in Lines
        BY <1>1 DEF CartTypes, CartTypeOK
      <4>5. CASE lines[k].product = p
        <5>1. Held(lines', lines[k].product) = Held(lines, lines[k].product) + (lines'[k].qty - lines[k].qty)
          BY <1>1, <4>3, <4>4, HeldChange
        <5>2. Held(lines', p) = Held(lines, p) + 1
          BY <2>3, <3>2, <4>3, <4>5, <5>1
        <5> QED BY <3>1, <3>2, <4>1, <4>5, <5>2
      <4>6. CASE lines[k].product # p
        <5>1. \A m \in DOMAIN lines : lines[m].product = p => lines'[m].qty = lines[m].qty
          BY <4>3, <4>6
        <5>2. Held(lines', p) = Held(lines, p)
          BY <1>1, <4>3, <5>1, HeldSame
        <5> QED BY <3>1, <3>2, <4>1, <4>6, <5>2
      <4> QED BY <4>5, <4>6
    <3> QED BY <2>1, <3>3, <3>4
  <2>5. ASSUME NEW p \in Products PROVE Low(p) \in Int /\ High(p) \in Int
    <3>1. \A r \in Orders : Least(op[r], p) \in Int /\ Most(op[r], p) \in Int
      BY BooksOk, Amounts
    <3> QED BY <3>1, SumTake DEF Low, High
  <2>6. ASSUME "items" \notin mixed', NEW p \in Products \ crossed
        PROVE  (own[p] + Low(p) <= InCart(p) /\ InCart(p) <= own[p] + High(p))'
    <3>1. own[p] + Low(p) <= InCart(p) /\ InCart(p) <= own[p] + High(p)
      BY <2>2, <2>6 DEF CartBooks
    <3> QED BY <1>3, <2>4, <2>5, <3>1
  <2> QED BY <1>1, <2>2, <2>6 DEF CartBooks
<1> QED BY <1>4, <1>5

\* In the beginning nothing was asked for.
LEMMA StartBooks ==
  ASSUME IsFiniteSet(Orders), CartInit
  PROVE  CartBooks
<1>1. CartTypes
  BY StartTypes
<1>2. \A r \in Orders : op[r].pc = "new"
  BY DEF CartInit, Quiet
<1>3. \A r \in Orders : op[r].pc \notin Asking /\ Steady(op[r])
  BY <1>2 DEF Asking, Steady
<1>4. ASSUME NEW p \in Products
      PROVE  own[p] + Low(p) <= InCart(p) /\ InCart(p) <= own[p] + High(p)
  <2>1. \A r \in Orders : Least(op[r], p) = 0 /\ Most(op[r], p) = 0
    BY <1>2 DEF Least, Most, Kept
  <2>2. Low(p) = 0 /\ High(p) = 0
    BY <2>1, SumZero DEF Low, High
  <2>3. own[p] = InCart(p)
    BY DEF CartInit
  <2>4. own[p] \in Int
    BY <1>1 DEF CartTypes, CartTypeOK
  <2> QED BY <2>2, <2>3, <2>4
<1> QED BY <1>1, <1>3, <1>4 DEF CartBooks

\* What the books say of the answers that were given.
LEMMA BooksSay ==
  ASSUME IsFiniteSet(Orders), CartBooks
  PROVE  CartAccounts
<1> SUFFICES ASSUME "items" \notin mixed, NEW p \in Products \ crossed
             PROVE  /\ InCart(p) >= own[p] + AskedBy({r \in Orders : OpAt(r, "cart_updated")}, p)
                    /\ InCart(p) <= own[p] + AskedBy(Orders, p)
  BY DEF CartAccounts
<1> DEFINE Done == {r \in Orders : OpAt(r, "cart_updated")}
           l == [r \in Orders |-> Least(op[r], p)]
           m == [r \in Orders |-> Most(op[r], p)]
           a == [r \in Orders |-> Asked(r, p)]
           Rest == Orders \ Done
           z == [r \in Rest |-> 0]
<1>1. own[p] + Low(p) <= InCart(p) /\ InCart(p) <= own[p] + High(p)
  BY DEF CartBooks
<1>2. \A r \in Orders : /\ l[r] \in Int /\ m[r] \in Int /\ a[r] \in Int /\ 0 <= l[r] /\ m[r] <= a[r]
                        /\ r \in Done => l[r] = a[r]
  <2>1. ASSUME NEW r \in Orders PROVE Fits(op[r]) /\ Asked(r, p) = AskedOf(op[r], p)
    BY BooksOk DEF Asked, AskedOf
  <2> QED BY <2>1, Amounts DEF OpAt
<1>3. /\ Low(p) = SumFunctionOnSet(l, Orders) /\ High(p) = SumFunctionOnSet(m, Orders)
      /\ AskedBy(Orders, p) = SumFunctionOnSet(a, Orders)
  BY DEF Low, High, AskedBy
<1>4. IsFiniteSet(Done) /\ IsFiniteSet(Rest) /\ Done \cup Rest = Orders /\ Done \cap Rest = {}
  BY FS_Subset
<1>5. AskedBy(Done, p) = SumFunctionOnSet(l, Done)
  <2>1. \A r \in Done : [k \in Done |-> Asked(k, p)][r] = l[r]
    BY <1>2
  <2> HIDE DEF Done, l
  <2> QED BY <1>4, <2>1, SumSame DEF AskedBy
<1> HIDE DEF l, m, a, Done, Rest
<1>6. SumFunctionOnSet(l, Orders) = SumFunctionOnSet(l, Done) + SumFunctionOnSet(l, Rest)
  BY <1>2, <1>4, SumUnion
<1>7. 0 <= SumFunctionOnSet(l, Rest)
  <2>1. SumFunctionOnSet(z, Rest) = 0
    BY <1>4, SumZero
  <2>2. SumFunctionOnSet(z, Rest) <= SumFunctionOnSet(l, Rest)
    BY <1>2, <1>4, SumLess
  <2> QED BY <2>1, <2>2
<1>8. SumFunctionOnSet(m, Orders) <= SumFunctionOnSet(a, Orders)
  BY <1>2, SumLess
<1>9. /\ SumFunctionOnSet(l, Done) \in Int /\ SumFunctionOnSet(l, Rest) \in Int
      /\ SumFunctionOnSet(m, Orders) \in Int /\ SumFunctionOnSet(a, Orders) \in Int
  BY <1>2, <1>4, SumTake
<1>10. own[p] \in Int /\ InCart(p) \in Int
  <2>1. lines \in Lines /\ own[p] \in Int
    BY BooksOk DEF CartBooks, CartTypes, CartTypeOK
  <2>2. Held(lines, p) \in Nat
    BY <2>1, HeldOk, PiecesNat DEF Held
  <2> QED BY <2>1, <2>2 DEF InCart, Held, LinesOf
<1>11. InCart(p) >= own[p] + AskedBy(Done, p)
  BY <1>1, <1>3, <1>5, <1>6, <1>7, <1>9, <1>10
<1>12. InCart(p) <= own[p] + AskedBy(Orders, p)
  BY <1>1, <1>3, <1>8, <1>9, <1>10
<1> QED BY <1>11, <1>12 DEF Done

=============================================================================
