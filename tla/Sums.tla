-------------------------------- MODULE Sums --------------------------------
(***************************************************************************)
(* What FoldFunction(+, 0, g) is, the sum of the values of g, for every    *)
(* finite domain: a number, within bounds, and the same in every order.    *)
(***************************************************************************)
EXTENDS Integers, Functions, FiniteSetTheorems, TLAPS
-----------------------------------------------------------------------------
(* Sums.  A claim about all subsets of a finite set is proved by looking   *)
(* at a smallest subset it fails of.                                       *)

LEMMA SmallestSubset ==
    ASSUME NEW S, IsFiniteSet(S), NEW F \in SUBSET SUBSET S, F # {}
    PROVE  \E T \in F : \A U \in F : U \subseteq T => U = T
<1>1. FiniteSubsetsOf(S) = SUBSET S
  BY FS_FiniteSubsetsOfFinite
<1>2. IsWellFoundedOn(StrictSubsetOrdering(S), SUBSET S)
  BY <1>1, FS_StrictSubsetOrderingWellFounded
<1>3. F \subseteq SUBSET S
  OBVIOUS
<1>4. PICK T \in F : \A U \in F : ~ (<<U, T>> \in StrictSubsetOrdering(S))
  BY <1>2, <1>3, WFMin
<1>5. ASSUME NEW U \in F, U \subseteq T PROVE U = T
  BY <1>4, <1>5 DEF StrictSubsetOrdering
<1> QED  BY <1>5

\* The element a sum takes first.
First(T) == CHOOSE x \in T : TRUE

\* it adds up the values of g over each subset of S, in the order of a fold.
Adds(S, g, it) ==
    it = [T \in SUBSET S |-> IF T = {} THEN 0 ELSE g[First(T)] + it[T \ {First(T)}]]

LEMMA FoldIsChosen ==
    ASSUME NEW g
    PROVE  FoldFunction(+, 0, g) = (CHOOSE it : Adds(DOMAIN g, g, it))[DOMAIN g]
BY DEF FoldFunction, FoldFunctionOnSet, MapThenFoldSet, Adds, First

LEMMA FirstFacts ==
    ASSUME NEW T, T # {}
    PROVE  First(T) \in T /\ T \ {First(T)} \subseteq T /\ T \ {First(T)} # T
BY DEF First

\* Two that add up agree on what both of them add up.
LEMMA AddsAgree ==
    ASSUME NEW S, IsFiniteSet(S), NEW U \in SUBSET S, NEW V \in SUBSET S, NEW g,
           NEW a, Adds(U, g, a), NEW b, Adds(V, g, b)
    PROVE  \A T \in SUBSET (U \cap V) : a[T] = b[T]
<1> DEFINE F == {T \in SUBSET (U \cap V) : a[T] # b[T]}
<1> SUFFICES ASSUME F # {} PROVE FALSE
  OBVIOUS
<1>1. F \in SUBSET SUBSET S
  OBVIOUS
<1>2. PICK T \in F : \A W \in F : W \subseteq T => W = T
  <2> HIDE DEF F
  <2> QED  BY <1>1, SmallestSubset
<1>3. /\ a[T] = IF T = {} THEN 0 ELSE g[First(T)] + a[T \ {First(T)}]
      /\ b[T] = IF T = {} THEN 0 ELSE g[First(T)] + b[T \ {First(T)}]
  BY DEF Adds
<1>4. CASE T = {}
  BY <1>3, <1>4
<1>5. CASE T # {}
  <2>1. T \ {First(T)} \subseteq T /\ T \ {First(T)} # T
    BY <1>5, FirstFacts
  <2>2. a[T \ {First(T)}] = b[T \ {First(T)}]
    BY <1>2, <2>1
  <2> QED  BY <1>3, <1>5, <2>2
<1> QED  BY <1>4, <1>5

\* There is one that adds up the values over all subsets.
LEMMA AddsExists ==
    ASSUME NEW S, IsFiniteSet(S), NEW g
    PROVE  \E it : Adds(S, g, it)
<1> DEFINE F == {T \in SUBSET S : ~ \E it : Adds(T, g, it)}
<1> SUFFICES ASSUME F # {} PROVE FALSE
  OBVIOUS
<1>1. PICK T \in F : \A W \in F : W \subseteq T => W = T
  <2>1. F \in SUBSET SUBSET S
    OBVIOUS
  <2> HIDE DEF F
  <2> QED  BY <2>1, SmallestSubset
<1> DEFINE sum(V) == CHOOSE it : Adds(V, g, it)
           rest(V) == V \ {First(V)}
           all == [V \in SUBSET T |->
                      IF V = {} THEN 0 ELSE g[First(V)] + sum(rest(V))[rest(V)]]
<1>2. \A V \in SUBSET T : V # T => Adds(V, g, sum(V))
  BY <1>1
<1> HIDE DEF sum
<1>3. ASSUME NEW V \in SUBSET T, V # {}
      PROVE  rest(V) \in SUBSET T /\ rest(V) # T /\ rest(V) # V
  BY <1>3, FirstFacts
<1> HIDE DEF rest
<1>4. ASSUME NEW V \in SUBSET T, V # T
      PROVE  all[V] = sum(V)[V]
  <2>1. sum(V)[V] = IF V = {} THEN 0 ELSE g[First(V)] + sum(V)[rest(V)]
    BY <1>2, <1>4 DEF Adds, rest
  <2>2. CASE V = {}
    BY <2>1, <2>2
  <2>3. CASE V # {}
    <3> DEFINE R == rest(V)
    <3>1. R \in SUBSET V /\ R \in SUBSET T /\ R # T
      BY <1>3, <2>3 DEF rest
    <3>2. Adds(V, g, sum(V)) /\ Adds(R, g, sum(R))
      BY <1>2, <1>4, <3>1
    <3>3. V \in SUBSET S /\ R \in SUBSET S
      BY <3>1
    <3> HIDE DEF R
    <3>4. \A W \in SUBSET (V \cap R) : sum(V)[W] = sum(R)[W]
      BY <3>2, <3>3, AddsAgree
    <3>5. sum(V)[R] = sum(R)[R]
      BY <3>1, <3>4
    <3> QED  BY <2>1, <2>3, <3>5 DEF R
  <2> QED  BY <2>2, <2>3
<1>5. Adds(T, g, all)
  <2>1. ASSUME NEW V \in SUBSET T, V # {}
        PROVE  sum(rest(V))[rest(V)] = all[rest(V)]
    BY <1>3, <1>4, <2>1
  <2>2. all = [V \in SUBSET T |-> IF V = {} THEN 0 ELSE g[First(V)] + all[rest(V)]]
    BY <2>1
  <2> HIDE DEF all
  <2> QED  BY <2>2 DEF Adds, rest
<1> QED  BY <1>1, <1>5

SumOf(S, g) == CHOOSE it : Adds(S, g, it)

Sum(g) == FoldFunction(+, 0, g)

SumsUp(S, g) ==
    /\ Sum(g) = SumOf(S, g)[S]
    /\ SumOf(S, g)[{}] = 0
    /\ \A T \in SUBSET S : SumOf(S, g)[T] \in Nat
    /\ \A T \in SUBSET S : \A y \in T : SumOf(S, g)[T] = g[y] + SumOf(S, g)[T \ {y}]

\* A sum of naturals is a natural, and any element may be taken out of it first.
LEMMA SumFacts ==
    ASSUME NEW S, IsFiniteSet(S), NEW g \in [S -> Nat]
    PROVE  SumsUp(S, g)
<1> DEFINE sum == SumOf(S, g)
<1>1. Sum(g) = sum[S]
  <2>1. DOMAIN g = S
    OBVIOUS
  <2> QED  BY <2>1, FoldIsChosen DEF SumOf, Sum
<1>2. Adds(S, g, sum)
  BY AddsExists DEF SumOf
<1> HIDE DEF sum
<1>3. \A T \in SUBSET S :
         sum[T] = IF T = {} THEN 0 ELSE g[First(T)] + sum[T \ {First(T)}]
  BY <1>2 DEF Adds
<1>4. sum[{}] = 0
  BY <1>3
<1>5. \A T \in SUBSET S : sum[T] \in Nat
  <2> DEFINE F == {T \in SUBSET S : sum[T] \notin Nat}
  <2> SUFFICES ASSUME F # {} PROVE FALSE
    OBVIOUS
  <2>1. PICK T \in F : \A W \in F : W \subseteq T => W = T
    <3>1. F \in SUBSET SUBSET S
      OBVIOUS
    <3> HIDE DEF F
    <3> QED  BY <3>1, SmallestSubset
  <2>2. T \in SUBSET S /\ T # {}
    BY <1>4
  <2>3. First(T) \in T /\ T \ {First(T)} \subseteq T /\ T \ {First(T)} # T
    BY <2>2, FirstFacts
  <2>4. sum[T \ {First(T)}] \in Nat
    BY <2>1, <2>2, <2>3
  <2>5. g[First(T)] \in Nat
    BY <2>2, <2>3
  <2>6. sum[T] \notin Nat
    OBVIOUS
  <2> HIDE DEF F
  <2> QED  BY <1>3, <2>2, <2>4, <2>5, <2>6
<1>6. \A T \in SUBSET S : \A y \in T : sum[T] = g[y] + sum[T \ {y}]
  <2> DEFINE F == {T \in SUBSET S : \E y \in T : sum[T] # g[y] + sum[T \ {y}]}
  <2> SUFFICES ASSUME F # {} PROVE FALSE
    OBVIOUS
  <2>1. PICK T \in F : \A W \in F : W \subseteq T => W = T
    <3>1. F \in SUBSET SUBSET S
      OBVIOUS
    <3> HIDE DEF F
    <3> QED  BY <3>1, SmallestSubset
  <2>2. PICK y \in T : sum[T] # g[y] + sum[T \ {y}]
    OBVIOUS
  <2> DEFINE x == First(T)
  <2>3. T \in SUBSET S /\ x \in T
    BY FirstFacts
  <2> HIDE DEF x
  <2>4. sum[T] = g[x] + sum[T \ {x}]
    BY <1>3, <2>2 DEF x
  <2>5. x # y
    BY <2>2, <2>4
  <2> DEFINE Tx == T \ {x}
             Ty == T \ {y}
             Txy == T \ {x, y}
  <2>6. /\ Tx \in SUBSET S /\ y \in Tx /\ Tx # T /\ Tx \subseteq T
        /\ Ty \in SUBSET S /\ x \in Ty /\ Ty # T /\ Ty \subseteq T
        /\ Tx \ {y} = Txy /\ Ty \ {x} = Txy /\ Txy \in SUBSET S
    BY <2>3, <2>5
  <2>7. sum[Tx] = g[y] + sum[Tx \ {y}]
    BY <2>1, <2>6
  <2>8. sum[Ty] = g[x] + sum[Ty \ {x}]
    BY <2>1, <2>6
  <2>9. g[x] \in Nat /\ g[y] \in Nat /\ sum[Txy] \in Nat
    BY <1>5, <2>3, <2>6
  <2>10. sum[Tx] = g[y] + sum[Txy] /\ sum[Ty] = g[x] + sum[Txy]
    BY <2>6, <2>7, <2>8
  <2>11. sum[T] = g[x] + sum[Tx] /\ sum[T] # g[y] + sum[Ty]
    BY <2>2, <2>4
  <2> HIDE DEF Tx, Ty, Txy
  <2> QED  BY <2>9, <2>10, <2>11
<1> QED  BY <1>1, <1>4, <1>5, <1>6 DEF sum, SumsUp

\* A sum of n values up to B is at most n * B.
LEMMA SumBound ==
    ASSUME NEW S, IsFiniteSet(S), NEW B \in Nat, NEW g \in [S -> 0 .. B]
    PROVE  Sum(g) \in 0 .. Cardinality(S) * B
<1> DEFINE sum == SumOf(S, g)
           F   == {T \in SUBSET S : ~(sum[T] <= Cardinality(T) * B)}
<1>1. g \in [S -> Nat]
  OBVIOUS
<1>2. /\ Sum(g) = sum[S]
      /\ sum[{}] = 0
      /\ \A T \in SUBSET S : sum[T] \in Nat
      /\ \A T \in SUBSET S : \A y \in T : sum[T] = g[y] + sum[T \ {y}]
  BY <1>1, SumFacts DEF SumsUp
<1> HIDE DEF sum
<1>3. F = {}
  <2> SUFFICES ASSUME F # {} PROVE FALSE
    OBVIOUS
  <2>1. PICK T \in F : \A W \in F : W \subseteq T => W = T
    <3>1. F \in SUBSET SUBSET S
      OBVIOUS
    <3> HIDE DEF F
    <3> QED  BY <3>1, SmallestSubset
  <2>2. T \in SUBSET S /\ IsFiniteSet(T) /\ Cardinality(T) \in Nat
    <3>1. T \in SUBSET S
      OBVIOUS
    <3> HIDE DEF F
    <3> QED  BY <3>1, FS_Subset, FS_CardinalityType
  <2>3. T # {}
    <3>1. Cardinality({}) = 0
      BY FS_EmptySet
    <3>2. 0 <= 0 * B
      OBVIOUS
    <3> QED  BY <1>2, <3>1, <3>2
  <2>4. PICK y \in T : TRUE
    BY <2>3
  <2> DEFINE R == T \ {y}
  <2>5. R \in SUBSET S /\ R \subseteq T /\ R # T /\ Cardinality(R) = Cardinality(T) - 1
    BY <2>2, <2>4, FS_RemoveElement
  <2>6. sum[R] <= Cardinality(R) * B
    BY <2>1, <2>5
  <2>7. sum[T] = g[y] + sum[R] /\ sum[R] \in Nat /\ sum[T] \in Nat /\ g[y] \in 0 .. B
    BY <1>2, <2>2, <2>4, <2>5
  <2>8. ~(sum[T] <= Cardinality(T) * B)
    OBVIOUS
  <2> HIDE DEF F, R
  <2>9. (Cardinality(T) - 1) * B + B = Cardinality(T) * B /\ (Cardinality(T) - 1) * B \in Int
    BY <2>2
  <2> QED  BY <2>5, <2>6, <2>7, <2>8, <2>9
<1>4. Cardinality(S) \in Nat /\ sum[S] \in Nat /\ sum[S] <= Cardinality(S) * B
  BY <1>2, <1>3, FS_CardinalityType
<1>5. Cardinality(S) * B \in Nat
  BY <1>4
<1> QED  BY <1>2, <1>4, <1>5

\* A sum does not depend on where its values stand.
LEMMA SumReordered ==
    ASSUME NEW S, IsFiniteSet(S), NEW f \in Injection(S, S), NEW g \in [S -> Nat],
           NEW h \in [S -> Nat], \A x \in S : h[x] = g[f[x]]
    PROVE  Sum(h) = Sum(g)
<1>1. SumsUp(S, g) /\ SumsUp(S, h)
  BY SumFacts
<1> DEFINE sumg   == SumOf(S, g)
           sumh   == SumOf(S, h)
           to(T)  == {f[x] : x \in T}
           F      == {T \in SUBSET S : sumh[T] # sumg[to(T)]}
<1>2. /\ Sum(g) = sumg[S] /\ Sum(h) = sumh[S]
      /\ sumg[{}] = 0 /\ sumh[{}] = 0
      /\ \A T \in SUBSET S : sumg[T] \in Nat /\ sumh[T] \in Nat
      /\ \A T \in SUBSET S : \A y \in T : /\ sumg[T] = g[y] + sumg[T \ {y}]
                                          /\ sumh[T] = h[y] + sumh[T \ {y}]
  BY <1>1 DEF SumsUp
<1> HIDE DEF sumg, sumh
<1>3. F = {}
  <2> SUFFICES ASSUME F # {} PROVE FALSE
    OBVIOUS
  <2>1. PICK T \in F : \A W \in F : W \subseteq T => W = T
    <3>1. F \in SUBSET SUBSET S
      OBVIOUS
    <3> HIDE DEF F
    <3> QED  BY <3>1, SmallestSubset
  <2>2. T \in SUBSET S /\ sumh[T] # sumg[to(T)]
    OBVIOUS
  <2>3. T # {}
    <3>1. to({}) = {}
      OBVIOUS
    <3> QED  BY <1>2, <2>2, <3>1
  <2>4. PICK x \in T : TRUE
    BY <2>3
  <2> DEFINE R == T \ {x}
  <2>5. R \in SUBSET S /\ R \subseteq T /\ R # T
    BY <2>2, <2>4
  <2>6. sumh[R] = sumg[to(R)]
    BY <2>1, <2>5
  <2>7. to(T) \in SUBSET S /\ f[x] \in to(T)
    BY <2>2, <2>4 DEF Injection
  <2>8. to(R) = to(T) \ {f[x]}
    <3>1. \A y, z \in S : f[y] = f[z] => y = z
      BY DEF Injection, IsInjective
    <3> QED  BY <2>2, <2>4, <3>1
  <2>9. sumh[T] = h[x] + sumh[R]
    BY <1>2, <2>2, <2>4
  <2>10. sumg[to(T)] = g[f[x]] + sumg[to(R)]
    <3> HIDE DEF to, F, R
    <3> QED  BY <1>2, <2>7, <2>8
  <2>11. h[x] = g[f[x]]
    BY <2>2, <2>4
  <2> HIDE DEF F, R, to
  <2> QED  BY <2>2, <2>6, <2>9, <2>10, <2>11
<1>4. to(S) = S
  <2>1. f \in Surjection(S, S)
    BY FS_Injection
  <2> QED  BY <2>1 DEF Surjection
<1> QED  BY <1>2, <1>3, <1>4
=============================================================================
