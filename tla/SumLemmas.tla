------------------------------ MODULE SumLemmas ------------------------------
(***************************************************************************)
(* What a sum over a finite set is worth: the facts that the proofs about  *)
(* amounts of money need, of SumFunctionOnSet of the community modules.    *)
(* The library states them for operators; here they are of functions, so   *)
(* that the provers can use them, and the induction behind them runs over  *)
(* a set of sets instead of a predicate.                                   *)
(***************************************************************************)
EXTENDS Functions, Integers, FiniteSets, FiniteSetTheorems, WellFoundedInduction, TLAPS

Pick(s) == CHOOSE x \in s : TRUE

(* The recursion that defines the sum, as an equation of a function.      *)
Adds(g, c, S) ==
    g = [s \in SUBSET S |-> IF s = {} THEN 0 ELSE c[Pick(s)] + g[s \ {Pick(s)}]]

-----------------------------------------------------------------------------
(* Induction over the subsets of a finite set: a set of sets that contains *)
(* every set whose strict subsets it contains, contains them all.          *)
LEMMA SubsetInduction ==
    ASSUME NEW S, IsFiniteSet(S), NEW A,
           \A T \in SUBSET S : (\A U \in SUBSET T : U # T => U \in A) => T \in A
    PROVE  SUBSET S \subseteq A
  <1> DEFINE Bad == (SUBSET S) \ A
  <1>1. SUFFICES ASSUME Bad # {} PROVE FALSE
    OBVIOUS
  <1>2. Bad \subseteq FiniteSubsetsOf(S)
    BY FS_Subset DEF FiniteSubsetsOf
  <1>3. PICK T \in Bad : \A U \in Bad : <<U, T>> \notin StrictSubsetOrdering(S)
    <2> DEFINE R == StrictSubsetOrdering(S)
               F == FiniteSubsetsOf(S)
    <2>1. IsWellFoundedOn(R, F)
      BY FS_StrictSubsetOrderingWellFounded
    <2>2. Bad \subseteq F /\ Bad # {}
      BY <1>1, <1>2
    <2> HIDE DEF R, F, Bad
    <2>3. \E T \in Bad : \A U \in Bad : ~(<<U, T>> \in R)
      BY <2>1, <2>2, WFMin
    <2> QED
      BY <2>3 DEF R
  <1>4. \A U \in SUBSET T : U # T => U \in A
    BY <1>3 DEF StrictSubsetOrdering
  <1> QED
    BY <1>3, <1>4

-----------------------------------------------------------------------------
(* The recursion has one solution at most: two of them agree wherever both *)
(* are defined.                                                            *)
LEMMA AddsUnique ==
    ASSUME NEW S, NEW T, NEW g, NEW h, NEW c, Adds(g, c, S), Adds(h, c, T),
           NEW U, U \subseteq S, U \subseteq T, IsFiniteSet(U)
    PROVE  g[U] = h[U]
  <1> DEFINE A == {V \in SUBSET U : g[V] = h[V]}
  <1>1. ASSUME NEW V \in SUBSET U, \A W \in SUBSET V : W # V => W \in A
        PROVE  V \in A
    <2>1. CASE V = {}
      BY <2>1 DEF Adds
    <2>2. CASE V # {}
      <3> DEFINE W == V \ {Pick(V)}
      <3>1. Pick(V) \in V
        BY <2>2 DEF Pick
      <3>2. g[W] = h[W]
        BY <1>1, <3>1
      <3>3. g[V] = c[Pick(V)] + g[W] /\ h[V] = c[Pick(V)] + h[W]
        BY <2>2 DEF Adds
      <3> QED
        BY <3>2, <3>3
    <2> QED
      BY <2>1, <2>2
  <1> HIDE DEF A
  <1>2. SUBSET U \subseteq A
    BY <1>1, SubsetInduction
  <1> QED
    BY <1>2 DEF A

(* And it has one: on a set, it follows from those on the smaller sets.    *)
LEMMA AddsExists ==
    ASSUME NEW S, IsFiniteSet(S), NEW c
    PROVE  \E g : Adds(g, c, S)
  <1> DEFINE A == {T \in SUBSET S : \E g : Adds(g, c, T)}
  <1>1. ASSUME NEW T \in SUBSET S, \A U \in SUBSET T : U # T => U \in A
        PROVE  T \in A
    <2> DEFINE Sol(U) == CHOOSE g : Adds(g, c, U)
               Rest(s) == s \ {Pick(s)}
               h == [s \in SUBSET T |->
                       IF s = {} THEN 0 ELSE c[Pick(s)] + Sol(Rest(s))[Rest(s)]]
    <2>1. \A U \in SUBSET T : U # T => Adds(Sol(U), c, U)
      BY <1>1
    <2>2. \A s \in SUBSET T : s # {} => Rest(s) \in SUBSET T /\ Rest(s) # T /\ Rest(s) # s
      BY DEF Pick
    <2> HIDE DEF Sol
    <2>3. ASSUME NEW s \in SUBSET T, s # {}
          PROVE  h[Rest(s)] = Sol(Rest(s))[Rest(s)]
      <3> DEFINE u == Rest(s)
      <3>1. u \in SUBSET T /\ Adds(Sol(u), c, u)
        BY <2>1, <2>2, <2>3
      <3>2. CASE u = {}
        BY <3>1, <3>2 DEF Adds
      <3>3. CASE u # {}
        <4>1. Rest(u) \in SUBSET T /\ Rest(u) \in SUBSET u /\ Adds(Sol(Rest(u)), c, Rest(u))
          BY <3>1, <3>3, <2>1, <2>2
        <4>2. IsFiniteSet(Rest(u))
          BY <4>1, FS_Subset
        <4>3. Sol(u)[Rest(u)] = Sol(Rest(u))[Rest(u)]
          BY <3>1, <4>1, <4>2, AddsUnique
        <4>4. Sol(u)[u] = c[Pick(u)] + Sol(u)[Rest(u)]
          BY <3>1, <3>3 DEF Adds
        <4>5. h[u] = c[Pick(u)] + Sol(Rest(u))[Rest(u)]
          BY <3>1, <3>3
        <4> QED
          BY <4>3, <4>4, <4>5
      <3> QED
        BY <3>2, <3>3
    <2>4. Adds(h, c, T)
      BY <2>3, <2>2 DEF Adds
    <2> QED
      BY <2>4
  <1> HIDE DEF A
  <1>2. SUBSET S \subseteq A
    BY <1>1, SubsetInduction
  <1> QED
    BY <1>2 DEF A

-----------------------------------------------------------------------------
(* What the community modules add up is that solution.                     *)
LEMMA SumIs ==
    ASSUME NEW S, IsFiniteSet(S), NEW c
    PROVE  \E g : Adds(g, c, S) /\ \A T \in SUBSET S : SumFunctionOnSet(c, T) = g[T]
  <1> DEFINE Sol(T) == CHOOSE g : Adds(g, c, T)
  <1>1. \A T \in SUBSET S : IsFiniteSet(T)
    BY FS_Subset
  <1>2. \A T \in SUBSET S : Adds(Sol(T), c, T)
    BY <1>1, AddsExists
  <1>3. \A T \in SUBSET S : SumFunctionOnSet(c, T) = Sol(T)[T]
    BY DEF SumFunctionOnSet, FoldFunctionOnSet, MapThenFoldSet, Adds, Pick
  <1> HIDE DEF Sol
  <1>4. \A T \in SUBSET S : Sol(T)[T] = Sol(S)[T]
    BY <1>1, <1>2, AddsUnique
  <1> QED
    BY <1>2, <1>3, <1>4

LEMMA SumEmpty ==
    ASSUME NEW c
    PROVE  SumFunctionOnSet(c, {}) = 0
  <1>1. IsFiniteSet({})
    BY FS_EmptySet
  <1>2. PICK g : Adds(g, c, {}) /\ \A T \in SUBSET {} : SumFunctionOnSet(c, T) = g[T]
    BY <1>1, SumIs
  <1> QED
    BY <1>2 DEF Adds

(* One element, the picked one, taken out.                                 *)
LEMMA SumPick ==
    ASSUME NEW S, IsFiniteSet(S), S # {}, NEW c
    PROVE  /\ Pick(S) \in S /\ IsFiniteSet(S \ {Pick(S)})
           /\ SumFunctionOnSet(c, S) = c[Pick(S)] + SumFunctionOnSet(c, S \ {Pick(S)})
  <1>1. Pick(S) \in S /\ IsFiniteSet(S \ {Pick(S)})
    BY FS_RemoveElement DEF Pick
  <1>2. PICK g : Adds(g, c, S) /\ \A T \in SUBSET S : SumFunctionOnSet(c, T) = g[T]
    BY SumIs
  <1>3. SumFunctionOnSet(c, S) = g[S] /\ SumFunctionOnSet(c, S \ {Pick(S)}) = g[S \ {Pick(S)}]
    BY <1>2
  <1>4. g[S] = c[Pick(S)] + g[S \ {Pick(S)}]
    BY <1>2 DEF Adds
  <1> QED
    BY <1>1, <1>3, <1>4

(* A sum of integers is one, and of naturals too.                          *)
LEMMA SumType ==
    ASSUME NEW N, N = Int \/ N = Nat, NEW S, IsFiniteSet(S), NEW c, \A x \in S : c[x] \in N
    PROVE  SumFunctionOnSet(c, S) \in N
  <1> DEFINE A == {T \in SUBSET S : SumFunctionOnSet(c, T) \in N}
  <1>1. ASSUME NEW T \in SUBSET S, \A U \in SUBSET T : U # T => U \in A
        PROVE  T \in A
    <2>1. CASE T = {}
      BY <2>1, SumEmpty
    <2>2. CASE T # {}
      <3>1. IsFiniteSet(T)
        BY FS_Subset
      <3>2. /\ Pick(T) \in T
            /\ SumFunctionOnSet(c, T) = c[Pick(T)] + SumFunctionOnSet(c, T \ {Pick(T)})
        BY <2>2, <3>1, SumPick
      <3>3. SumFunctionOnSet(c, T \ {Pick(T)}) \in N /\ c[Pick(T)] \in N
        BY <1>1, <3>2
      <3> QED
        BY <3>2, <3>3
    <2> QED
      BY <2>1, <2>2
  <1> HIDE DEF A
  <1>2. SUBSET S \subseteq A
    BY <1>1, SubsetInduction
  <1> QED
    BY <1>2 DEF A

(* The order of addition does not matter: any element may be taken out.    *)
LEMMA SumRemove ==
    ASSUME NEW S, IsFiniteSet(S), NEW c, \A x \in S : c[x] \in Int, NEW x \in S
    PROVE  SumFunctionOnSet(c, S) = c[x] + SumFunctionOnSet(c, S \ {x})
  <1> DEFINE Sum(T) == SumFunctionOnSet(c, T)
             A == {T \in SUBSET S : \A y \in T : Sum(T) = c[y] + Sum(T \ {y})}
  <1>0. \A T \in SUBSET S : IsFiniteSet(T)
    BY FS_Subset
  <1>1. ASSUME NEW T \in SUBSET S, \A U \in SUBSET T : U # T => U \in A
        PROVE  T \in A
    <2> SUFFICES ASSUME NEW y \in T
                 PROVE  Sum(T) = c[y] + Sum(T \ {y})
      OBVIOUS
    <2> DEFINE p == Pick(T)
    <2>1. p \in T /\ Sum(T) = c[p] + Sum(T \ {p})
      BY <1>0, SumPick
    <2>2. CASE y = p
      BY <2>1, <2>2
    <2>3. CASE y # p
      <3>1. Sum(T \ {p}) = c[y] + Sum((T \ {p}) \ {y})
        BY <1>1, <2>1, <2>3
      <3>2. Sum(T \ {y}) = c[p] + Sum((T \ {y}) \ {p})
        BY <1>1, <2>1, <2>3
      <3> DEFINE r == Sum((T \ {y}) \ {p})
                 cy == c[y]
                 cp == c[p]
      <3>3. (T \ {p}) \ {y} = (T \ {y}) \ {p}
        OBVIOUS
      <3>4. r \in Int
        <4>1. (T \ {y}) \ {p} \in SUBSET S
          OBVIOUS
        <4> QED
          BY <1>0, <4>1, SumType
      <3>5. cy \in Int /\ cp \in Int
        BY <2>1
      <3>6. Sum(T) = cp + (cy + r) /\ Sum(T \ {y}) = cp + r
        BY <2>1, <3>1, <3>2, <3>3
      <3> HIDE DEF r, cy, cp, Sum, p
      <3>7. Sum(T) = cy + Sum(T \ {y})
        BY <3>4, <3>5, <3>6
      <3> QED
        BY <3>7 DEF cy
    <2> QED
      BY <2>2, <2>3
  <1> HIDE DEF A
  <1>2. SUBSET S \subseteq A
    BY <1>1, SubsetInduction
  <1> QED
    BY <1>2 DEF A

LEMMA SumAdd ==
    ASSUME NEW S, IsFiniteSet(S), NEW x, x \notin S, NEW c,
           \A y \in S \cup {x} : c[y] \in Int
    PROVE  SumFunctionOnSet(c, S \cup {x}) = SumFunctionOnSet(c, S) + c[x]
  <1>1. IsFiniteSet(S \cup {x}) /\ (S \cup {x}) \ {x} = S
    BY FS_AddElement
  <1>2. SumFunctionOnSet(c, S \cup {x}) = c[x] + SumFunctionOnSet(c, S)
    BY <1>1, SumRemove
  <1>3. SumFunctionOnSet(c, S) \in Int /\ c[x] \in Int
    BY SumType
  <1> QED
    BY <1>2, <1>3

-----------------------------------------------------------------------------
(* Sums of the same amounts, or of smaller ones, over the same set.        *)
LEMMA SumPointwise ==
    ASSUME NEW S, IsFiniteSet(S), NEW c, NEW d,
           \A x \in S : c[x] \in Int /\ d[x] \in Int /\ c[x] <= d[x]
    PROVE  SumFunctionOnSet(c, S) <= SumFunctionOnSet(d, S)
  <1> DEFINE A == {T \in SUBSET S : SumFunctionOnSet(c, T) <= SumFunctionOnSet(d, T)}
  <1>1. ASSUME NEW T \in SUBSET S, \A U \in SUBSET T : U # T => U \in A
        PROVE  T \in A
    <2>0. IsFiniteSet(T)
      BY FS_Subset
    <2>1. CASE T = {}
      BY <2>1, SumEmpty
    <2>2. CASE T # {}
      <3> DEFINE p == Pick(T)
                 U == T \ {p}
      <3>1. /\ p \in T /\ IsFiniteSet(U)
            /\ SumFunctionOnSet(c, T) = c[p] + SumFunctionOnSet(c, U)
            /\ SumFunctionOnSet(d, T) = d[p] + SumFunctionOnSet(d, U)
        BY <2>0, <2>2, SumPick
      <3>2. c[p] \in Int /\ d[p] \in Int /\ c[p] <= d[p]
        BY <3>1
      <3>3. SumFunctionOnSet(c, U) \in Int /\ SumFunctionOnSet(d, U) \in Int
        BY <3>1, SumType
      <3>4. SumFunctionOnSet(c, U) <= SumFunctionOnSet(d, U)
        BY <1>1, <3>1
      <3> HIDE DEF p, U
      <3> QED
        BY <3>1, <3>2, <3>3, <3>4
    <2> QED
      BY <2>1, <2>2
  <1> HIDE DEF A
  <1>2. SUBSET S \subseteq A
    BY <1>1, SubsetInduction
  <1> QED
    BY <1>2 DEF A

LEMMA SumSame ==
    ASSUME NEW S, IsFiniteSet(S), NEW c, NEW d, \A x \in S : c[x] = d[x]
    PROVE  SumFunctionOnSet(c, S) = SumFunctionOnSet(d, S)
  <1> DEFINE A == {T \in SUBSET S : SumFunctionOnSet(c, T) = SumFunctionOnSet(d, T)}
  <1>1. ASSUME NEW T \in SUBSET S, \A U \in SUBSET T : U # T => U \in A
        PROVE  T \in A
    <2>0. IsFiniteSet(T)
      BY FS_Subset
    <2>1. CASE T = {}
      BY <2>1, SumEmpty
    <2>2. CASE T # {}
      <3>1. /\ Pick(T) \in T
            /\ SumFunctionOnSet(c, T) = c[Pick(T)] + SumFunctionOnSet(c, T \ {Pick(T)})
            /\ SumFunctionOnSet(d, T) = d[Pick(T)] + SumFunctionOnSet(d, T \ {Pick(T)})
        BY <2>0, <2>2, SumPick
      <3> QED
        BY <1>1, <3>1
    <2> QED
      BY <2>1, <2>2
  <1> HIDE DEF A
  <1>2. SUBSET S \subseteq A
    BY <1>1, SubsetInduction
  <1> QED
    BY <1>2 DEF A

(* A sum of amounts of at most M.                                          *)
LEMMA SumBound ==
    ASSUME NEW S, IsFiniteSet(S), NEW c, NEW M \in Int,
           \A x \in S : c[x] \in Int /\ c[x] <= M
    PROVE  SumFunctionOnSet(c, S) <= Cardinality(S) * M
  <1> DEFINE A == {T \in SUBSET S : SumFunctionOnSet(c, T) <= Cardinality(T) * M}
  <1>1. ASSUME NEW T \in SUBSET S, \A U \in SUBSET T : U # T => U \in A
        PROVE  T \in A
    <2>0. IsFiniteSet(T)
      BY FS_Subset
    <2>1. CASE T = {}
      BY <2>1, SumEmpty, FS_EmptySet
    <2>2. CASE T # {}
      <3> DEFINE p == Pick(T)
                 U == T \ {p}
                 n == Cardinality(U)
                 m == SumFunctionOnSet(c, U)
      <3>1. p \in T /\ IsFiniteSet(U) /\ SumFunctionOnSet(c, T) = c[p] + m
        BY <2>0, <2>2, SumPick
      <3>2. c[p] \in Int /\ c[p] <= M /\ m \in Int
        BY <3>1, SumType
      <3>3. m <= n * M
        BY <1>1, <3>1
      <3>4. n \in Nat /\ Cardinality(T) = n + 1
        BY <2>0, <3>1, FS_RemoveElement, FS_CardinalityType
      <3>5. (n + 1) * M = n * M + M
        BY <3>4
      <3>6. n * M \in Int
        BY <3>4
      <3> HIDE DEF p, U, n, m
      <3> QED
        BY <3>1, <3>2, <3>3, <3>4, <3>5, <3>6
    <2> QED
      BY <2>1, <2>2
  <1> HIDE DEF A
  <1>2. SUBSET S \subseteq A
    BY <1>1, SubsetInduction
  <1> QED
    BY <1>2 DEF A

-----------------------------------------------------------------------------
(* Sums over two sets together, and over a part of a set.                  *)
LEMMA SumDisjoint ==
    ASSUME NEW S, IsFiniteSet(S), NEW T, IsFiniteSet(T), S \cap T = {}, NEW c,
           \A x \in S \cup T : c[x] \in Int
    PROVE  SumFunctionOnSet(c, S \cup T) = SumFunctionOnSet(c, S) + SumFunctionOnSet(c, T)
  <1> DEFINE Sum(V) == SumFunctionOnSet(c, V)
             A == {V \in SUBSET T : Sum(S \cup V) = Sum(S) + Sum(V)}
  <1>0. Sum(S) \in Int
    BY SumType
  <1>1. ASSUME NEW V \in SUBSET T, \A U \in SUBSET V : U # V => U \in A
        PROVE  V \in A
    <2>0. IsFiniteSet(V)
      BY FS_Subset
    <2>1. CASE V = {}
      <3>1. S \cup V = S /\ Sum(V) = 0
        BY <2>1, SumEmpty
      <3> HIDE DEF Sum
      <3> QED
        BY <1>0, <2>1, <3>1
    <2>2. CASE V # {}
      <3> DEFINE p == Pick(V)
                 U == V \ {p}
                 cp == c[p]
      <3>1. p \in V /\ IsFiniteSet(U) /\ Sum(V) = cp + Sum(U)
        BY <2>0, <2>2, SumPick
      <3>2. p \in S \cup V /\ (S \cup V) \ {p} = S \cup U
        BY <3>1
      <3>3. IsFiniteSet(S \cup V) /\ \A x \in S \cup V : c[x] \in Int
        BY <2>0, FS_Union
      <3>4. Sum(S \cup V) = cp + Sum(S \cup U)
        BY <3>2, <3>3, SumRemove
      <3>5. Sum(S \cup U) = Sum(S) + Sum(U)
        BY <1>1, <3>1
      <3>6. cp \in Int /\ Sum(U) \in Int
        BY <3>1, SumType
      <3> HIDE DEF Sum, p, U, cp
      <3>7. Sum(S \cup V) = Sum(S) + Sum(V)
        BY <1>0, <3>1, <3>4, <3>5, <3>6
      <3> QED
        BY <3>7
    <2> QED
      BY <2>1, <2>2
  <1> HIDE DEF A
  <1>2. SUBSET T \subseteq A
    BY <1>1, SubsetInduction
  <1> QED
    BY <1>2 DEF A

LEMMA SumPart ==
    ASSUME NEW S, IsFiniteSet(S), NEW T, T \subseteq S, NEW c, \A x \in S : c[x] \in Nat
    PROVE  /\ SumFunctionOnSet(c, T) \in Nat /\ SumFunctionOnSet(c, S) \in Nat
           /\ SumFunctionOnSet(c, T) <= SumFunctionOnSet(c, S)
  <1>1. IsFiniteSet(T) /\ IsFiniteSet(S \ T) /\ T \cap (S \ T) = {} /\ T \cup (S \ T) = S
    BY FS_Subset
  <1>2. \A x \in S : c[x] \in Int
    OBVIOUS
  <1>3. SumFunctionOnSet(c, S) = SumFunctionOnSet(c, T) + SumFunctionOnSet(c, S \ T)
    BY <1>1, <1>2, SumDisjoint
  <1>4. SumFunctionOnSet(c, T) \in Nat /\ SumFunctionOnSet(c, S \ T) \in Nat
    BY <1>1, SumType
  <1> QED
    BY <1>3, <1>4

LEMMA SumUnion ==
    ASSUME NEW S, IsFiniteSet(S), NEW T, IsFiniteSet(T), NEW c,
           \A x \in S \cup T : c[x] \in Nat
    PROVE  SumFunctionOnSet(c, S \cup T) <= SumFunctionOnSet(c, S) + SumFunctionOnSet(c, T)
  <1>1. IsFiniteSet(T \ S) /\ S \cap (T \ S) = {} /\ S \cup (T \ S) = S \cup T
    BY FS_Subset
  <1>2. \A x \in S \cup T : c[x] \in Int
    OBVIOUS
  <1>3. SumFunctionOnSet(c, S \cup T) = SumFunctionOnSet(c, S) + SumFunctionOnSet(c, T \ S)
    BY <1>1, <1>2, SumDisjoint
  <1>4. /\ SumFunctionOnSet(c, T \ S) \in Nat /\ SumFunctionOnSet(c, T) \in Nat
        /\ SumFunctionOnSet(c, T \ S) <= SumFunctionOnSet(c, T)
    BY SumPart
  <1>5. SumFunctionOnSet(c, S) \in Nat
    BY SumType
  <1> QED
    BY <1>3, <1>4, <1>5

-----------------------------------------------------------------------------
(* A sum over renamed elements, when no two get the same name.             *)
LEMMA SumRenamed ==
    ASSUME NEW S, IsFiniteSet(S), NEW r, NEW c, NEW d,
           \A x, y \in S : r[x] = r[y] => x = y,
           \A x \in S : c[x] \in Int /\ d[r[x]] = c[x]
    PROVE  SumFunctionOnSet(d, {r[x] : x \in S}) = SumFunctionOnSet(c, S)
  <1> DEFINE Names(V) == {r[x] : x \in V}
             A == {V \in SUBSET S :
                      /\ IsFiniteSet(Names(V))
                      /\ SumFunctionOnSet(d, Names(V)) = SumFunctionOnSet(c, V)}
  <1>1. ASSUME NEW V \in SUBSET S, \A U \in SUBSET V : U # V => U \in A
        PROVE  V \in A
    <2>0. IsFiniteSet(V)
      BY FS_Subset
    <2>1. CASE V = {}
      BY <2>1, SumEmpty, FS_EmptySet
    <2>2. CASE V # {}
      <3> DEFINE p == Pick(V)
                 U == V \ {p}
      <3>1. p \in V /\ IsFiniteSet(U) /\ SumFunctionOnSet(c, V) = c[p] + SumFunctionOnSet(c, U)
        BY <2>0, <2>2, SumPick
      <3>2. r[p] \in Names(V) /\ Names(V) \ {r[p]} = Names(U)
        BY <3>1
      <3>3. IsFiniteSet(Names(U)) /\ Names(U) \cup {r[p]} = Names(V)
        BY <1>1, <3>1
      <3>4. IsFiniteSet(Names(V))
        <4> HIDE DEF Names, U
        <4>1. IsFiniteSet(Names(U) \cup {r[p]})
          BY <3>3, FS_AddElement
        <4> QED
          BY <3>3, <4>1
      <3>5. (\A n \in Names(V) : d[n] \in Int) /\ d[r[p]] = c[p]
        BY <3>1
      <3>6. SumFunctionOnSet(d, Names(U)) = SumFunctionOnSet(c, U)
        BY <1>1, <3>1
      <3> HIDE DEF Names
      <3>7. SumFunctionOnSet(d, Names(V)) = d[r[p]] + SumFunctionOnSet(d, Names(V) \ {r[p]})
        BY <3>2, <3>4, <3>5, SumRemove
      <3> QED
        BY <3>1, <3>2, <3>4, <3>5, <3>6, <3>7
    <2> QED
      BY <2>1, <2>2
  <1> HIDE DEF A
  <1>2. SUBSET S \subseteq A
    BY <1>1, SubsetInduction
  <1> QED
    BY <1>2 DEF A

=============================================================================
