---------------------------- MODULE FiniteSetLemmas ----------------------------
(***************************************************************************)
(* Facts about finite sets that the proofs of several modules rest on:     *)
(* least values, the sizes of unions and differences, and sums over finite *)
(* sets of the terms a function gives (SumFunctionOnSet).                  *)
(***************************************************************************)
EXTENDS Integers, Functions, FiniteSetTheorems, WellFoundedInduction, TLAPS

\* An integer function on a finite set has a least value.
LEMMA LeastExists ==
    ASSUME NEW S, IsFiniteSet(S), S # {}, NEW f \in [S -> Int]
    PROVE  \E x \in S : \A y \in S : f[x] <= f[y]
<1> DEFINE Without == {T \in SUBSET S : T # {} /\ ~ \E x \in T : \A y \in T : f[x] <= f[y]}
<1> SUFFICES ASSUME S \in Without PROVE FALSE
    OBVIOUS
<1>1. Without \subseteq FiniteSubsetsOf(S)
    BY FS_FiniteSubsetsOfFinite
<1>2. PICK T \in Without : \A U \in Without : ~(<<U, T>> \in StrictSubsetOrdering(S))
    BY <1>1, WFMin, FS_StrictSubsetOrderingWellFounded
<1>3. PICK x \in T : TRUE
    OBVIOUS
<1> DEFINE U == T \ {x}
<1>4. U \notin Without
    <2>1. T \subseteq S /\ U \subseteq T /\ U # T
        BY <1>3
    <2>2. <<U, T>> \in StrictSubsetOrdering(S)
        BY <2>1 DEF StrictSubsetOrdering
    <2> HIDE DEF U, Without
    <2> QED
        BY <1>2, <2>2
<1>5. CASE U = {}
    <2>1. T = {x}
        BY <1>5
    <2>2. f[x] \in Int
        OBVIOUS
    <2> QED
        BY <2>1, <2>2
<1>6. CASE U # {}
    <2>1. PICK u \in U : \A y \in U : f[u] <= f[y]
        BY <1>4, <1>6
    <2>2. f[x] \in Int /\ \A y \in T : f[y] \in Int
        OBVIOUS
    <2>3. CASE f[x] <= f[u]
        <3>1. \A y \in T : f[x] <= f[y]
            BY <2>1, <2>2, <2>3
        <3> QED
            BY <3>1
    <2>4. CASE ~(f[x] <= f[u])
        <3>1. \A y \in T : f[u] <= f[y]
            BY <2>1, <2>2, <2>4
        <3> QED
            BY <3>1
    <2> QED
        BY <2>3, <2>4
<1> QED
    BY <1>5, <1>6

\* Sets that have nothing in common add up.
LEMMA DisjointUnion ==
    ASSUME NEW S, IsFiniteSet(S), NEW T, IsFiniteSet(T), S \cap T = {}
    PROVE  /\ Cardinality(S) \in Nat /\ Cardinality(T) \in Nat
           /\ IsFiniteSet(S \cup T) /\ Cardinality(S \cup T) = Cardinality(S) + Cardinality(T)
<1>1. Cardinality(S) \in Nat /\ Cardinality(T) \in Nat
    BY FS_CardinalityType
<1>2. IsFiniteSet(S \cup T) /\ Cardinality(S \cup T) = Cardinality(S) + Cardinality(T) - Cardinality(S \cap T)
    BY FS_Union
<1>3. Cardinality(S \cap T) = 0
    BY FS_EmptySet
<1> QED
    BY <1>1, <1>2, <1>3

\* A part taken away.
LEMMA PartRemoved ==
    ASSUME NEW S, IsFiniteSet(S), NEW T, T \subseteq S
    PROVE  /\ IsFiniteSet(T) /\ Cardinality(T) \in Nat /\ Cardinality(S) \in Nat
           /\ Cardinality(T) <= Cardinality(S)
           /\ IsFiniteSet(S \ T) /\ Cardinality(S \ T) = Cardinality(S) - Cardinality(T)
<1>1. IsFiniteSet(T) /\ Cardinality(T) <= Cardinality(S) /\ IsFiniteSet(S \ T)
    BY FS_Subset
<1>2. Cardinality(S) \in Nat /\ Cardinality(T) \in Nat /\ Cardinality(S \ T) \in Nat
    BY <1>1, FS_CardinalityType
<1>3. Cardinality(S) = Cardinality(T) + Cardinality(S \ T)
    <2>1. T \cap (S \ T) = {} /\ S = T \cup (S \ T)
        OBVIOUS
    <2>2. Cardinality(T \cup (S \ T)) = Cardinality(T) + Cardinality(S \ T)
        BY <1>1, <2>1, DisjointUnion
    <2> QED
        BY <2>1, <2>2
<1> QED
    BY <1>1, <1>2, <1>3

-----------------------------------------------------------------------------
(* Sums.  SumFunctionOnSet is a fold, and folds are defined by a choice: of *)
(* a function that is determined by what it is on smaller sets.             *)

\* What holds of a subset as soon as it holds of the smaller ones holds of all.
LEMMA SubsetInduction ==
    ASSUME NEW S, IsFiniteSet(S), NEW P,
           \A T \in SUBSET S : (\A U \in SUBSET T : U # T => U \in P) => T \in P
    PROVE  \A T \in SUBSET S : T \in P
<1> DEFINE Out == {T \in SUBSET S : T \notin P}
<1> SUFFICES ASSUME Out # {} PROVE FALSE
    OBVIOUS
<1>1. Out \subseteq FiniteSubsetsOf(S)
    BY FS_FiniteSubsetsOfFinite
<1>2. PICK T \in Out : \A U \in Out : ~(<<U, T>> \in StrictSubsetOrdering(S))
    <2> HIDE DEF Out
    <2> QED
        BY <1>1, WFMin, FS_StrictSubsetOrderingWellFounded
<1>3. PICK U \in SUBSET T : U # T /\ U \notin P
    BY <1>2
<1>4. <<U, T>> \in StrictSubsetOrdering(S)
    BY <1>3 DEF StrictSubsetOrdering
<1> QED
    BY <1>2, <1>3, <1>4

-----------------------------------------------------------------------------
(* The recursive function behind SumFunctionOnSet.                         *)

First(T) == CHOOSE x \in T : TRUE

\* g gives the sum of the terms of f over every subset of S.
Summing(f, S, g) ==
    g = [T \in SUBSET S |-> IF T = {} THEN 0 ELSE f[First(T)] + g[T \ {First(T)}]]

\* A set that is not empty has a first element.
LEMMA FirstIsIn == ASSUME NEW T, T # {} PROVE First(T) \in T
BY DEF First

\* There is one such function.
LEMMA SummingUnique ==
    ASSUME NEW S, IsFiniteSet(S), NEW f, NEW g, NEW h, Summing(f, S, g), Summing(f, S, h)
    PROVE  g = h
<1> DEFINE P == {T \in SUBSET S : g[T] = h[T]}
<1>1. ASSUME NEW T \in SUBSET S, \A U \in SUBSET T : U # T => U \in P
      PROVE  T \in P
    <2>1. CASE T = {}
        <3>1. g[T] = 0 /\ h[T] = 0
            BY <2>1 DEF Summing
        <3> QED
            BY <3>1
    <2>2. CASE T # {}
        <3> DEFINE U == T \ {First(T)}
        <3>1. U \in SUBSET T /\ U # T
            BY <2>2, FirstIsIn
        <3>2. g[U] = h[U]
            BY <1>1, <3>1
        <3>3. g[T] = f[First(T)] + g[U] /\ h[T] = f[First(T)] + h[U]
            BY <2>2 DEF Summing
        <3> QED
            BY <3>2, <3>3
    <2> QED
        BY <2>1, <2>2
<1> HIDE DEF P
<1>2. \A T \in SUBSET S : T \in P
    BY <1>1, SubsetInduction
<1>3. \A T \in SUBSET S : g[T] = h[T]
    BY <1>2 DEF P
<1>4. g = [T \in SUBSET S |-> g[T]] /\ h = [T \in SUBSET S |-> h[T]]
    BY DEF Summing
<1> QED
    BY <1>3, <1>4

\* What it is on the subsets of a subset is such a function too.
LEMMA SummingPart ==
    ASSUME NEW S, NEW f, NEW g, Summing(f, S, g), NEW T \in SUBSET S,
           NEW h, h = [U \in SUBSET T |-> g[U]]
    PROVE  Summing(f, T, h)
<1>1. ASSUME NEW U \in SUBSET T
      PROVE  h[U] = IF U = {} THEN 0 ELSE f[First(U)] + h[U \ {First(U)}]
    <2>1. h[U] = g[U] /\ h[U \ {First(U)}] = g[U \ {First(U)}] /\ U \in SUBSET S
        OBVIOUS
    <2> QED
        BY <2>1 DEF Summing
<1>2. h = [U \in SUBSET T |-> h[U]]
    OBVIOUS
<1> QED
    BY <1>1, <1>2 DEF Summing

\* There is such a function.
LEMMA SummingExists ==
    ASSUME NEW S, IsFiniteSet(S), NEW f
    PROVE  \E g : Summing(f, S, g)
<1> DEFINE P == {T \in SUBSET S : \E k : Summing(f, T, k)}
           Of(T) == CHOOSE k : Summing(f, T, k)
<1>1. ASSUME NEW T \in SUBSET S, \A U \in SUBSET T : U # T => U \in P
      PROVE  T \in P
    <2> DEFINE g == [U \in SUBSET T |->
                        IF U = {} THEN 0
                        ELSE f[First(U)] + Of(U \ {First(U)})[U \ {First(U)}]]
    <2>1. ASSUME NEW U \in SUBSET T, U # T
          PROVE  Summing(f, U, Of(U))
        BY <1>1, <2>1
    <2> HIDE DEF Of
    <2>2. ASSUME NEW U \in SUBSET T, U # T
          PROVE  g[U] = Of(U)[U]
        <3>1. CASE U = {}
            <4>1. Of(U)[U] = 0
                BY <2>1, <2>2, <3>1 DEF Summing
            <4> QED
                BY <3>1, <4>1
        <3>2. CASE U # {}
            <4> DEFINE V == U \ {First(U)}
            <4>1. V \in SUBSET U /\ V # T /\ V \in SUBSET T /\ IsFiniteSet(V)
                BY <3>2, FirstIsIn, FS_Subset
            <4>2. Of(U)[U] = f[First(U)] + Of(U)[V]
                BY <2>1, <2>2, <3>2 DEF Summing
            <4> DEFINE h == [W \in SUBSET V |-> Of(U)[W]]
            <4>3. Summing(f, V, h)
                BY <2>1, <2>2, <4>1, SummingPart
            <4>4. Of(V) = h
                <5>1. Summing(f, V, Of(V))
                    BY <2>1, <4>1
                <5> HIDE DEF h, V
                <5> QED
                    BY <4>1, <4>3, <5>1, SummingUnique
            <4>5. Of(V)[V] = Of(U)[V]
                BY <4>4
            <4>6. g[U] = f[First(U)] + Of(V)[V]
                BY <3>2
            <4> QED
                BY <4>2, <4>5, <4>6
        <3> QED
            BY <3>1, <3>2
    <2>3. ASSUME NEW U \in SUBSET T
          PROVE  g[U] = IF U = {} THEN 0 ELSE f[First(U)] + g[U \ {First(U)}]
        <3>1. CASE U = {}
            BY <3>1
        <3>2. CASE U # {}
            <4> DEFINE V == U \ {First(U)}
            <4>1. V \in SUBSET T /\ V # T
                BY <3>2, FirstIsIn
            <4>2. g[U] = f[First(U)] + Of(V)[V]
                BY <3>2
            <4> QED
                BY <2>2, <3>2, <4>1, <4>2
        <3> QED
            BY <3>1, <3>2
    <2>4. g = [U \in SUBSET T |-> g[U]]
        OBVIOUS
    <2> HIDE DEF g
    <2>5. g = [U \in SUBSET T |-> IF U = {} THEN 0 ELSE f[First(U)] + g[U \ {First(U)}]]
        BY <2>3, <2>4
    <2>6. Summing(f, T, g)
        BY <2>5 DEF Summing
    <2> QED
        BY <2>6
<1> HIDE DEF P
<1>2. S \in P
    BY <1>1, SubsetInduction
<1> QED
    BY <1>2 DEF P

\* The library's sum is the value of that function.
LEMMA SumIsSumming ==
    ASSUME NEW f, NEW S
    PROVE  SumFunctionOnSet(f, S) = (CHOOSE g : Summing(f, S, g))[S]
BY Zenon DEF SumFunctionOnSet, FoldFunctionOnSet, MapThenFoldSet, Summing, First

\* So a sum is the first term and the sum of the others.
LEMMA SumUnfolds ==
    ASSUME NEW f, NEW S, IsFiniteSet(S)
    PROVE  SumFunctionOnSet(f, S) =
               IF S = {} THEN 0
               ELSE f[First(S)] + SumFunctionOnSet(f, S \ {First(S)})
<1> DEFINE g == CHOOSE k : Summing(f, S, k)
           T == S \ {First(S)}
           h == CHOOSE k : Summing(f, T, k)
<1>1. Summing(f, S, g)
    BY SummingExists
<1>2. IsFiniteSet(T)
    BY FS_Subset
<1>3. Summing(f, T, h)
    BY <1>2, SummingExists
<1>4. SumFunctionOnSet(f, S) = g[S] /\ SumFunctionOnSet(f, T) = h[T]
    BY SumIsSumming
<1> HIDE DEF g, h
<1>5. h[T] = g[T]
    <2> DEFINE k == [U \in SUBSET T |-> g[U]]
    <2>1. Summing(f, T, k)
        BY <1>1, SummingPart
    <2>2. k[T] = g[T]
        OBVIOUS
    <2> HIDE DEF k, T
    <2> QED
        BY <1>2, <1>3, <2>1, <2>2, SummingUnique
<1>6. g[S] = IF S = {} THEN 0 ELSE f[First(S)] + g[T]
    BY <1>1 DEF Summing
<1> QED
    BY <1>4, <1>5, <1>6

\* The sum of no terms.
LEMMA SumEmpty == ASSUME NEW f PROVE SumFunctionOnSet(f, {}) = 0
BY SumUnfolds, FS_EmptySet

\* Any element can be taken out first.
LEMMA SumTaking ==
    ASSUME NEW S, IsFiniteSet(S), NEW f, \A x \in S : f[x] \in Int
    PROVE  /\ SumFunctionOnSet(f, S) \in Int
           /\ \A x \in S : SumFunctionOnSet(f, S) = f[x] + SumFunctionOnSet(f, S \ {x})
<1> DEFINE Sm(T) == SumFunctionOnSet(f, T)
           P == {T \in SUBSET S : Sm(T) \in Int /\ \A x \in T : Sm(T) = f[x] + Sm(T \ {x})}
<1>1. ASSUME NEW T \in SUBSET S, \A U \in SUBSET T : U # T => U \in P
      PROVE  T \in P
    <2>1. CASE T = {}
        BY <2>1, SumEmpty
    <2>2. CASE T # {}
        <3> DEFINE c == First(T)
        <3>1. c \in T /\ f[c] \in Int
            BY <2>2, FirstIsIn
        <3>2. Sm(T) = f[c] + Sm(T \ {c})
            BY <2>2, SumUnfolds, FS_Subset
        <3> HIDE DEF Sm, c
        <3>3. T \ {c} \in P
            BY <1>1, <3>1
        <3>4. Sm(T \ {c}) \in Int
            BY <3>3
        <3>5. ASSUME NEW x \in T, x # c
              PROVE  Sm(T) = f[x] + Sm(T \ {x})
            <4>1. T \ {x} \in P
                BY <1>1
            <4>2. Sm(T \ {x}) = f[c] + Sm((T \ {x}) \ {c})
                BY <3>1, <3>5, <4>1
            <4>3. Sm(T \ {c}) = f[x] + Sm((T \ {c}) \ {x})
                BY <3>1, <3>5, <3>3
            <4>4. (T \ {c}) \ {x} = (T \ {x}) \ {c}
                OBVIOUS
            <4>5. (T \ {x}) \ {c} \in P
                BY <1>1, <3>1
            <4>6. Sm((T \ {x}) \ {c}) \in Int /\ f[x] \in Int
                BY <4>5
            <4>7. Sm(T \ {c}) = f[x] + Sm((T \ {x}) \ {c})
                BY <4>3, <4>4
            <4> QED
                BY <3>1, <3>2, <4>2, <4>6, <4>7
        <3>6. Sm(T) \in Int
            BY <3>1, <3>2, <3>4
        <3>7. \A x \in T : Sm(T) = f[x] + Sm(T \ {x})
            BY <3>2, <3>5
        <3> QED
            BY <3>6, <3>7
    <2> QED
        BY <2>1, <2>2
<1> HIDE DEF P
<1>2. S \in P
    BY <1>1, SubsetInduction
<1> QED
    BY <1>2 DEF P, Sm

\* One more term.
LEMMA SumAdding ==
    ASSUME NEW S, IsFiniteSet(S), NEW x, x \notin S, NEW f, \A y \in S \cup {x} : f[y] \in Int
    PROVE  SumFunctionOnSet(f, S \cup {x}) = SumFunctionOnSet(f, S) + f[x]
<1>1. IsFiniteSet(S \cup {x}) /\ (S \cup {x}) \ {x} = S
    BY FS_AddElement
<1>2. SumFunctionOnSet(f, S \cup {x}) = f[x] + SumFunctionOnSet(f, S)
    BY <1>1, SumTaking
<1>3. SumFunctionOnSet(f, S) \in Int
    BY SumTaking
<1> QED
    BY <1>2, <1>3

\* Adding one element at a time.
LEMMA OneByOne ==
    ASSUME NEW S, IsFiniteSet(S), NEW P, {} \in P,
           \A T \in SUBSET S, x \in S : T \in P /\ x \notin T => T \cup {x} \in P
    PROVE  S \in P
<1>1. ASSUME NEW T \in SUBSET S, \A U \in SUBSET T : U # T => U \in P
      PROVE  T \in P
    <2>1. CASE T # {}
        <3>1. PICK x \in T : TRUE
            BY <2>1
        <3>2. T \ {x} \in P
            BY <1>1
        <3>3. T = (T \ {x}) \cup {x}
            OBVIOUS
        <3> DEFINE U == T \ {x}
        <3>4. U \in SUBSET S /\ x \in S /\ U \in P /\ x \notin U
            BY <3>2
        <3> HIDE DEF U
        <3>5. U \cup {x} \in P
            BY <3>4
        <3> QED
            BY <3>3, <3>5 DEF U
    <2> QED
        BY <2>1
<1> QED
    BY <1>1, SubsetInduction

\* Equal terms, equal sums.
LEMMA SumEqual ==
    ASSUME NEW S, IsFiniteSet(S), NEW f, NEW g,
           \A x \in S : f[x] \in Int /\ g[x] = f[x]
    PROVE  SumFunctionOnSet(g, S) = SumFunctionOnSet(f, S)
<1> DEFINE P == {T \in SUBSET S : SumFunctionOnSet(g, T) = SumFunctionOnSet(f, T)}
<1>1. {} \in P
    BY SumEmpty
<1>2. ASSUME NEW T \in SUBSET S, NEW x \in S, T \in P, x \notin T
      PROVE  T \cup {x} \in P
    <2>1. IsFiniteSet(T) /\ \A y \in T \cup {x} : f[y] \in Int /\ g[y] \in Int
        BY FS_Subset
    <2>2. /\ SumFunctionOnSet(f, T \cup {x}) = SumFunctionOnSet(f, T) + f[x]
          /\ SumFunctionOnSet(g, T \cup {x}) = SumFunctionOnSet(g, T) + g[x]
        BY <1>2, <2>1, SumAdding
    <2> QED
        BY <1>2, <2>2
<1> HIDE DEF P
<1>3. S \in P
    BY <1>1, <1>2, OneByOne
<1> QED
    BY <1>3 DEF P

\* Sums add up term by term.
LEMMA SumPlus ==
    ASSUME NEW S, IsFiniteSet(S), NEW f, NEW g, NEW h,
           \A x \in S : f[x] \in Int /\ g[x] \in Int /\ h[x] = f[x] + g[x]
    PROVE  SumFunctionOnSet(h, S) = SumFunctionOnSet(f, S) + SumFunctionOnSet(g, S)
<1> DEFINE P == {T \in SUBSET S :
                    SumFunctionOnSet(h, T) = SumFunctionOnSet(f, T) + SumFunctionOnSet(g, T)}
<1>1. {} \in P
    BY SumEmpty
<1>2. ASSUME NEW T \in SUBSET S, NEW x \in S, T \in P, x \notin T
      PROVE  T \cup {x} \in P
    <2>1. /\ IsFiniteSet(T)
          /\ \A y \in T \cup {x} : f[y] \in Int /\ g[y] \in Int /\ h[y] \in Int
        BY FS_Subset
    <2>2. /\ SumFunctionOnSet(f, T \cup {x}) = SumFunctionOnSet(f, T) + f[x]
          /\ SumFunctionOnSet(g, T \cup {x}) = SumFunctionOnSet(g, T) + g[x]
          /\ SumFunctionOnSet(h, T \cup {x}) = SumFunctionOnSet(h, T) + h[x]
        BY <1>2, <2>1, SumAdding
    <2>3. SumFunctionOnSet(f, T) \in Int /\ SumFunctionOnSet(g, T) \in Int
        BY <2>1, SumTaking
    <2>4. h[x] = f[x] + g[x] /\ f[x] \in Int /\ g[x] \in Int
        OBVIOUS
    <2>5. SumFunctionOnSet(h, T) = SumFunctionOnSet(f, T) + SumFunctionOnSet(g, T)
        BY <1>2
    <2>6. SumFunctionOnSet(h, T \cup {x})
            = SumFunctionOnSet(f, T \cup {x}) + SumFunctionOnSet(g, T \cup {x})
        BY <2>2, <2>3, <2>4, <2>5
    <2> QED
        BY <2>6
<1> HIDE DEF P
<1>3. S \in P
    BY <1>1, <1>2, OneByOne
<1> QED
    BY <1>3 DEF P

\* Larger terms, larger sums.
LEMMA SumLeq ==
    ASSUME NEW S, IsFiniteSet(S), NEW f, NEW g,
           \A x \in S : f[x] \in Int /\ g[x] \in Int /\ f[x] <= g[x]
    PROVE  SumFunctionOnSet(f, S) <= SumFunctionOnSet(g, S)
<1> DEFINE P == {T \in SUBSET S : SumFunctionOnSet(f, T) <= SumFunctionOnSet(g, T)}
<1>1. {} \in P
    BY SumEmpty
<1>2. ASSUME NEW T \in SUBSET S, NEW x \in S, T \in P, x \notin T
      PROVE  T \cup {x} \in P
    <2>1. IsFiniteSet(T) /\ \A y \in T \cup {x} : f[y] \in Int /\ g[y] \in Int
        BY FS_Subset
    <2>2. /\ SumFunctionOnSet(f, T \cup {x}) = SumFunctionOnSet(f, T) + f[x]
          /\ SumFunctionOnSet(g, T \cup {x}) = SumFunctionOnSet(g, T) + g[x]
        BY <1>2, <2>1, SumAdding
    <2>3. SumFunctionOnSet(f, T) \in Int /\ SumFunctionOnSet(g, T) \in Int
        BY <2>1, SumTaking
    <2> QED
        BY <1>2, <2>2, <2>3
<1> HIDE DEF P
<1>3. S \in P
    BY <1>1, <1>2, OneByOne
<1> QED
    BY <1>3 DEF P

\* Terms of nothing.
LEMMA SumZero ==
    ASSUME NEW S, IsFiniteSet(S), NEW f, \A x \in S : f[x] = 0
    PROVE  SumFunctionOnSet(f, S) = 0
<1> DEFINE P == {T \in SUBSET S : SumFunctionOnSet(f, T) = 0}
<1>1. {} \in P
    BY SumEmpty
<1>2. ASSUME NEW T \in SUBSET S, NEW x \in S, T \in P, x \notin T
      PROVE  T \cup {x} \in P
    <2>0. IsFiniteSet(T) /\ \A y \in T \cup {x} : f[y] \in Int
        BY FS_Subset
    <2>1. SumFunctionOnSet(f, T \cup {x}) = SumFunctionOnSet(f, T) + f[x]
        BY <1>2, <2>0, SumAdding
    <2> QED
        BY <1>2, <2>1
<1> HIDE DEF P
<1>3. S \in P
    BY <1>1, <1>2, OneByOne
<1> QED
    BY <1>3 DEF P

\* The sum of natural numbers is one, and no less than any of them.
LEMMA SumNat ==
    ASSUME NEW S, IsFiniteSet(S), NEW f, \A x \in S : f[x] \in Nat
    PROVE  /\ SumFunctionOnSet(f, S) \in Nat
           /\ \A x \in S : f[x] <= SumFunctionOnSet(f, S)
           /\ SumFunctionOnSet(f, S) > 0 => \E x \in S : f[x] > 0
<1> DEFINE P == {T \in SUBSET S : SumFunctionOnSet(f, T) \in Nat}
<1>1. {} \in P
    BY SumEmpty
<1>2. ASSUME NEW T \in SUBSET S, NEW x \in S, T \in P, x \notin T
      PROVE  T \cup {x} \in P
    <2>0. IsFiniteSet(T) /\ \A y \in T \cup {x} : f[y] \in Int
        BY FS_Subset
    <2>1. SumFunctionOnSet(f, T \cup {x}) = SumFunctionOnSet(f, T) + f[x]
        BY <1>2, <2>0, SumAdding
    <2> QED
        BY <1>2, <2>1
<1> HIDE DEF P
<1>3. \A T \in SUBSET S : T \in P
    BY <1>1, <1>2, OneByOne, FS_Subset
<1>4. \A T \in SUBSET S : SumFunctionOnSet(f, T) \in Nat
    BY <1>3 DEF P
<1>5. ASSUME NEW x \in S
      PROVE  f[x] <= SumFunctionOnSet(f, S)
    <2>1. SumFunctionOnSet(f, S) = f[x] + SumFunctionOnSet(f, S \ {x})
        BY SumTaking
    <2>2. SumFunctionOnSet(f, S \ {x}) \in Nat
        BY <1>4
    <2> QED
        BY <2>1, <2>2
<1>6. ASSUME ~ \E x \in S : f[x] > 0
      PROVE  ~(SumFunctionOnSet(f, S) > 0)
    <2>1. \A x \in S : f[x] = 0
        BY <1>6
    <2> QED
        BY <2>1, SumZero
<1> QED
    BY <1>4, <1>5, <1>6

\* Sets that have nothing in common.
LEMMA SumUnion ==
    ASSUME NEW S, IsFiniteSet(S), NEW T, IsFiniteSet(T), S \cap T = {},
           NEW f, \A x \in S \cup T : f[x] \in Int
    PROVE  SumFunctionOnSet(f, S \cup T) = SumFunctionOnSet(f, S) + SumFunctionOnSet(f, T)
<1> DEFINE P == {U \in SUBSET T :
                    SumFunctionOnSet(f, S \cup U) = SumFunctionOnSet(f, S) + SumFunctionOnSet(f, U)}
<1>0. SumFunctionOnSet(f, S) \in Int
    BY SumTaking
<1>1. {} \in P
    <2>1. S \cup {} = S
        OBVIOUS
    <2> QED
        BY <1>0, <2>1, SumEmpty
<1>2. ASSUME NEW U \in SUBSET T, NEW x \in T, U \in P, x \notin U
      PROVE  U \cup {x} \in P
    <2>1. IsFiniteSet(U) /\ IsFiniteSet(S \cup U)
        BY FS_Subset, FS_Union
    <2>2. SumFunctionOnSet(f, U \cup {x}) = SumFunctionOnSet(f, U) + f[x]
        BY <1>2, <2>1, SumAdding
    <2>3. SumFunctionOnSet(f, (S \cup U) \cup {x}) = SumFunctionOnSet(f, S \cup U) + f[x]
        BY <1>2, <2>1, SumAdding
    <2>4. SumFunctionOnSet(f, U) \in Int
        BY <2>1, SumTaking
    <2>5. (S \cup U) \cup {x} = S \cup (U \cup {x})
        OBVIOUS
    <2>6. f[x] \in Int /\ SumFunctionOnSet(f, S \cup U) = SumFunctionOnSet(f, S) + SumFunctionOnSet(f, U)
        BY <1>2
    <2>7. SumFunctionOnSet(f, (S \cup U) \cup {x}) = SumFunctionOnSet(f, S) + SumFunctionOnSet(f, U \cup {x})
        BY <1>0, <2>2, <2>3, <2>4, <2>6
    <2> QED
        BY <2>5, <2>7
<1> HIDE DEF P
<1>3. T \in P
    BY <1>1, <1>2, OneByOne
<1> QED
    BY <1>3 DEF P

\* Terms of nothing can be left out.
LEMMA SumWithin ==
    ASSUME NEW S, IsFiniteSet(S), NEW T \in SUBSET S,
           NEW f, \A x \in S : f[x] \in Int /\ (x \notin T => f[x] = 0)
    PROVE  SumFunctionOnSet(f, S) = SumFunctionOnSet(f, T)
<1>1. IsFiniteSet(T) /\ IsFiniteSet(S \ T) /\ T \cap (S \ T) = {} /\ T \cup (S \ T) = S
    BY FS_Subset
<1>2. SumFunctionOnSet(f, S \ T) = 0
    BY <1>1, SumZero
<1>3. SumFunctionOnSet(f, T \cup (S \ T)) = SumFunctionOnSet(f, T) + SumFunctionOnSet(f, S \ T)
    <2> DEFINE U == S \ T
    <2>1. \A x \in T \cup U : f[x] \in Int
        OBVIOUS
    <2>2. IsFiniteSet(U) /\ T \cap U = {}
        BY <1>1
    <2> HIDE DEF U
    <2>3. SumFunctionOnSet(f, T \cup U) = SumFunctionOnSet(f, T) + SumFunctionOnSet(f, U)
        BY <1>1, <2>1, <2>2, SumUnion
    <2> QED
        BY <2>3 DEF U
<1>4. SumFunctionOnSet(f, T) \in Int
    BY <1>1, SumTaking
<1>5. SumFunctionOnSet(f, S) = SumFunctionOnSet(f, T) + 0
    BY <1>1, <1>2, <1>3
<1> QED
    BY <1>4, <1>5

\* One term changes.
LEMMA SumChange ==
    ASSUME NEW S, IsFiniteSet(S), NEW x \in S, NEW f, NEW g,
           \A y \in S : f[y] \in Int /\ g[y] \in Int /\ (y # x => g[y] = f[y])
    PROVE  SumFunctionOnSet(g, S) = SumFunctionOnSet(f, S) + g[x] - f[x]
<1>1. IsFiniteSet(S \ {x})
    BY FS_Subset
<1>2. SumFunctionOnSet(g, S \ {x}) = SumFunctionOnSet(f, S \ {x}) /\ SumFunctionOnSet(f, S \ {x}) \in Int
    BY <1>1, SumEqual, SumTaking
<1>3. SumFunctionOnSet(f, S) = f[x] + SumFunctionOnSet(f, S \ {x})
    BY SumTaking
<1>4. SumFunctionOnSet(g, S) = g[x] + SumFunctionOnSet(g, S \ {x})
    BY SumTaking
<1> QED
    BY <1>2, <1>3, <1>4

\* A finite set has a finite image.
LEMMA ImageIsFinite ==
    ASSUME NEW S, IsFiniteSet(S), NEW b
    PROVE  IsFiniteSet({b[x] : x \in S})
<1> DEFINE P == {T \in SUBSET S : IsFiniteSet({b[x] : x \in T})}
<1>1. {} \in P
    <2>1. {b[x] : x \in {}} = {}
        OBVIOUS
    <2> QED
        BY <2>1, FS_EmptySet
<1>2. ASSUME NEW T \in SUBSET S, NEW x \in S, T \in P, x \notin T
      PROVE  T \cup {x} \in P
    <2>1. {b[y] : y \in T \cup {x}} = {b[y] : y \in T} \cup {b[x]}
        OBVIOUS
    <2>2. IsFiniteSet({b[y] : y \in T})
        BY <1>2
    <2> DEFINE V == {b[y] : y \in T}
    <2> HIDE DEF V
    <2>3. IsFiniteSet(V \cup {b[x]})
        BY <2>2, FS_AddElement DEF V
    <2> QED
        BY <2>1, <2>3 DEF V
<1> HIDE DEF P
<1>3. S \in P
    BY <1>1, <1>2, OneByOne
<1> QED
    BY <1>3 DEF P

\* b gives every term of f on S a name of its own in g.
Renames(b, S, f, g) ==
    /\ \A x, y \in S : b[x] = b[y] => x = y
    /\ \A x \in S : f[x] \in Int /\ g[b[x]] = f[x]

\* The same terms under other names.
LEMMA SumRenamed ==
    ASSUME NEW S, IsFiniteSet(S), NEW b, NEW f, NEW g, Renames(b, S, f, g)
    PROVE  SumFunctionOnSet(g, {b[x] : x \in S}) = SumFunctionOnSet(f, S)
<1> DEFINE Im(U) == {b[x] : x \in U}
           P == {U \in SUBSET S : SumFunctionOnSet(g, Im(U)) = SumFunctionOnSet(f, U)}
<1>1. {} \in P
    <2>1. Im({}) = {}
        OBVIOUS
    <2> QED
        BY <2>1, SumEmpty
<1>2. ASSUME NEW U \in SUBSET S, NEW x \in S, U \in P, x \notin U
      PROVE  U \cup {x} \in P
    <2>1. IsFiniteSet(U) /\ \A y \in U \cup {x} : f[y] \in Int
        BY FS_Subset DEF Renames
    <2>2. IsFiniteSet(Im(U))
        BY <2>1, ImageIsFinite
    <2>3. Im(U \cup {x}) = Im(U) \cup {b[x]} /\ b[x] \notin Im(U)
        BY <1>2 DEF Renames
    <2>4. \A y \in Im(U) \cup {b[x]} : g[y] \in Int
        BY DEF Renames
    <2>5. g[b[x]] = f[x]
        BY DEF Renames
    <2>6. SumFunctionOnSet(f, U \cup {x}) = SumFunctionOnSet(f, U) + f[x]
        BY <1>2, <2>1, SumAdding
    <2>7. SumFunctionOnSet(g, Im(U) \cup {b[x]}) = SumFunctionOnSet(g, Im(U)) + g[b[x]]
        <3> DEFINE V == Im(U)
                   z == b[x]
        <3>1. IsFiniteSet(V) /\ z \notin V /\ \A y \in V \cup {z} : g[y] \in Int
            BY <2>2, <2>3, <2>4
        <3> HIDE DEF V, z
        <3>2. SumFunctionOnSet(g, V \cup {z}) = SumFunctionOnSet(g, V) + g[z]
            BY <3>1, SumAdding
        <3> QED
            BY <3>2 DEF V, z
    <2> QED
        BY <1>2, <2>3, <2>5, <2>6, <2>7
<1>3. S \in P
    <2> HIDE DEF P
    <2> QED
        BY <1>1, <1>2, OneByOne
<1> QED
    BY <1>3

\* A set has as many elements as ones add up to.
LEMMA SumOfOnes ==
    ASSUME NEW S, IsFiniteSet(S), NEW f, \A x \in S : f[x] = 1
    PROVE  SumFunctionOnSet(f, S) = Cardinality(S)
<1> DEFINE P == {T \in SUBSET S : SumFunctionOnSet(f, T) = Cardinality(T)}
<1>1. {} \in P
    BY SumEmpty, FS_EmptySet
<1>2. ASSUME NEW T \in SUBSET S, NEW x \in S, T \in P, x \notin T
      PROVE  T \cup {x} \in P
    <2>0. IsFiniteSet(T)
        BY FS_Subset
    <2>9. \A y \in T \cup {x} : f[y] \in Int
        OBVIOUS
    <2>1. SumFunctionOnSet(f, T \cup {x}) = SumFunctionOnSet(f, T) + f[x]
        BY <1>2, <2>0, <2>9, SumAdding
    <2>2. Cardinality(T \cup {x}) = Cardinality(T) + 1
        BY <1>2, <2>0, FS_AddElement
    <2> QED
        BY <1>2, <2>1, <2>2
<1> HIDE DEF P
<1>3. S \in P
    BY <1>1, <1>2, OneByOne
<1> QED
    BY <1>3 DEF P

\* A single term.
LEMMA SumOne ==
    ASSUME NEW x, NEW f, f[x] \in Int
    PROVE  SumFunctionOnSet(f, {x}) = f[x]
<1> DEFINE S == {x}
           rest == S \ {x}
<1>1. IsFiniteSet(S) /\ \A y \in S : f[y] \in Int
    BY FS_Singleton
<1>2. x \in S
    OBVIOUS
<1>3. rest = {}
    OBVIOUS
<1> HIDE DEF S
<1>4. SumFunctionOnSet(f, S) = f[x] + SumFunctionOnSet(f, rest)
    BY <1>1, <1>2, SumTaking
<1>5. SumFunctionOnSet(f, rest) = 0
    BY <1>3, SumEmpty
<1> HIDE DEF rest
<1> QED
    BY <1>4, <1>5 DEF S
=============================================================================
