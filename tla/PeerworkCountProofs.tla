------------------------- MODULE PeerworkCountProofs -------------------------
(***************************************************************************)
(* What is counted over the messages in flight, for any number of peers,   *)
(* threads and messages: every answer under way is to a request its        *)
(* receiver still has open (AnswersAreToOpenRequests), the threads at work *)
(* and the jobs asked for stay within --threads (ThreadsAreNotOverbooked), *)
(* and a delegated job never finds every thread busy (NoJobIsTurnedAway).  *)
(***************************************************************************)
EXTENDS PeerworkSafetyProofs, FiniteSetLemmas

-----------------------------------------------------------------------------
(* Weights. *)

\* w gives every message that may be in flight a weight.
Weight(w) == w \in [Incoming -> Int]

BagWeight(w, B) == SumFunction([m \in DOMAIN B |-> B[m] * w[m]])

SeqWeight(w, s) == SumFunction([i \in DOMAIN s |-> w[s[i]]])

\* Bags and sequences of messages.
BagOf(B) == IsABag(B) /\ IsFiniteSet(DOMAIN B) /\ DOMAIN B \subseteq Incoming

LEMMA EmptyWeight ==
    ASSUME NEW w
    PROVE  BagWeight(w, EmptyBag) = 0 /\ SeqWeight(w, << >>) = 0
<1>1. DOMAIN EmptyBag = {} /\ DOMAIN << >> = {}
  BY EmptyIsBag
<1>2. \A f : SumFunctionOnSet(f, {}) = 0
  BY SumEmpty
<1> QED
  BY <1>1, <1>2 DEF BagWeight, SeqWeight, SumFunction

\* A bag weighs as much as its terms over any larger set.
LEMMA BagWeightWithin ==
    ASSUME NEW w, Weight(w), NEW B, BagOf(B), NEW D, IsFiniteSet(D), DOMAIN B \subseteq D
    PROVE  /\ BagWeight(w, B) \in Int
           /\ BagWeight(w, B) =
                SumFunctionOnSet([m \in D |-> IF m \in DOMAIN B THEN B[m] * w[m] ELSE 0], D)
<1> DEFINE f == [m \in DOMAIN B |-> B[m] * w[m]]
           g == [m \in D |-> IF m \in DOMAIN B THEN B[m] * w[m] ELSE 0]
<1>1. \A m \in DOMAIN B : B[m] * w[m] \in Int
  <2>1. \A m \in DOMAIN B : B[m] \in Int /\ w[m] \in Int
    BY DEF BagOf, IsABag, Weight
  <2> QED
    BY <2>1
<1>2. IsFiniteSet(DOMAIN B)
  BY DEF BagOf
<1>3. \A m \in DOMAIN B : f[m] \in Int /\ g[m] = f[m]
  BY <1>1
<1>4. \A m \in D : g[m] \in Int /\ (m \notin DOMAIN B => g[m] = 0)
  BY <1>1
<1>5. BagWeight(w, B) = SumFunctionOnSet(f, DOMAIN B)
  BY DEF BagWeight, SumFunction
<1> HIDE DEF f, g
<1>6. SumFunctionOnSet(g, D) = SumFunctionOnSet(g, DOMAIN B)
  BY <1>4, SumWithin
<1>7. SumFunctionOnSet(g, DOMAIN B) = SumFunctionOnSet(f, DOMAIN B)
  BY <1>2, <1>3, SumEqual
<1>8. SumFunctionOnSet(f, DOMAIN B) \in Int
  BY <1>2, <1>3, SumTaking
<1> QED
  BY <1>5, <1>6, <1>7, <1>8 DEF g

LEMMA UnionWeight ==
    ASSUME NEW w, Weight(w), NEW A, BagOf(A), NEW B, BagOf(B)
    PROVE  BagOf(A (+) B) /\ BagWeight(w, A (+) B) = BagWeight(w, A) + BagWeight(w, B)
<1> DEFINE C == A (+) B
           D == DOMAIN A \cup DOMAIN B
           a == [m \in D |-> IF m \in DOMAIN A THEN A[m] * w[m] ELSE 0]
           b == [m \in D |-> IF m \in DOMAIN B THEN B[m] * w[m] ELSE 0]
           c == [m \in D |-> IF m \in DOMAIN C THEN C[m] * w[m] ELSE 0]
<1>1. IsABag(C) /\ DOMAIN C = D
  BY SumIsBag DEF BagOf
<1>2. IsFiniteSet(D) /\ D \subseteq Incoming
  BY FS_Union DEF BagOf
<1>3. BagOf(C)
  BY <1>1, <1>2 DEF BagOf
<1>4. ASSUME NEW m \in D
      PROVE  a[m] \in Int /\ b[m] \in Int /\ c[m] = a[m] + b[m]
  <2>1. w[m] \in Int
    BY <1>2 DEF Weight
  <2>2. C[m] = (IF m \in DOMAIN A THEN A[m] ELSE 0) + (IF m \in DOMAIN B THEN B[m] ELSE 0)
    BY DEF (+)
  <2>3. (m \in DOMAIN A => A[m] \in Nat) /\ (m \in DOMAIN B => B[m] \in Nat)
    BY DEF BagOf, IsABag
  <2>4. /\ a[m] = IF m \in DOMAIN A THEN A[m] * w[m] ELSE 0
        /\ b[m] = IF m \in DOMAIN B THEN B[m] * w[m] ELSE 0
        /\ c[m] = C[m] * w[m]
    BY <1>1
  <2> HIDE DEF a, b, c, C
  <2>5. CASE m \in DOMAIN A /\ m \in DOMAIN B
    BY <2>1, <2>2, <2>3, <2>4, <2>5
  <2>6. CASE m \in DOMAIN A /\ m \notin DOMAIN B
    <3>1. C[m] = A[m]
      BY <2>2, <2>3, <2>6
    <3> QED
      BY <2>1, <2>3, <2>4, <2>6, <3>1
  <2>7. CASE m \notin DOMAIN A
    <3>1. m \in DOMAIN B /\ C[m] = B[m]
      BY <2>2, <2>3, <2>7
    <3> QED
      BY <2>1, <2>3, <2>4, <2>7, <3>1
  <2> QED
    BY <2>5, <2>6, <2>7
<1>5. /\ BagWeight(w, A) = SumFunctionOnSet(a, D)
      /\ BagWeight(w, B) = SumFunctionOnSet(b, D)
  BY <1>2, BagWeightWithin
<1>6. BagWeight(w, C) = SumFunctionOnSet(c, D)
  BY <1>1, <1>2, <1>3, BagWeightWithin
<1> HIDE DEF a, b, c, C, D
<1>7. \A m \in D : a[m] \in Int /\ b[m] \in Int /\ c[m] = a[m] + b[m]
  BY <1>4
<1>8. SumFunctionOnSet(c, D) = SumFunctionOnSet(a, D) + SumFunctionOnSet(b, D)
  BY <1>2, <1>7, SumPlus
<1> QED
  BY <1>3, <1>5, <1>6, <1>8 DEF C

\* One copy of m leaves.
LEMMA RemovalWeight ==
    ASSUME NEW w, Weight(w), NEW B, BagOf(B), NEW m \in DOMAIN B
    PROVE  /\ BagOf(B (-) SetToBag({m}))
           /\ BagWeight(w, B (-) SetToBag({m})) = BagWeight(w, B) - w[m]
<1> DEFINE one == SetToBag({m})
           C == B (-) one
           D == DOMAIN B
           b == [k \in D |-> IF k \in DOMAIN B THEN B[k] * w[k] ELSE 0]
           c == [k \in D |-> IF k \in DOMAIN C THEN C[k] * w[k] ELSE 0]
<1>1. DOMAIN one = {m} /\ one[m] = 1 /\ IsABag(one)
  BY SetIsBag DEF SetToBag
<1>2. IsABag(C) /\ DOMAIN C \subseteq D
  BY <1>1, DifferenceIsBag DEF BagOf
<1>3. IsFiniteSet(D) /\ D \subseteq Incoming
  BY DEF BagOf
<1>4. BagOf(C)
  BY <1>2, <1>3, FS_Subset DEF BagOf
<1>5. \A k \in D : B[k] \in Nat \ {0} /\ w[k] \in Int
  BY <1>3 DEF BagOf, IsABag, Weight
<1> HIDE DEF one
<1>6. \A k \in D : k # m => k \in DOMAIN C /\ C[k] = B[k]
  BY <1>1, <1>5 DEF (-)
<1>7. IF B[m] = 1 THEN m \notin DOMAIN C ELSE m \in DOMAIN C /\ C[m] = B[m] - 1
  BY <1>1, <1>5 DEF (-)
<1>8. \A k \in D : b[k] = B[k] * w[k]
  OBVIOUS
<1>9. \A k \in D : c[k] = IF k \in DOMAIN C THEN C[k] * w[k] ELSE 0
  OBVIOUS
<1>10. BagWeight(w, B) = SumFunctionOnSet(b, D)
  BY <1>3, BagWeightWithin
<1>11. BagWeight(w, C) = SumFunctionOnSet(c, D)
  BY <1>2, <1>3, <1>4, BagWeightWithin
<1> HIDE DEF b, c, C
<1>12. \A k \in D : b[k] \in Int
  BY <1>5, <1>8
<1>13. \A k \in D : k # m => c[k] = b[k]
  BY <1>6, <1>8, <1>9
<1>14. c[m] = b[m] - w[m]
  <2>1. B[m] \in Nat \ {0} /\ w[m] \in Int
    BY <1>5
  <2>2. b[m] = B[m] * w[m]
    BY <1>8
  <2>3. c[m] = IF m \in DOMAIN C THEN C[m] * w[m] ELSE 0
    BY <1>9
  <2>4. c[m] = (B[m] - 1) * w[m]
    BY <1>7, <2>1, <2>3
  <2> QED
    BY <2>1, <2>2, <2>4
<1>15. \A k \in D : b[k] \in Int /\ c[k] \in Int /\ (k # m => c[k] = b[k])
  <2>1. w[m] \in Int
    BY <1>5
  <2> QED
    BY <1>12, <1>13, <1>14, <2>1
<1>16. SumFunctionOnSet(c, D) = SumFunctionOnSet(b, D) + c[m] - b[m]
  <2> HIDE DEF D
  <2>1. m \in D
    BY DEF D
  <2> QED
    BY <1>3, <1>15, <2>1, SumChange
<1>17. SumFunctionOnSet(b, D) \in Int /\ b[m] \in Int /\ w[m] \in Int
  BY <1>3, <1>5, <1>12, SumTaking
<1> QED
  BY <1>4, <1>10, <1>11, <1>14, <1>16, <1>17 DEF C, one

\* A set of messages, one copy each.
LEMMA SetWeight ==
    ASSUME NEW w, Weight(w), NEW S, IsFiniteSet(S), S \subseteq Incoming
    PROVE  BagOf(SetToBag(S)) /\ BagWeight(w, SetToBag(S)) = SumFunctionOnSet(w, S)
<1> DEFINE B == SetToBag(S)
           f == [m \in DOMAIN B |-> B[m] * w[m]]
<1>1. IsABag(B) /\ DOMAIN B = S
  BY SetIsBag
<1>2. \A m \in S : B[m] = 1
  BY DEF SetToBag
<1>3. \A m \in S : w[m] \in Int
  BY DEF Weight
<1>4. \A m \in S : f[m] = B[m] * w[m]
  BY <1>1
<1>5. BagWeight(w, B) = SumFunctionOnSet(f, S)
  BY <1>1 DEF BagWeight, SumFunction
<1> HIDE DEF B, f
<1>6. \A m \in S : w[m] \in Int /\ f[m] = w[m]
  BY <1>2, <1>3, <1>4
<1>7. SumFunctionOnSet(f, S) = SumFunctionOnSet(w, S)
  BY <1>6, SumEqual
<1> QED
  BY <1>1, <1>5, <1>7 DEF BagOf, B

\* The terms of a sequence's weight.
LEMMA SeqTerms ==
    ASSUME NEW w, Weight(w), NEW s \in Seq(Incoming)
    PROVE  LET f == [i \in DOMAIN s |-> w[s[i]]]
           IN  /\ SeqWeight(w, s) = SumFunctionOnSet(f, DOMAIN s)
               /\ IsFiniteSet(DOMAIN s)
               /\ \A i \in DOMAIN s : f[i] = w[s[i]] /\ f[i] \in Int
               /\ SeqWeight(w, s) \in Int
<1> DEFINE f == [i \in DOMAIN s |-> w[s[i]]]
<1>1. DOMAIN s = 1..Len(s) /\ Len(s) \in Nat
  OBVIOUS
<1>2. IsFiniteSet(DOMAIN s)
  BY <1>1, FS_Interval
<1>3. \A i \in DOMAIN s : s[i] \in Incoming
  OBVIOUS
<1>4. \A i \in DOMAIN s : f[i] = w[s[i]] /\ f[i] \in Int
  BY <1>3 DEF Weight
<1>5. SeqWeight(w, s) = SumFunctionOnSet(f, DOMAIN s)
  BY DEF SeqWeight, SumFunction
<1> HIDE DEF f
<1>6. SumFunctionOnSet(f, DOMAIN s) \in Int
  BY <1>2, <1>4, SumTaking
<1> QED
  BY <1>2, <1>4, <1>5, <1>6 DEF f

LEMMA ConcatWeight ==
    ASSUME NEW w, Weight(w), NEW s \in Seq(Incoming), NEW t \in Seq(Incoming)
    PROVE  SeqWeight(w, s \o t) = SeqWeight(w, s) + SeqWeight(w, t)
<1> DEFINE u == s \o t
           f == [i \in DOMAIN s |-> w[s[i]]]
           g == [i \in DOMAIN t |-> w[t[i]]]
           h == [i \in DOMAIN u |-> w[u[i]]]
           b == [i \in DOMAIN t |-> i + Len(s)]
<1>1. u \in Seq(Incoming) /\ Len(s) \in Nat /\ Len(t) \in Nat
  OBVIOUS
<1>2. DOMAIN s = 1..Len(s) /\ DOMAIN t = 1..Len(t) /\ DOMAIN u = 1..(Len(s) + Len(t))
  OBVIOUS
<1>3. (\A i \in DOMAIN s : u[i] = s[i]) /\ (\A i \in DOMAIN t : u[i + Len(s)] = t[i])
  BY <1>1, <1>2
<1>4. /\ SeqWeight(w, s) = SumFunctionOnSet(f, DOMAIN s)
      /\ IsFiniteSet(DOMAIN s)
      /\ \A i \in DOMAIN s : f[i] = w[s[i]] /\ f[i] \in Int
  BY SeqTerms
<1>5. /\ SeqWeight(w, t) = SumFunctionOnSet(g, DOMAIN t)
      /\ IsFiniteSet(DOMAIN t)
      /\ \A i \in DOMAIN t : g[i] = w[t[i]] /\ g[i] \in Int
  BY SeqTerms
<1> HIDE DEF u
<1>6. /\ SeqWeight(w, u) = SumFunctionOnSet(h, DOMAIN u)
      /\ IsFiniteSet(DOMAIN u)
      /\ \A i \in DOMAIN u : h[i] = w[u[i]] /\ h[i] \in Int
  BY <1>1, SeqTerms
<1> DEFINE late == {b[i] : i \in DOMAIN t}
<1>7. late = (Len(s) + 1)..(Len(s) + Len(t))
  <2>1. \A i \in DOMAIN t : b[i] \in (Len(s) + 1)..(Len(s) + Len(t))
    BY <1>1, <1>2
  <2>2. ASSUME NEW k \in (Len(s) + 1)..(Len(s) + Len(t))
        PROVE  k \in late
    <3>1. k - Len(s) \in DOMAIN t /\ b[k - Len(s)] = k
      BY <1>1, <1>2
    <3> QED
      BY <3>1
  <2> QED
    BY <2>1, <2>2
<1>8. DOMAIN u = DOMAIN s \cup late /\ DOMAIN s \cap late = {}
  BY <1>1, <1>2, <1>7
<1>9. \A x, y \in DOMAIN t : b[x] = b[y] => x = y
  BY <1>1, <1>2
<1>10. \A i \in DOMAIN t : b[i] = i + Len(s) /\ b[i] \in DOMAIN u
  BY <1>7, <1>8
<1> HIDE DEF f, g, h, b
<1>11. Renames(b, DOMAIN t, g, h)
  <2>1. \A i \in DOMAIN t : h[b[i]] = g[i]
    BY <1>3, <1>5, <1>6, <1>10
  <2> QED
    BY <1>5, <1>9, <2>1 DEF Renames
<1>12. SumFunctionOnSet(h, late) = SumFunctionOnSet(g, DOMAIN t)
  BY <1>5, <1>11, SumRenamed
<1>13. SumFunctionOnSet(h, DOMAIN s) = SumFunctionOnSet(f, DOMAIN s)
  <2>1. \A i \in DOMAIN s : f[i] \in Int /\ h[i] = f[i]
    BY <1>3, <1>4, <1>6, <1>8
  <2> QED
    BY <1>4, <2>1, SumEqual
<1> HIDE DEF late
<1>14. IsFiniteSet(late)
  BY <1>6, <1>8, FS_Subset
<1>15. SumFunctionOnSet(h, DOMAIN s \cup late) =
         SumFunctionOnSet(h, DOMAIN s) + SumFunctionOnSet(h, late)
  BY <1>4, <1>6, <1>8, <1>14, SumUnion
<1> QED
  BY <1>4, <1>5, <1>6, <1>8, <1>12, <1>13, <1>15 DEF u

LEMMA OneWeight ==
    ASSUME NEW w, Weight(w), NEW m \in Incoming
    PROVE  SeqWeight(w, <<m>>) = w[m]
<1> DEFINE s == <<m>>
           f == [i \in DOMAIN s |-> w[s[i]]]
<1>1. s \in Seq(Incoming) /\ DOMAIN s = {1} /\ s[1] = m
  OBVIOUS
<1>2. w[m] \in Int
  BY DEF Weight
<1>3. f[1] = w[m]
  BY <1>1
<1>4. SeqWeight(w, s) = SumFunctionOnSet(f, {1})
  BY <1>1 DEF SeqWeight, SumFunction
<1> HIDE DEF s, f
<1>5. SumFunctionOnSet(f, {1}) = f[1]
  BY <1>2, <1>3, SumOne
<1> QED
  BY <1>3, <1>4, <1>5 DEF s

LEMMA TailWeight ==
    ASSUME NEW w, Weight(w), NEW s \in Seq(Incoming), s # << >>
    PROVE  SeqWeight(w, Tail(s)) = SeqWeight(w, s) - w[Head(s)] /\ Tail(s) \in Seq(Incoming)
<1> DEFINE m == Head(s)
           t == Tail(s)
           one == <<m>>
<1>1. m \in Incoming /\ t \in Seq(Incoming) /\ one \in Seq(Incoming)
  OBVIOUS
<1>2. s = one \o t
  OBVIOUS
<1> HIDE DEF t, one
<1>3. SeqWeight(w, s) = SeqWeight(w, one) + SeqWeight(w, t)
  BY <1>1, <1>2, ConcatWeight
<1>4. SeqWeight(w, one) = w[m]
  BY <1>1, OneWeight DEF one
<1>5. SeqWeight(w, t) \in Int /\ w[m] \in Int
  BY <1>1, SeqTerms DEF Weight
<1> QED
  BY <1>1, <1>3, <1>4, <1>5 DEF t

\* Messages of the same weight.
LEMMA SameWeight ==
    ASSUME NEW w, Weight(w), NEW s \in Seq(Incoming), NEW k \in {0, 1},
           \A i \in DOMAIN s : w[s[i]] = k
    PROVE  SeqWeight(w, s) = k * Len(s)
<1> DEFINE f == [i \in DOMAIN s |-> w[s[i]]]
<1>1. /\ SeqWeight(w, s) = SumFunctionOnSet(f, DOMAIN s)
      /\ IsFiniteSet(DOMAIN s)
      /\ \A i \in DOMAIN s : f[i] = w[s[i]] /\ f[i] \in Int
  BY SeqTerms
<1>2. \A i \in DOMAIN s : f[i] = k
  OBVIOUS
<1> HIDE DEF f
<1>3. CASE k = 0
  <2>1. SumFunctionOnSet(f, DOMAIN s) = 0
    BY <1>1, <1>2, <1>3, SumZero
  <2> QED
    BY <1>1, <1>3, <2>1
<1>4. CASE k = 1
  <2>1. SumFunctionOnSet(f, DOMAIN s) = Cardinality(DOMAIN s)
    BY <1>1, <1>2, <1>4, SumOfOnes
  <2>2. PICK n \in Nat : Len(s) = n /\ DOMAIN s = 1..n
    OBVIOUS
  <2>3. Cardinality(1..n) = n
    BY FS_Interval
  <2> QED
    BY <1>1, <1>4, <2>1, <2>2, <2>3
<1> QED
  BY <1>3, <1>4

\* A sequence made a bag weighs the same.
LEMMA ToBagWeight ==
    ASSUME NEW w, Weight(w), NEW s \in Seq(Incoming)
    PROVE  BagOf(ToBag(s)) /\ BagWeight(w, ToBag(s)) = SeqWeight(w, s)
<1> DEFINE I == DOMAIN s
           R == Range(s)
           At(T, x) == {i \in T : s[i] = x}
           f == [i \in I |-> w[s[i]]]
           Terms(T) == [x \in R |-> Cardinality(At(T, x)) * w[x]]
           P == {T \in SUBSET I : SumFunctionOnSet(Terms(T), R) = SumFunctionOnSet(f, T)}
<1>1. IsFiniteSet(R) /\ R \subseteq Incoming
  BY RangeIsFinite
<1>2. /\ SeqWeight(w, s) = SumFunctionOnSet(f, I)
      /\ IsFiniteSet(I)
      /\ \A i \in I : f[i] = w[s[i]] /\ f[i] \in Int
  BY SeqTerms
<1>3. \A x \in R : w[x] \in Int
  BY <1>1 DEF Weight
<1>4. ASSUME NEW T \in SUBSET I, NEW x \in R
      PROVE  IsFiniteSet(At(T, x)) /\ Cardinality(At(T, x)) \in Nat
  BY <1>2, FS_Subset, FS_CardinalityType
<1>5. \A T \in SUBSET I, x \in R : Terms(T)[x] = Cardinality(At(T, x)) * w[x]
  OBVIOUS
<1>6. \A T \in SUBSET I, x \in R : Terms(T)[x] \in Int
  <2> HIDE DEF At, Terms
  <2> QED
    BY <1>3, <1>4, <1>5
<1>7. {} \in P
  <2>1. \A x \in R : At({}, x) = {} /\ Cardinality({}) = 0
    BY FS_EmptySet
  <2>2. \A x \in R : Terms({})[x] = 0
    <3>1. {} \in SUBSET I
      OBVIOUS
    <3> HIDE DEF At, Terms
    <3>2. \A x \in R : Terms({})[x] = 0 * w[x]
      BY <1>5, <2>1, <3>1
    <3> QED
      BY <1>3, <3>2
  <2> HIDE DEF f, Terms
  <2> QED
    BY <1>1, <2>2, SumZero, SumEmpty
<1>8. ASSUME NEW T \in SUBSET I, NEW i \in I, T \in P, i \notin T
      PROVE  T \cup {i} \in P
  <2> DEFINE y == s[i]
             U == T \cup {i}
  <2>1. y \in R /\ U \in SUBSET I
    BY DEF Range
  <2>2. \A x \in R : x # y => At(U, x) = At(T, x)
    OBVIOUS
  <2>3. At(U, y) = At(T, y) \cup {i} /\ i \notin At(T, y)
    BY <1>8
  <2>4. Cardinality(At(U, y)) = Cardinality(At(T, y)) + 1
    <3>1. IsFiniteSet(At(T, y)) /\ Cardinality(At(T, y)) \in Nat
      BY <1>4, <2>1
    <3> HIDE DEF At, U
    <3> QED
      BY <2>3, <3>1, FS_AddElement
  <2> HIDE DEF At, Terms, f, U
  <2>5. \A x \in R : x # y => Terms(U)[x] = Terms(T)[x]
    BY <1>5, <2>1, <2>2
  <2>6. Terms(U)[y] = Terms(T)[y] + w[y]
    <3>1. Cardinality(At(T, y)) \in Nat /\ w[y] \in Int
      BY <1>3, <1>4, <2>1
    <3> QED
      BY <1>5, <2>1, <2>4, <3>1
  <2>7. \A x \in R : Terms(T)[x] \in Int /\ Terms(U)[x] \in Int /\ (x # y => Terms(U)[x] = Terms(T)[x])
    BY <1>6, <2>1, <2>5
  <2>8. SumFunctionOnSet(Terms(U), R) = SumFunctionOnSet(Terms(T), R) + Terms(U)[y] - Terms(T)[y]
    BY <1>1, <2>1, <2>7, SumChange
  <2>9. SumFunctionOnSet(f, U) = SumFunctionOnSet(f, T) + f[i]
    <3>1. IsFiniteSet(T) /\ \A k \in T \cup {i} : f[k] \in Int
      BY <1>2, FS_Subset
    <3> QED
      BY <1>8, <3>1, SumAdding DEF U
  <2>10. SumFunctionOnSet(Terms(T), R) = SumFunctionOnSet(f, T)
    BY <1>8
  <2>11. f[i] = w[y] /\ w[y] \in Int /\ Terms(T)[y] \in Int /\ SumFunctionOnSet(Terms(T), R) \in Int
    BY <1>1, <1>2, <1>3, <1>6, <2>1, SumTaking
  <2>12. SumFunctionOnSet(Terms(U), R) = SumFunctionOnSet(f, U)
    BY <2>6, <2>8, <2>9, <2>10, <2>11
  <2> QED
    BY <2>1, <2>12 DEF U
<1>9. I \in P
  <2> HIDE DEF P
  <2> QED
    BY <1>2, <1>7, <1>8, OneByOne
<1> DEFINE B == ToBag(s)
           b == [m \in DOMAIN B |-> B[m] * w[m]]
<1>10. IsABag(B) /\ DOMAIN B = R
  BY SequenceIsBag
<1>11. \A x \in R : B[x] = Cardinality(At(I, x))
  BY DEF ToBag
<1>12. BagWeight(w, B) = SumFunctionOnSet(b, R)
  BY <1>10 DEF BagWeight, SumFunction
<1>13. \A x \in R : b[x] = B[x] * w[x]
  BY <1>10
<1> HIDE DEF B, b, At, Terms, f
<1>14. SumFunctionOnSet(b, R) = SumFunctionOnSet(Terms(I), R)
  <2>1. \A x \in R : Terms(I)[x] \in Int /\ b[x] = Terms(I)[x]
    BY <1>5, <1>6, <1>11, <1>13
  <2> QED
    BY <1>1, <2>1, SumEqual
<1> QED
  BY <1>1, <1>2, <1>9, <1>10, <1>12, <1>14 DEF BagOf, B

\* A set of messages of which only m has a weight.
LEMMA SingleWeight ==
    ASSUME NEW w, Weight(w), NEW S, IsFiniteSet(S), S \subseteq Incoming, NEW m \in S,
           \A x \in S : x # m => w[x] = 0
    PROVE  SumFunctionOnSet(w, S) = w[m]
<1>1. \A x \in S : w[x] \in Int /\ (x \notin {m} => w[x] = 0)
  BY DEF Weight
<1>2. {m} \in SUBSET S
  OBVIOUS
<1>3. SumFunctionOnSet(w, S) = SumFunctionOnSet(w, {m})
  BY <1>1, <1>2, SumWithin
<1> QED
  BY <1>1, <1>3, SumOne

-----------------------------------------------------------------------------
(* The weight of all that is under way. *)

Load(w, N, P) == BagWeight(w, N) + SumFunction([q \in Peers |-> SeqWeight(w, P[q])])

\* Finitely many messages are in the network.
NetFinite == IsFiniteSet(DOMAIN net)

\* Mail between processes and posts within them.
MailOf(N, P) == BagOf(N) /\ \A q \in Peers : P[q] \in Seq(Incoming)

LEMMA LoadType ==
    ASSUME NEW w, Weight(w), NEW N, NEW P, MailOf(N, P)
    PROVE  /\ BagWeight(w, N) \in Int
           /\ \A q \in Peers : SeqWeight(w, P[q]) \in Int
           /\ SumFunction([q \in Peers |-> SeqWeight(w, P[q])]) =
                SumFunctionOnSet([q \in Peers |-> SeqWeight(w, P[q])], Peers)
           /\ Load(w, N, P) \in Int
<1> DEFINE f == [q \in Peers |-> SeqWeight(w, P[q])]
<1>1. BagWeight(w, N) \in Int
  BY BagWeightWithin DEF MailOf, BagOf
<1>2. \A q \in Peers : SeqWeight(w, P[q]) \in Int
  BY SeqTerms DEF MailOf
<1>3. SumFunction(f) = SumFunctionOnSet(f, Peers)
  BY DEF SumFunction
<1>4. \A q \in Peers : f[q] \in Int
  BY <1>2
<1> HIDE DEF f
<1>5. SumFunctionOnSet(f, Peers) \in Int
  BY <1>4, SumTaking, PeersAssumption
<1>6. Load(w, N, P) = BagWeight(w, N) + SumFunction(f)
  BY DEF Load, f
<1>7. Load(w, N, P) \in Int
  BY <1>1, <1>3, <1>5, <1>6
<1> QED
  BY <1>1, <1>2, <1>3, <1>7 DEF f

\* The posts of one peer change.
LEMMA PostsLoad ==
    ASSUME NEW w, Weight(w), NEW N, NEW P, MailOf(N, P), NEW M, NEW Q, MailOf(M, Q),
           NEW p \in Peers, \A q \in Peers : q # p => Q[q] = P[q]
    PROVE  Load(w, M, Q) =
             Load(w, N, P) + BagWeight(w, M) - BagWeight(w, N)
                           + SeqWeight(w, Q[p]) - SeqWeight(w, P[p])
<1> DEFINE f == [q \in Peers |-> SeqWeight(w, P[q])]
           g == [q \in Peers |-> SeqWeight(w, Q[q])]
<1>1. /\ BagWeight(w, N) \in Int /\ BagWeight(w, M) \in Int
      /\ \A q \in Peers : SeqWeight(w, P[q]) \in Int /\ SeqWeight(w, Q[q]) \in Int
      /\ SumFunction(f) = SumFunctionOnSet(f, Peers)
      /\ SumFunction(g) = SumFunctionOnSet(g, Peers)
  BY LoadType
<1>2. \A q \in Peers : f[q] = SeqWeight(w, P[q]) /\ g[q] = SeqWeight(w, Q[q])
  OBVIOUS
<1>3. Load(w, N, P) = BagWeight(w, N) + SumFunction(f) /\ Load(w, M, Q) = BagWeight(w, M) + SumFunction(g)
  BY DEF Load
<1> HIDE DEF f, g
<1>4. \A q \in Peers : f[q] \in Int /\ g[q] \in Int /\ (q # p => g[q] = f[q])
  BY <1>1, <1>2
<1>5. SumFunctionOnSet(g, Peers) = SumFunctionOnSet(f, Peers) + g[p] - f[p]
  BY <1>4, SumChange, PeersAssumption
<1>6. SumFunctionOnSet(f, Peers) \in Int
  BY <1>4, SumTaking, PeersAssumption
<1> QED
  BY <1>1, <1>2, <1>3, <1>4, <1>5, <1>6

LEMMA MailType == TypeOK /\ NetFinite => MailOf(net, posted)
<1> SUFFICES ASSUME TypeOK, NetFinite
             PROVE  MailOf(net, posted)
  OBVIOUS
<1>1. BagOf(net)
  BY DEF TypeOK, NetFinite, BagOf, Parcels, Incoming
<1>2. \A q \in Peers : Posts(q) \subseteq Incoming
  BY DEF Posts, Incoming
<1>3. \A q \in Peers : posted[q] \in Seq(Incoming)
  <2>1. \A q \in Peers : posted[q] \in Seq(Posts(q))
    BY DEF TypeOK
  <2> QED
    BY <1>2, <2>1
<1> QED
  BY <1>1, <1>3 DEF MailOf

\* m goes, and what is sent comes.
LEMMA ExchangeLoad ==
    ASSUME TypeOK, NetFinite, NEW w, Weight(w), NEW p \in Peers, NEW m, Handled(p, m),
           NEW out, BagOf(out), NEW self \in Seq(Posts(p)), Exchange(p, m, out, self)
    PROVE  /\ NetFinite'
           /\ MailOf(net', posted')
           /\ Load(w, net', posted') =
                Load(w, net, posted) - w[m] + BagWeight(w, out) + SeqWeight(w, self)
           /\ BagWeight(w, out) \in Int /\ SeqWeight(w, self) \in Int /\ w[m] \in Int
<1> DEFINE rest == IF Local(m) THEN net ELSE net (-) SetToBag({m})
           left == IF Local(m) THEN Tail(posted[p]) ELSE posted[p]
           gone == IF Local(m) THEN 0 ELSE w[m]
<1>1. /\ net' = rest (+) out
      /\ posted' = [posted EXCEPT ![p] = left \o self]
  BY DEF Exchange
<1>2. BagOf(net) /\ \A q \in Peers : posted[q] \in Seq(Incoming)
  BY MailType DEF MailOf
<1>3. w[m] \in Int
  BY DEF Handled, Weight
<1>4. BagOf(rest) /\ BagWeight(w, rest) = BagWeight(w, net) - gone
  <2>1. CASE Local(m)
    <3>1. BagWeight(w, net) \in Int
      BY <1>2, BagWeightWithin DEF BagOf
    <3> QED
      BY <1>2, <2>1, <3>1
  <2>2. CASE ~Local(m)
    <3>1. m \in DOMAIN net
      BY <2>2 DEF Handled
    <3> QED
      BY <1>2, <2>2, <3>1, RemovalWeight
  <2> QED
    BY <2>1, <2>2
<1>5. left \in Seq(Incoming) /\ SeqWeight(w, left) = SeqWeight(w, posted[p]) - (w[m] - gone)
  <2>1. CASE Local(m)
    BY <1>2, <1>3, <2>1, TailWeight DEF Handled
  <2>2. CASE ~Local(m)
    <3>1. SeqWeight(w, posted[p]) \in Int
      BY <1>2, SeqTerms
    <3> QED
      BY <1>2, <1>3, <2>2, <3>1
  <2> QED
    BY <2>1, <2>2
<1>6. self \in Seq(Incoming)
  BY DEF Posts, Incoming
<1>7. gone \in Int
  BY <1>3
<1> HIDE DEF rest, left, gone
<1>8. BagOf(net') /\ BagWeight(w, net') = BagWeight(w, rest) + BagWeight(w, out)
  BY <1>1, <1>4, UnionWeight
<1> DEFINE after == left \o self
<1>9. after \in Seq(Incoming) /\ SeqWeight(w, after) = SeqWeight(w, left) + SeqWeight(w, self)
  BY <1>5, <1>6, ConcatWeight
<1>10. posted'[p] = after /\ \A q \in Peers : q # p => posted'[q] = posted[q]
  BY <1>1 DEF TypeOK
<1> HIDE DEF after
<1>11. MailOf(net', posted')
  BY <1>2, <1>8, <1>9, <1>10 DEF MailOf
<1>12. MailOf(net, posted)
  BY <1>2 DEF MailOf
<1>13. Load(w, net', posted') =
         Load(w, net, posted) + BagWeight(w, net') - BagWeight(w, net)
                              + SeqWeight(w, posted'[p]) - SeqWeight(w, posted[p])
  BY <1>10, <1>11, <1>12, PostsLoad
<1>14. /\ Load(w, net, posted) \in Int /\ BagWeight(w, net) \in Int
       /\ SeqWeight(w, posted[p]) \in Int
  BY <1>12, LoadType
<1>15. BagWeight(w, out) \in Int /\ SeqWeight(w, self) \in Int
  BY <1>6, BagWeightWithin, SeqTerms DEF BagOf
<1>16. NetFinite'
  BY <1>8 DEF NetFinite, BagOf
<1>17. /\ BagWeight(w, net') = BagWeight(w, net) - gone + BagWeight(w, out)
       /\ SeqWeight(w, posted'[p]) = SeqWeight(w, posted[p]) - (w[m] - gone) + SeqWeight(w, self)
  BY <1>4, <1>5, <1>8, <1>9, <1>10
<1>18. Load(w, net', posted') =
         Load(w, net, posted) - w[m] + BagWeight(w, out) + SeqWeight(w, self)
  <2> DEFINE l == Load(w, net, posted)
             b == BagWeight(w, net)
             o == BagWeight(w, out)
             u == SeqWeight(w, posted[p])
             v == SeqWeight(w, self)
  <2>1. Load(w, net', posted') = l + (b - gone + o) - b + (u - (w[m] - gone) + v) - u
    BY <1>13, <1>17
  <2>2. l \in Int /\ b \in Int /\ o \in Int /\ u \in Int /\ v \in Int
    BY <1>14, <1>15
  <2> HIDE DEF l, b, o, u, v
  <2>3. l + (b - gone + o) - b + (u - (w[m] - gone) + v) - u = l - w[m] + o + v
    BY <1>3, <1>7, <2>2
  <2> QED
    BY <2>1, <2>3 DEF l, o, v
<1> QED
  BY <1>3, <1>11, <1>15, <1>16, <1>18

LEMMA ConsumeLoad ==
    ASSUME TypeOK, NetFinite, NEW w, Weight(w), NEW p \in Peers, NEW m, Handled(p, m), Consume(m)
    PROVE  /\ NetFinite'
           /\ MailOf(net', posted')
           /\ Load(w, net', posted') = Load(w, net, posted) - w[m]
           /\ w[m] \in Int
<1>1. << >> \in Seq(Posts(p)) /\ Exchange(p, m, EmptyBag, << >>)
  BY DEF Consume, Handled
<1>2. BagOf(EmptyBag)
  BY EmptyIsBag, FS_EmptySet DEF BagOf
<1>3. /\ NetFinite' /\ w[m] \in Int
      /\ MailOf(net', posted')
      /\ Load(w, net', posted') =
           Load(w, net, posted) - w[m] + BagWeight(w, EmptyBag) + SeqWeight(w, << >>)
  BY <1>1, <1>2, ExchangeLoad
<1>4. Load(w, net, posted) \in Int
  BY MailType, LoadType
<1> QED
  BY <1>3, <1>4, EmptyWeight

LEMMA EmitLoad ==
    ASSUME TypeOK, NetFinite, NEW w, Weight(w), NEW p \in Peers,
           NEW out, BagOf(out), NEW self \in Seq(Posts(p)), Emit(p, out, self)
    PROVE  /\ NetFinite'
           /\ MailOf(net', posted')
           /\ Load(w, net', posted') =
                Load(w, net, posted) + BagWeight(w, out) + SeqWeight(w, self)
<1> DEFINE after == posted[p] \o self
<1>1. net' = net (+) out /\ posted' = [posted EXCEPT ![p] = after]
  BY DEF Emit
<1>2. BagOf(net) /\ \A q \in Peers : posted[q] \in Seq(Incoming)
  BY MailType DEF MailOf
<1>3. self \in Seq(Incoming)
  BY DEF Posts, Incoming
<1>4. BagOf(net') /\ BagWeight(w, net') = BagWeight(w, net) + BagWeight(w, out)
  BY <1>1, <1>2, UnionWeight
<1>5. after \in Seq(Incoming) /\ SeqWeight(w, after) = SeqWeight(w, posted[p]) + SeqWeight(w, self)
  BY <1>2, <1>3, ConcatWeight
<1> HIDE DEF after
<1>6. posted'[p] = after /\ \A q \in Peers : q # p => posted'[q] = posted[q]
  BY <1>1 DEF TypeOK
<1>7. MailOf(net', posted') /\ MailOf(net, posted)
  BY <1>2, <1>4, <1>5, <1>6 DEF MailOf
<1>8. Load(w, net', posted') =
        Load(w, net, posted) + BagWeight(w, net') - BagWeight(w, net)
                             + SeqWeight(w, posted'[p]) - SeqWeight(w, posted[p])
  BY <1>6, <1>7, PostsLoad
<1>9. /\ Load(w, net, posted) \in Int /\ BagWeight(w, net) \in Int
      /\ SeqWeight(w, posted[p]) \in Int
  BY <1>7, LoadType
<1>10. BagWeight(w, out) \in Int /\ SeqWeight(w, self) \in Int
  BY <1>3, BagWeightWithin, SeqTerms DEF BagOf
<1>11. NetFinite'
  BY <1>4 DEF NetFinite, BagOf
<1> QED
  BY <1>4, <1>5, <1>6, <1>7, <1>8, <1>9, <1>10, <1>11

\* Where no message weighs less than nothing, neither does the whole, nor less than
\* what is handled next.
NoDebt(w) == w \in [Incoming -> Nat]

LEMMA LoadIsNat ==
    ASSUME NEW w, NoDebt(w), NEW N, NEW P, MailOf(N, P)
    PROVE  Weight(w) /\ Load(w, N, P) \in Nat
<1> DEFINE f == [m \in DOMAIN N |-> N[m] * w[m]]
           g == [q \in Peers |-> SeqWeight(w, P[q])]
<1>1. Weight(w)
  BY DEF NoDebt, Weight
<1>2. IsFiniteSet(DOMAIN N) /\ \A m \in DOMAIN N : N[m] \in Nat /\ w[m] \in Nat
  BY DEF MailOf, BagOf, IsABag, NoDebt
<1>3. \A m \in DOMAIN N : f[m] \in Nat
  BY <1>2
<1>4. BagWeight(w, N) = SumFunctionOnSet(f, DOMAIN N)
  BY DEF BagWeight, SumFunction
<1>5. ASSUME NEW q \in Peers
      PROVE  SeqWeight(w, P[q]) \in Nat
  <2> DEFINE s == P[q]
             h == [i \in DOMAIN s |-> w[s[i]]]
  <2>1. s \in Seq(Incoming)
    BY DEF MailOf
  <2> HIDE DEF s
  <2>2. \A i \in DOMAIN s : s[i] \in Incoming
    BY <2>1
  <2>3. \A i \in DOMAIN s : h[i] \in Nat
    BY <2>2 DEF NoDebt
  <2>4. SeqWeight(w, s) = SumFunctionOnSet(h, DOMAIN s) /\ IsFiniteSet(DOMAIN s)
    BY <1>1, <2>1, SeqTerms
  <2> HIDE DEF h
  <2>5. SumFunctionOnSet(h, DOMAIN s) \in Nat
    BY <2>3, <2>4, SumNat
  <2> QED
    BY <2>4, <2>5 DEF s
<1>6. SumFunction(g) = SumFunctionOnSet(g, Peers) /\ Load(w, N, P) = BagWeight(w, N) + SumFunction(g)
  BY DEF SumFunction, Load
<1>7. \A q \in Peers : g[q] \in Nat
  BY <1>5
<1> HIDE DEF f, g
<1>8. SumFunctionOnSet(f, DOMAIN N) \in Nat
  BY <1>2, <1>3, SumNat
<1>9. SumFunctionOnSet(g, Peers) \in Nat
  BY <1>7, SumNat, PeersAssumption
<1> QED
  BY <1>1, <1>4, <1>6, <1>8, <1>9

\* Messages without weight.
LEMMA NothingWeighs ==
    ASSUME NEW w, Weight(w), NEW B, BagOf(B), \A m \in DOMAIN B : w[m] = 0
    PROVE  BagWeight(w, B) = 0
<1> DEFINE f == [m \in DOMAIN B |-> B[m] * w[m]]
<1>1. \A m \in DOMAIN B : B[m] \in Nat
  BY DEF BagOf, IsABag
<1>2. \A m \in DOMAIN B : f[m] = 0
  BY <1>1
<1>3. BagWeight(w, B) = SumFunctionOnSet(f, DOMAIN B) /\ IsFiniteSet(DOMAIN B)
  BY DEF BagWeight, SumFunction, BagOf
<1> HIDE DEF f
<1> QED
  BY <1>2, <1>3, SumZero

\* Only the posts of a have a weight.
LEMMA PostsOfOne ==
    ASSUME NEW w, Weight(w), NEW N, NEW P, MailOf(N, P), NEW a \in Peers,
           \A q \in Peers : q # a => \A i \in DOMAIN P[q] : w[P[q][i]] = 0
    PROVE  SumFunction([q \in Peers |-> SeqWeight(w, P[q])]) = SeqWeight(w, P[a])
<1> DEFINE f == [q \in Peers |-> SeqWeight(w, P[q])]
<1>1. ASSUME NEW q \in Peers, q # a
      PROVE  SeqWeight(w, P[q]) = 0
  <2>1. P[q] \in Seq(Incoming)
    BY DEF MailOf
  <2>2. SeqWeight(w, P[q]) = 0 * Len(P[q]) /\ Len(P[q]) \in Nat
    BY <1>1, <2>1, SameWeight
  <2> QED
    BY <2>2
<1>2. SumFunction(f) = SumFunctionOnSet(f, Peers) /\ \A q \in Peers : f[q] = SeqWeight(w, P[q])
  BY DEF SumFunction
<1> HIDE DEF f
<1>3. \A q \in Peers : f[q] \in Int /\ (q \notin {a} => f[q] = 0)
  <2>1. \A q \in Peers : SeqWeight(w, P[q]) \in Int
    BY LoadType
  <2> QED
    BY <1>1, <1>2, <2>1
<1>4. {a} \in SUBSET Peers
  OBVIOUS
<1>5. SumFunctionOnSet(f, Peers) = SumFunctionOnSet(f, {a})
  BY <1>3, <1>4, SumWithin, PeersAssumption
<1>6. SumFunctionOnSet(f, {a}) = f[a]
  BY <1>3, SumOne
<1> QED
  BY <1>2, <1>5, <1>6 DEF f

-----------------------------------------------------------------------------
(* The answers still awaited are a weight of what is under way. *)

AwaitWeight(a, b) == [m \in Incoming |-> AwaitedBy(a, b, m)]

LEMMA AwaitWeightType ==
    ASSUME NEW a \in Peers, NEW b \in Peers
    PROVE  /\ NoDebt(AwaitWeight(a, b)) /\ Weight(AwaitWeight(a, b))
           /\ \A m \in Incoming :
                /\ m.type = "RequestJobs" =>
                     AwaitWeight(a, b)[m] = IF m.src = a /\ m.dst = b THEN m.count ELSE 0
                /\ m.type \in {"DelegateJob", "NoMoreJobs"} =>
                     AwaitWeight(a, b)[m] = IF m.src = b /\ m.dst = a THEN 1 ELSE 0
                /\ m.type \notin {"RequestJobs", "DelegateJob", "NoMoreJobs"} =>
                     AwaitWeight(a, b)[m] = 0
<1> DEFINE w == AwaitWeight(a, b)
<1>1. DOMAIN w = Incoming /\ \A m \in Incoming : w[m] = AwaitedBy(a, b, m)
  BY DEF AwaitWeight
<1>2. w = [m \in Incoming |-> w[m]]
  BY DEF AwaitWeight
<1> HIDE DEF w
<1>3. ASSUME NEW m \in Incoming
      PROVE  /\ m.type = "RequestJobs" => w[m] = IF m.src = a /\ m.dst = b THEN m.count ELSE 0
             /\ m.type \in {"DelegateJob", "NoMoreJobs"} =>
                  w[m] = IF m.src = b /\ m.dst = a THEN 1 ELSE 0
             /\ m.type \notin {"RequestJobs", "DelegateJob", "NoMoreJobs"} => w[m] = 0
             /\ w[m] \in Nat
  <2>1. m.type = "RequestJobs" => m.count \in Nat
    BY Fields
  <2> QED
    BY <1>1, <2>1 DEF AwaitedBy
<1>4. w \in [Incoming -> Nat]
  BY <1>2, <1>3
<1>5. NoDebt(w) /\ Weight(w)
  BY <1>4 DEF NoDebt, Weight
<1> QED
  BY <1>3, <1>5 DEF w

LEMMA AwaitedIsLoad ==
    ASSUME TypeOK, NetFinite, NEW a \in Peers, NEW b \in Peers
    PROVE  Awaited(a, b) = Load(AwaitWeight(a, b), net, posted)
<1> DEFINE w == AwaitWeight(a, b)
           Sums == SumFunction([q \in Peers |-> SeqWeight(w, posted[q])])
<1>1. \A m \in Incoming : w[m] = AwaitedBy(a, b, m)
  BY DEF AwaitWeight
<1>2. /\ Weight(w)
      /\ \A m \in Incoming : w[m] # 0 => (m.src = a /\ m.dst = b) \/ (m.src = b /\ m.dst = a)
  <2>1. Weight(w)
    BY AwaitWeightType
  <2>2. ASSUME NEW m \in Incoming, ~((m.src = a /\ m.dst = b) \/ (m.src = b /\ m.dst = a))
        PROVE  w[m] = 0
    BY <1>1, <2>2 DEF AwaitedBy
  <2> QED
    BY <2>1, <2>2
<1> HIDE DEF w
<1>3. MailOf(net, posted)
  BY MailType
<1>4. ASSUME NEW q \in Peers, NEW i \in DOMAIN posted[q]
      PROVE  posted[q][i] \in Incoming /\ posted[q][i].src = q /\ posted[q][i].dst = q
  <2>1. posted[q] \in Seq(Posts(q))
    BY DEF TypeOK
  <2>2. posted[q][i] \in Posts(q)
    BY <2>1
  <2> QED
    BY <2>2 DEF Posts, Incoming
<1>5. \A m \in DOMAIN net : m \in Incoming /\ m.src # m.dst
  BY DEF TypeOK, Parcels, Incoming
<1>6. Load(w, net, posted) = BagWeight(w, net) + Sums
  BY DEF Load
<1>7. BagWeight(w, net) \in Int /\ \A q \in Peers : SeqWeight(w, posted[q]) \in Int
  BY <1>2, <1>3, LoadType
<1>8. CASE a = b
  <2>1. \A m \in DOMAIN net : w[m] = 0
    BY <1>2, <1>5, <1>8
  <2>2. BagWeight(w, net) = 0
    BY <1>2, <1>3, <2>1, NothingWeighs DEF MailOf
  <2>3. \A q \in Peers : q # a => \A i \in DOMAIN posted[q] : w[posted[q][i]] = 0
    BY <1>2, <1>4, <1>8
  <2>4. Sums = SeqWeight(w, posted[a])
    BY <1>2, <1>3, <2>3, PostsOfOne
  <2> DEFINE f == [i \in DOMAIN posted[a] |-> w[posted[a][i]]]
             g == [i \in DOMAIN posted[a] |-> AwaitedBy(a, a, posted[a][i])]
  <2>5. f = g
    BY <1>1, <1>4, <1>8
  <2>6. SeqWeight(w, posted[a]) = SumFunction(f) /\ Awaited(a, b) = SumFunction(g)
    BY <1>8 DEF SeqWeight, Awaited
  <2> HIDE DEF f, g
  <2> QED
    BY <1>6, <1>7, <2>2, <2>4, <2>5, <2>6 DEF w
<1>9. CASE a # b
  <2>1. \A q \in Peers : \A i \in DOMAIN posted[q] : w[posted[q][i]] = 0
    BY <1>2, <1>4, <1>9
  <2>2. Sums = SeqWeight(w, posted[a])
    BY <1>2, <1>3, <2>1, PostsOfOne
  <2>3. SeqWeight(w, posted[a]) = 0
    <3>1. posted[a] \in Seq(Incoming)
      BY <1>3 DEF MailOf
    <3>2. SeqWeight(w, posted[a]) = 0 * Len(posted[a]) /\ Len(posted[a]) \in Nat
      BY <1>2, <2>1, <3>1, SameWeight
    <3> QED
      BY <3>2
  <2> DEFINE f == [m \in DOMAIN net |-> net[m] * w[m]]
             g == [m \in DOMAIN net |-> net[m] * AwaitedBy(a, b, m)]
  <2>4. f = g
    BY <1>1, <1>5
  <2>5. BagWeight(w, net) = SumFunction(f) /\ Awaited(a, b) = SumFunction(g)
    BY <1>9 DEF BagWeight, Awaited
  <2> HIDE DEF f, g
  <2> QED
    BY <1>6, <1>7, <2>2, <2>3, <2>4, <2>5 DEF w
<1> QED
  BY <1>8, <1>9

\* The requests of ask as messages.
LEMMA RequestsMade ==
    ASSUME NEW p \in Peers, NEW ask \in [Peers -> Nat]
    PROVE  /\ BagOf(Requests(p, ask))
           /\ \A m \in DOMAIN Requests(p, ask) :
                 m.type = "RequestJobs" /\ m.src = p /\ m.dst # p /\ m.count = ask[m.dst]
           /\ \A q \in Peers : q # p /\ ask[q] > 0 =>
                 RequestJobs(p, q, ask[q]) \in DOMAIN Requests(p, ask)
           /\ \A m \in DOMAIN Requests(p, ask) : m = RequestJobs(p, m.dst, ask[m.dst])
           /\ \A w : Weight(w) => BagWeight(w, Requests(p, ask)) =
                                    SumFunctionOnSet(w, DOMAIN Requests(p, ask))
           /\ OwnRequest(p, ask) \in Seq(Posts(p)) /\ OwnRequest(p, ask) \in Seq(Incoming)
<1> DEFINE b == [q \in Peers |-> RequestJobs(p, q, ask[q])]
           T == {r \in Peers \ {p} : ask[r] > 0}
           R == {RequestJobs(p, q, ask[q]) : q \in T}
<1>1. \A q \in Peers : RequestJobs(p, q, ask[q]) \in Message
  BY Made
<1>2. R = {b[q] : q \in T}
  OBVIOUS
<1>3. IsFiniteSet(T)
  BY PeersAssumption, FS_Subset
<1>4. IsFiniteSet(R)
  <2> HIDE DEF b, R, T
  <2> QED
    BY <1>2, <1>3, ImageIsFinite
<1>5. R \subseteq Incoming
  BY <1>1 DEF Incoming
<1>6. Requests(p, ask) = SetToBag(R)
  BY DEF Requests
<1>7. \A m \in R : /\ m.type = "RequestJobs" /\ m.src = p /\ m.dst # p /\ m.count = ask[m.dst]
                   /\ m = RequestJobs(p, m.dst, ask[m.dst])
  BY DEF RequestJobs
<1>8. \A q \in Peers : q # p /\ ask[q] > 0 => RequestJobs(p, q, ask[q]) \in R
  OBVIOUS
<1>9. OwnRequest(p, ask) \in Seq(Posts(p)) /\ OwnRequest(p, ask) \in Seq(Incoming)
  <2>1. RequestJobs(p, p, ask[p]) \in Posts(p) /\ RequestJobs(p, p, ask[p]) \in Incoming
    BY <1>1 DEF Posts, Incoming, RequestJobs
  <2> QED
    BY <2>1 DEF OwnRequest
<1> HIDE DEF R
<1>10. DOMAIN Requests(p, ask) = R
  BY <1>6, SetIsBag
<1>11. BagOf(Requests(p, ask))
  BY <1>4, <1>5, <1>6, <1>10, SetIsBag DEF BagOf
<1>12. \A w : Weight(w) => BagWeight(w, Requests(p, ask)) = SumFunctionOnSet(w, R)
  BY <1>4, <1>5, <1>6, SetWeight
<1> QED
  BY <1>7, <1>8, <1>9, <1>10, <1>11, <1>12

\* Requests that weigh nothing.
LEMMA AskUncounted ==
    ASSUME NEW p \in Peers, NEW ask \in [Peers -> Nat], NEW w, Weight(w),
           \A m \in Incoming : m.type = "RequestJobs" /\ m.src = p => w[m] = 0
    PROVE  BagWeight(w, Requests(p, ask)) = 0 /\ SeqWeight(w, OwnRequest(p, ask)) = 0
<1>1. BagOf(Requests(p, ask)) /\ OwnRequest(p, ask) \in Seq(Incoming)
  BY RequestsMade
<1>2. \A m \in DOMAIN Requests(p, ask) : w[m] = 0
  BY <1>1, RequestsMade DEF BagOf
<1>3. \A i \in DOMAIN OwnRequest(p, ask) : w[OwnRequest(p, ask)[i]] = 0
  <2>1. RequestJobs(p, p, ask[p]) \in Incoming
    BY Made DEF Incoming
  <2>2. w[RequestJobs(p, p, ask[p])] = 0
    BY <2>1 DEF RequestJobs
  <2> QED
    BY <2>2 DEF OwnRequest
<1>4. SeqWeight(w, OwnRequest(p, ask)) = 0 * Len(OwnRequest(p, ask))
  BY <1>1, <1>3, SameWeight
<1>5. Len(OwnRequest(p, ask)) \in Nat
  BY <1>1
<1> QED
  BY <1>1, <1>2, <1>4, <1>5, NothingWeighs

\* A request for ask[b] jobs awaits ask[b] answers.
LEMMA AskAwaited ==
    ASSUME NEW p \in Peers, NEW ask \in [Peers -> Nat], NEW a \in Peers, NEW b \in Peers
    PROVE  BagWeight(AwaitWeight(a, b), Requests(p, ask))
             + SeqWeight(AwaitWeight(a, b), OwnRequest(p, ask)) = IF a = p THEN ask[b] ELSE 0
<1> DEFINE w == AwaitWeight(a, b)
           R == DOMAIN Requests(p, ask)
           own == RequestJobs(p, p, ask[p])
<1>1. Weight(w)
  BY AwaitWeightType
<1>2. \A m \in Incoming : m.type = "RequestJobs" =>
        w[m] = IF m.src = a /\ m.dst = b THEN m.count ELSE 0
  BY AwaitWeightType
<1> HIDE DEF w
<1>3. /\ BagOf(Requests(p, ask)) /\ R \subseteq Incoming /\ IsFiniteSet(R)
      /\ OwnRequest(p, ask) \in Seq(Incoming)
      /\ BagWeight(w, Requests(p, ask)) = SumFunctionOnSet(w, R)
  BY <1>1, RequestsMade DEF BagOf
<1>4. \A m \in R : m.type = "RequestJobs" /\ m.src = p /\ m.dst # p /\ m.count = ask[m.dst]
                   /\ m = RequestJobs(p, m.dst, ask[m.dst])
  BY RequestsMade
<1>5. own \in Incoming /\ own.type = "RequestJobs" /\ own.src = p /\ own.dst = p /\ own.count = ask[p]
  BY Made DEF Incoming, RequestJobs
<1>6. OwnRequest(p, ask) = IF ask[p] > 0 THEN <<own>> ELSE << >>
  BY DEF OwnRequest
<1> HIDE DEF R, own
<1>7. SeqWeight(w, OwnRequest(p, ask)) = IF ask[p] > 0 THEN w[own] ELSE 0
  BY <1>1, <1>5, <1>6, OneWeight, EmptyWeight
<1>8. CASE a # p
  <2>1. \A m \in Incoming : m.type = "RequestJobs" /\ m.src = p => w[m] = 0
    BY <1>2, <1>8
  <2> QED
    BY <1>1, <1>8, <2>1, AskUncounted DEF w
<1>9. CASE a = p /\ b = p
  <2>1. \A m \in R : w[m] = 0
    BY <1>2, <1>3, <1>4, <1>9
  <2>2. SumFunctionOnSet(w, R) = 0
    BY <1>3, <2>1, SumZero
  <2>3. w[own] = ask[p] /\ ask[p] \in Nat
    BY <1>2, <1>5, <1>9
  <2>4. SeqWeight(w, OwnRequest(p, ask)) = ask[p]
    BY <1>7, <2>3
  <2> QED
    BY <1>3, <1>9, <2>2, <2>3, <2>4 DEF w
<1>10. CASE a = p /\ b # p
  <2>1. SeqWeight(w, OwnRequest(p, ask)) = 0
    <3>1. w[own] = 0
      BY <1>2, <1>5, <1>10
    <3> QED
      BY <1>7, <3>1
  <2>2. \A m \in R : m.dst # b => w[m] = 0
    BY <1>2, <1>3, <1>4
  <2>3. SumFunctionOnSet(w, R) = ask[b]
    <3>1. CASE ask[b] > 0
      <4> DEFINE m == RequestJobs(p, b, ask[b])
      <4>1. m \in R
        BY <1>10, <3>1, RequestsMade DEF R
      <4>2. \A x \in R : x # m => x.dst # b
        BY <1>4
      <4>3. w[m] = ask[b]
        <5>1. m.type = "RequestJobs" /\ m.src = p /\ m.dst = b /\ m.count = ask[b]
          BY DEF RequestJobs
        <5> HIDE DEF m
        <5> QED
          BY <1>2, <1>3, <1>10, <4>1, <5>1
      <4> HIDE DEF m
      <4>4. \A x \in R : x # m => w[x] = 0
        BY <2>2, <4>2
      <4> QED
        BY <1>1, <1>3, <4>1, <4>3, <4>4, SingleWeight
    <3>2. CASE ~(ask[b] > 0)
      <4>1. ask[b] = 0
        BY <3>2
      <4>2. \A m \in R : m.dst # b
        <5>1. \A m \in R : ask[m.dst] > 0
          BY DEF R, Requests, RequestJobs, SetToBag
        <5> QED
          BY <3>2, <5>1
      <4> QED
        BY <1>3, <2>2, <4>1, <4>2, SumZero
    <3> QED
      BY <3>1, <3>2
  <2>4. ask[b] \in Nat
    OBVIOUS
  <2> QED
    BY <1>3, <1>10, <2>1, <2>3, <2>4 DEF w
<1> QED
  BY <1>8, <1>9, <1>10

-----------------------------------------------------------------------------
(* What every step puts under way. *)

Counted == {"RequestJobs", "DelegateJob", "NoMoreJobs", "JobCompleted"}

\* w weighs only messages that ask for work, move it, or refuse it.
Tame(w) == Weight(w) /\ \A m \in Incoming : m.type \notin Counted => w[m] = 0

Light(S) == \A m \in S : m.type \notin Counted

\* The load changes by d.
Moves(w, d) == Load(w, net', posted') = Load(w, net, posted) + d

\* What look_for_work sends.
AskLoad(w, p, ask) == BagWeight(w, Requests(p, ask)) + SeqWeight(w, OwnRequest(p, ask))

LEMMA ExchangeMoves ==
    ASSUME TypeOK, NetFinite, NEW p \in Peers, NEW m, Handled(p, m),
           NEW out, BagOf(out), NEW self \in Seq(Posts(p)), Exchange(p, m, out, self)
    PROVE  /\ NetFinite'
           /\ \A w : Weight(w) => /\ Moves(w, BagWeight(w, out) + SeqWeight(w, self) - w[m])
                                  /\ w[m] \in Int
<1>1. ASSUME NEW w, Weight(w)
      PROVE  /\ NetFinite' /\ w[m] \in Int
             /\ Moves(w, BagWeight(w, out) + SeqWeight(w, self) - w[m])
  <2>1. /\ NetFinite'
        /\ Load(w, net', posted') =
             Load(w, net, posted) - w[m] + BagWeight(w, out) + SeqWeight(w, self)
        /\ BagWeight(w, out) \in Int /\ SeqWeight(w, self) \in Int /\ w[m] \in Int
    BY <1>1, ExchangeLoad
  <2>2. Load(w, net, posted) \in Int
    BY <1>1, MailType, LoadType
  <2> QED
    BY <2>1, <2>2 DEF Moves
<1>2. Weight([x \in Incoming |-> 0])
  BY DEF Weight
<1> QED
  BY <1>1, <1>2

LEMMA EmitMoves ==
    ASSUME TypeOK, NetFinite, NEW p \in Peers,
           NEW out, BagOf(out), NEW self \in Seq(Posts(p)), Emit(p, out, self)
    PROVE  /\ NetFinite'
           /\ \A w : Weight(w) => Moves(w, BagWeight(w, out) + SeqWeight(w, self))
<1>1. ASSUME NEW w, Weight(w)
      PROVE  NetFinite' /\ Moves(w, BagWeight(w, out) + SeqWeight(w, self))
  <2>1. /\ NetFinite'
        /\ Load(w, net', posted') =
             Load(w, net, posted) + BagWeight(w, out) + SeqWeight(w, self)
    BY <1>1, EmitLoad
  <2>2. self \in Seq(Incoming)
    BY DEF Posts, Incoming
  <2>3. Load(w, net, posted) \in Int /\ BagWeight(w, out) \in Int /\ SeqWeight(w, self) \in Int
    BY <1>1, <2>2, MailType, LoadType, BagWeightWithin, SeqTerms DEF BagOf
  <2> QED
    BY <2>1, <2>3 DEF Moves
<1>2. Weight([x \in Incoming |-> 0])
  BY DEF Weight
<1> QED
  BY <1>1, <1>2

LEMMA ConsumeMoves ==
    ASSUME TypeOK, NetFinite, NEW p \in Peers, NEW m, Handled(p, m), Consume(m)
    PROVE  NetFinite' /\ \A w : Weight(w) => Moves(w, 0 - w[m]) /\ w[m] \in Int
<1>1. ASSUME NEW w, Weight(w)
      PROVE  NetFinite' /\ Moves(w, 0 - w[m]) /\ w[m] \in Int
  <2>1. NetFinite' /\ Load(w, net', posted') = Load(w, net, posted) - w[m] /\ w[m] \in Int
    BY <1>1, ConsumeLoad
  <2>2. Load(w, net, posted) \in Int
    BY <1>1, MailType, LoadType
  <2> QED
    BY <2>1, <2>2 DEF Moves
<1>2. Weight([x \in Incoming |-> 0])
  BY DEF Weight
<1> QED
  BY <1>1, <1>2

LEMMA LightBag ==
    ASSUME NEW S, IsFiniteSet(S), S \subseteq Incoming, Light(S)
    PROVE  /\ BagOf(SetToBag(S)) /\ DOMAIN SetToBag(S) = S
           /\ \A w : Tame(w) => BagWeight(w, SetToBag(S)) = 0
<1> DEFINE B == SetToBag(S)
<1>1. BagOf(B) /\ DOMAIN B = S
  BY SetIsBag DEF BagOf
<1> HIDE DEF B
<1>2. ASSUME NEW w, Tame(w)
      PROVE  BagWeight(w, B) = 0
  <2>1. \A m \in DOMAIN B : w[m] = 0
    BY <1>1, <1>2 DEF Light, Tame
  <2> QED
    BY <1>1, <1>2, <2>1, NothingWeighs DEF Tame
<1> QED
  BY <1>1, <1>2 DEF B

LEMMA LightPosts ==
    ASSUME NEW s \in Seq(Incoming), Light(Range(s))
    PROVE  \A w : Tame(w) => SeqWeight(w, s) = 0
<1> SUFFICES ASSUME NEW w, Tame(w)
             PROVE  SeqWeight(w, s) = 0
  OBVIOUS
<1>1. \A i \in DOMAIN s : s[i] \in Incoming /\ s[i] \in Range(s)
  BY DEF Range
<1>2. \A i \in DOMAIN s : w[s[i]] = 0
  BY <1>1 DEF Light, Tame
<1>3. SeqWeight(w, s) = 0 * Len(s) /\ Len(s) \in Nat
  BY <1>2, SameWeight DEF Tame
<1> QED
  BY <1>3

LEMMA AskLoadType ==
    ASSUME NEW p \in Peers, NEW ask \in [Peers -> Nat], NEW w, Weight(w)
    PROVE  /\ BagWeight(w, Requests(p, ask)) \in Int /\ SeqWeight(w, OwnRequest(p, ask)) \in Int
           /\ AskLoad(w, p, ask) \in Int
<1>1. BagWeight(w, Requests(p, ask)) \in Int /\ SeqWeight(w, OwnRequest(p, ask)) \in Int
  BY RequestsMade, BagWeightWithin, SeqTerms DEF BagOf
<1> QED
  BY <1>1 DEF AskLoad

\* A handler that looks for work, having sent what weighs nothing.
LEMMA LookingMoves ==
    ASSUME TypeOK, NetFinite, NEW p \in Peers, NEW m, Handled(p, m), NEW ask \in [Peers -> Nat],
           NEW S, IsFiniteSet(S), S \subseteq Incoming, Light(S),
           Exchange(p, m, SetToBag(S) (+) Requests(p, ask), OwnRequest(p, ask))
    PROVE  /\ NetFinite'
           /\ \A w : Tame(w) => Moves(w, AskLoad(w, p, ask) - w[m]) /\ w[m] \in Int
<1> DEFINE out == SetToBag(S) (+) Requests(p, ask)
<1>1. BagOf(SetToBag(S)) /\ \A w : Tame(w) => BagWeight(w, SetToBag(S)) = 0
  BY LightBag
<1>2. BagOf(Requests(p, ask)) /\ OwnRequest(p, ask) \in Seq(Posts(p))
  BY RequestsMade
<1>3. /\ BagOf(out)
      /\ \A w : Weight(w) => BagWeight(w, out) = BagWeight(w, SetToBag(S)) + BagWeight(w, Requests(p, ask))
  <2>1. \A w : Weight(w) => BagOf(out) /\
             BagWeight(w, out) = BagWeight(w, SetToBag(S)) + BagWeight(w, Requests(p, ask))
    BY <1>1, <1>2, UnionWeight
  <2>2. Weight([x \in Incoming |-> 0])
    BY DEF Weight
  <2> HIDE DEF out
  <2> QED
    BY <2>1, <2>2
<1>4. Exchange(p, m, out, OwnRequest(p, ask))
  OBVIOUS
<1> HIDE DEF out
<1>5. /\ NetFinite'
      /\ \A w : Weight(w) => /\ Moves(w, BagWeight(w, out) + SeqWeight(w, OwnRequest(p, ask)) - w[m])
                             /\ w[m] \in Int
  BY <1>2, <1>3, <1>4, ExchangeMoves
<1>6. ASSUME NEW w, Tame(w)
      PROVE  Moves(w, AskLoad(w, p, ask) - w[m]) /\ w[m] \in Int
  <2>1. /\ Moves(w, BagWeight(w, out) + SeqWeight(w, OwnRequest(p, ask)) - w[m]) /\ w[m] \in Int
        /\ BagWeight(w, out) = 0 + BagWeight(w, Requests(p, ask))
    BY <1>1, <1>3, <1>5, <1>6 DEF Tame
  <2>2. BagWeight(w, Requests(p, ask)) \in Int /\ SeqWeight(w, OwnRequest(p, ask)) \in Int
    BY <1>6, AskLoadType DEF Tame
  <2>3. BagWeight(w, out) + SeqWeight(w, OwnRequest(p, ask)) - w[m] = AskLoad(w, p, ask) - w[m]
    BY <2>1, <2>2 DEF AskLoad
  <2> QED
    BY <2>1, <2>3
<1> QED
  BY <1>5, <1>6

LEMMA OnlyLookingMoves ==
    ASSUME TypeOK, NetFinite, NEW p \in Peers, NEW m, Handled(p, m), NEW ask \in [Peers -> Nat],
           Exchange(p, m, Requests(p, ask), OwnRequest(p, ask))
    PROVE  /\ NetFinite'
           /\ \A w : Tame(w) => Moves(w, AskLoad(w, p, ask) - w[m]) /\ w[m] \in Int
<1>1. BagOf(Requests(p, ask)) /\ OwnRequest(p, ask) \in Seq(Posts(p))
  BY RequestsMade
<1>2. /\ NetFinite'
      /\ \A w : Weight(w) =>
            /\ Moves(w, BagWeight(w, Requests(p, ask)) + SeqWeight(w, OwnRequest(p, ask)) - w[m])
            /\ w[m] \in Int
  BY <1>1, ExchangeMoves
<1>3. ASSUME NEW w, Tame(w)
      PROVE  Moves(w, AskLoad(w, p, ask) - w[m]) /\ w[m] \in Int
  <2>1. /\ Moves(w, BagWeight(w, Requests(p, ask)) + SeqWeight(w, OwnRequest(p, ask)) - w[m])
        /\ w[m] \in Int
    BY <1>2, <1>3 DEF Tame
  <2>2. BagWeight(w, Requests(p, ask)) \in Int /\ SeqWeight(w, OwnRequest(p, ask)) \in Int
    BY <1>3, AskLoadType DEF Tame
  <2>3. BagWeight(w, Requests(p, ask)) + SeqWeight(w, OwnRequest(p, ask)) - w[m] =
          AskLoad(w, p, ask) - w[m]
    BY <2>1, <2>2 DEF AskLoad
  <2> QED
    BY <2>1, <2>3
<1> QED
  BY <1>2, <1>3

\* A report goes out, and the requests.
LEMMA ReportMoves ==
    ASSUME TypeOK, NetFinite, NEW p \in Peers, NEW m, Handled(p, m), NEW job \in RunningJob,
           NEW type \in {"JobCompleted", "JobUpdate"}, NEW ask \in [Peers -> Nat],
           Report(p, m, type, job, ask)
    PROVE  LET note == JobNote(p, job.owner, type, job.id)
           IN  /\ NetFinite' /\ note \in Incoming
               /\ \A w : Tame(w) => /\ Moves(w, w[note] + AskLoad(w, p, ask) - w[m])
                                    /\ w[m] \in Int /\ w[note] \in Int
<1> DEFINE note == JobNote(p, job.owner, type, job.id)
<1>1. note \in Incoming /\ note \in Message /\ note.src = p /\ note.dst = job.owner
  BY Made DEF RunningJob, JobNote, Incoming
<1> HIDE DEF note
<1>2. /\ BagOf(Requests(p, ask)) /\ OwnRequest(p, ask) \in Seq(Posts(p))
      /\ OwnRequest(p, ask) \in Seq(Incoming)
  BY RequestsMade
<1>3. \A w : Weight(w) => /\ w[note] \in Int /\ BagWeight(w, Requests(p, ask)) \in Int
                          /\ SeqWeight(w, OwnRequest(p, ask)) \in Int
  BY <1>1, <1>2, BagWeightWithin, SeqTerms DEF Weight, BagOf
<1>4. CASE job.owner = p
  <2> DEFINE first == <<note>>
             self == first \o OwnRequest(p, ask)
  <2>1. first \in Seq(Posts(p)) /\ first \in Seq(Incoming)
    BY <1>1, <1>4 DEF Posts
  <2>2. \A w : Weight(w) => SeqWeight(w, first) = w[note]
    BY <1>1, OneWeight
  <2>3. Exchange(p, m, Requests(p, ask), self)
    BY <1>4 DEF Report, note
  <2> HIDE DEF first
  <2>4. /\ self \in Seq(Posts(p))
        /\ \A w : Weight(w) => SeqWeight(w, self) = w[note] + SeqWeight(w, OwnRequest(p, ask))
    BY <1>2, <2>1, <2>2, ConcatWeight
  <2> HIDE DEF self
  <2>5. /\ NetFinite'
        /\ \A w : Weight(w) => /\ Moves(w, BagWeight(w, Requests(p, ask)) + SeqWeight(w, self) - w[m])
                               /\ w[m] \in Int
    BY <1>2, <2>3, <2>4, ExchangeMoves
  <2>6. ASSUME NEW w, Tame(w)
        PROVE  Moves(w, w[note] + AskLoad(w, p, ask) - w[m]) /\ w[m] \in Int /\ w[note] \in Int
    <3>1. BagWeight(w, Requests(p, ask)) + SeqWeight(w, self) - w[m] =
            w[note] + AskLoad(w, p, ask) - w[m]
      BY <1>3, <2>4, <2>5, <2>6 DEF AskLoad, Tame
    <3> QED
      BY <1>3, <2>5, <2>6, <3>1 DEF Tame
  <2> QED
    BY <1>1, <2>5, <2>6 DEF note
<1>5. CASE job.owner # p
  <2> DEFINE letter == SetToBag({note})
             out == letter (+) Requests(p, ask)
  <2>1. BagOf(letter) /\ \A w : Weight(w) => BagWeight(w, letter) = w[note]
    <3>1. IsFiniteSet({note}) /\ {note} \subseteq Incoming
      BY <1>1, FS_Singleton
    <3>2. ASSUME NEW w, Weight(w)
          PROVE  BagOf(letter) /\ BagWeight(w, letter) = w[note]
      <4>1. BagOf(letter) /\ BagWeight(w, letter) = SumFunctionOnSet(w, {note})
        BY <3>1, <3>2, SetWeight
      <4> QED
        BY <1>3, <3>2, <4>1, SumOne
    <3>3. Weight([x \in Incoming |-> 0])
      BY DEF Weight
    <3> QED
      BY <3>2, <3>3
  <2>2. Exchange(p, m, out, OwnRequest(p, ask))
    BY <1>5 DEF Report, note
  <2> HIDE DEF letter
  <2>3. /\ BagOf(out)
        /\ \A w : Weight(w) => BagWeight(w, out) = w[note] + BagWeight(w, Requests(p, ask))
    <3>1. \A w : Weight(w) => BagOf(out) /\
              BagWeight(w, out) = w[note] + BagWeight(w, Requests(p, ask))
      BY <1>2, <2>1, UnionWeight
    <3>2. Weight([x \in Incoming |-> 0])
      BY DEF Weight
    <3> HIDE DEF out
    <3> QED
      BY <3>1, <3>2
  <2> HIDE DEF out
  <2>4. /\ NetFinite'
        /\ \A w : Weight(w) => /\ Moves(w, BagWeight(w, out) + SeqWeight(w, OwnRequest(p, ask)) - w[m])
                               /\ w[m] \in Int
    BY <1>2, <2>2, <2>3, ExchangeMoves
  <2>5. ASSUME NEW w, Tame(w)
        PROVE  Moves(w, w[note] + AskLoad(w, p, ask) - w[m]) /\ w[m] \in Int /\ w[note] \in Int
    <3>1. BagWeight(w, out) + SeqWeight(w, OwnRequest(p, ask)) - w[m] =
            w[note] + AskLoad(w, p, ask) - w[m]
      BY <1>3, <2>3, <2>4, <2>5 DEF AskLoad, Tame
    <3> QED
      BY <1>3, <2>4, <2>5, <3>1 DEF Tame
  <2> QED
    BY <1>1, <2>4, <2>5 DEF note
<1> QED
  BY <1>4, <1>5

\* p asks for ask on top of op, as far as its threads allow.
AsksWithin(p, op, ex, ask) ==
    /\ ask \in [Peers -> Nat]
    /\ Cardinality(OpenSlots(ask)) <= FreeWorkCapacity(p, op, ex)
    /\ open' = [open EXCEPT ![p] = [q \in Peers |-> op[q] + ask[q]]]

LEMMA AskedWithin ==
    ASSUME NEW p \in Peers, NEW av, NEW op, NEW ex, NEW ask \in Asked(p, av, op, ex),
           LookForWork(p, av, op, ask)
    PROVE  AsksWithin(p, op, ex, ask)
BY AskType DEF AsksWithin, Asked, LookForWork

LEMMA DieMoves ==
    ASSUME TypeOK, NetFinite, NEW p \in Peers, NEW m, Handled(p, m), NEW cause, Die(m, cause)
    PROVE  NetFinite' /\ UNCHANGED peerVars /\ \A w : Weight(w) => Moves(w, 0 - w[m]) /\ w[m] \in Int
BY ConsumeMoves DEF Die

LEMMA OnPingMoves ==
    ASSUME TypeOK, NetFinite, NEW p \in Peers, NEW m, Handled(p, m), m.type = "Ping", OnPing(p, m)
    PROVE  /\ NetFinite'
           /\ UNCHANGED <<queue, executing>>
           /\ \A w : Tame(w) => w[m] = 0
           /\ \/ UNCHANGED <<jobs, open>> /\ \A w : Tame(w) => Moves(w, 0 - w[m])
              \/ /\ jobs' = [jobs EXCEPT ![p] = [j \in DOMAIN jobs[p] |->
                              IF j \in m.ids THEN Pinged(jobs[p][j]) ELSE jobs[p][j]]]
                 /\ \E ask : /\ AsksWithin(p, open[p], executing[p], ask)
                             /\ \A w : Tame(w) => Moves(w, AskLoad(w, p, ask) - w[m])
<1> DEFINE av == [avail[p] EXCEPT ![m.src] = m.count]
           delegated == \A j \in m.ids : j \in DOMAIN jobs[p] /\ jobs[p][j].exec = m.src
<1>1. m \in Incoming /\ m.dst = p
  BY DEF Handled
<1>2. \A w : Tame(w) => w[m] = 0 /\ Weight(w)
  BY <1>1 DEF Tame, Counted
<1>3. CASE ~delegated
  <2>1. Die(m, "assert_ping")
    BY <1>3 DEF OnPing
  <2> QED
    BY <1>2, <2>1, DieMoves DEF Tame, peerVars
<1>4. CASE delegated
  <2>1. PICK ask \in Asked(p, av, open[p], executing[p]) :
          /\ LookForWork(p, av, open[p], ask)
          /\ Exchange(p, m, SetToBag({Ping(p, q, Acquaintance(p, m)) : q \in Newcomers(p, m)})
                              (+) Requests(p, ask), OwnRequest(p, ask))
    BY <1>4 DEF OnPing
  <2>2. /\ jobs' = [jobs EXCEPT ![p] = [j \in DOMAIN jobs[p] |->
                      IF j \in m.ids THEN Pinged(jobs[p][j]) ELSE jobs[p][j]]]
        /\ UNCHANGED <<queue, executing>>
    BY <1>4 DEF OnPing
  <2> DEFINE b == [q \in Peers |-> Ping(p, q, Acquaintance(p, m))]
             S == {Ping(p, q, Acquaintance(p, m)) : q \in Newcomers(p, m)}
  <2>3. m.src \in Peers /\ m.peers \subseteq Peers
    BY <1>1, Fields
  <2>4. Acquaintance(p, m) \in SUBSET Peers
    BY <2>3 DEF Acquaintance, TypeOK
  <2>5. Newcomers(p, m) \subseteq Peers
    BY <2>4 DEF Newcomers
  <2>6. \A q \in Peers : Ping(p, q, Acquaintance(p, m)) \in Incoming
    BY <2>4, PingMade DEF Incoming
  <2>7. S \subseteq Incoming
    BY <2>5, <2>6
  <2>8. Light(S)
    BY DEF Light, Ping, Counted
  <2>9. IsFiniteSet(S)
    <3>1. IsFiniteSet(Newcomers(p, m))
      BY <2>5, FS_Subset, PeersAssumption
    <3>2. S = {b[q] : q \in Newcomers(p, m)}
      BY <2>5
    <3> HIDE DEF b, S
    <3> QED
      BY <3>1, <3>2, ImageIsFinite
  <2>10. ask \in [Peers -> Nat] /\ AsksWithin(p, open[p], executing[p], ask)
    BY <2>1, AskType, AskedWithin
  <2> HIDE DEF av
  <2>11. Exchange(p, m, SetToBag(S) (+) Requests(p, ask), OwnRequest(p, ask))
    BY <2>1
  <2> HIDE DEF S
  <2>12. /\ NetFinite'
         /\ \A w : Tame(w) => Moves(w, AskLoad(w, p, ask) - w[m])
    BY <2>7, <2>8, <2>9, <2>10, <2>11, LookingMoves
  <2> QED
    BY <1>2, <2>2, <2>10, <2>12
<1> QED
  BY <1>3, <1>4

LEMMA OnAvailableWorkMoves ==
    ASSUME TypeOK, NetFinite, NEW p \in Peers, NEW m, Handled(p, m), m.type = "AvailableWork",
           OnAvailableWork(p, m)
    PROVE  /\ NetFinite'
           /\ UNCHANGED <<jobs, queue, executing>>
           /\ \A w : Tame(w) => w[m] = 0
           /\ \E ask : /\ AsksWithin(p, open[p], executing[p], ask)
                       /\ \A w : Tame(w) => Moves(w, AskLoad(w, p, ask) - w[m])
<1> DEFINE av == [avail[p] EXCEPT ![m.src] = m.count]
<1>1. PICK ask \in Asked(p, av, open[p], executing[p]) :
        /\ LookForWork(p, av, open[p], ask)
        /\ Exchange(p, m, Requests(p, ask), OwnRequest(p, ask))
  BY DEF OnAvailableWork
<1>2. ask \in [Peers -> Nat] /\ AsksWithin(p, open[p], executing[p], ask)
  BY <1>1, AskType, AskedWithin
<1>3. NetFinite' /\ \A w : Tame(w) => Moves(w, AskLoad(w, p, ask) - w[m])
  BY <1>1, <1>2, OnlyLookingMoves
<1>4. \A w : Tame(w) => w[m] = 0
  BY DEF Tame, Counted, Handled
<1> QED
  BY <1>2, <1>3, <1>4 DEF OnAvailableWork

LEMMA OnNotifiedNoJobsMoves ==
    ASSUME TypeOK, NetFinite, NEW p \in Peers, NEW m, Handled(p, m), m.type = "NoMoreJobs",
           OnNotifiedNoJobs(p, m)
    PROVE  /\ NetFinite'
           /\ UNCHANGED <<jobs, queue, executing>>
           /\ \E ask : /\ AsksWithin(p, Close(open[p], m.src), executing[p], ask)
                       /\ \A w : Tame(w) => Moves(w, AskLoad(w, p, ask) - w[m])
<1> DEFINE op == Close(open[p], m.src)
<1>1. PICK ask \in Asked(p, avail[p], op, executing[p]) :
        /\ LookForWork(p, avail[p], op, ask)
        /\ Exchange(p, m, Requests(p, ask), OwnRequest(p, ask))
  BY DEF OnNotifiedNoJobs
<1>2. ask \in [Peers -> Nat] /\ AsksWithin(p, op, executing[p], ask)
  BY <1>1, AskType, AskedWithin
<1>3. NetFinite' /\ \A w : Tame(w) => Moves(w, AskLoad(w, p, ask) - w[m])
  BY <1>1, <1>2, OnlyLookingMoves
<1> QED
  BY <1>2, <1>3 DEF OnNotifiedNoJobs

LEMMA OnJobProcessingCompletedMoves ==
    ASSUME TypeOK, NetFinite, NEW p \in Peers, NEW m, Handled(p, m), m.type = "Finished",
           OnJobProcessingCompleted(p, m)
    PROVE  /\ NetFinite'
           /\ UNCHANGED <<jobs, queue>>
           /\ \A w : Tame(w) => w[m] = 0
           /\ \/ UNCHANGED <<executing, open>> /\ \A w : Tame(w) => Moves(w, 0 - w[m])
              \/ LET rest == [i \in DOMAIN executing[p] \ {m.id} |-> executing[p][i]]
                     job == executing[p][m.id]
                     note == JobNote(p, job.owner, "JobCompleted", job.id)
                 IN  /\ m.id \in DOMAIN executing[p]
                     /\ executing' = [executing EXCEPT ![p] = rest]
                     /\ \E ask : /\ AsksWithin(p, open[p], rest, ask)
                                 /\ \A w : Tame(w) => /\ Moves(w, w[note] + AskLoad(w, p, ask) - w[m])
                                                      /\ w[note] \in Int
<1> DEFINE rest == [i \in DOMAIN executing[p] \ {m.id} |-> executing[p][i]]
           job == executing[p][m.id]
<1>1. \A w : Tame(w) => w[m] = 0
  BY DEF Tame, Counted, Handled
<1>2. CASE Die(m, "assert_local")
  BY <1>1, <1>2, DieMoves DEF Tame, peerVars
<1>3. CASE ~Die(m, "assert_local")
  <2>1. /\ m.id \in DOMAIN executing[p]
        /\ executing' = [executing EXCEPT ![p] = rest]
        /\ UNCHANGED <<jobs, queue>>
    BY <1>3 DEF OnJobProcessingCompleted
  <2>2. PICK ask \in Asked(p, avail[p], open[p], rest) :
          /\ LookForWork(p, avail[p], open[p], ask)
          /\ Report(p, m, "JobCompleted", job, ask)
    BY <1>3 DEF OnJobProcessingCompleted
  <2>3. job \in RunningJob
    BY <2>1 DEF TypeOK, FiniteMap
  <2>4. ask \in [Peers -> Nat] /\ AsksWithin(p, open[p], rest, ask)
    BY <2>2, AskType, AskedWithin
  <2> HIDE DEF rest, job
  <2> DEFINE note == JobNote(p, job.owner, "JobCompleted", job.id)
  <2>5. /\ NetFinite'
        /\ \A w : Tame(w) => /\ Moves(w, w[note] + AskLoad(w, p, ask) - w[m])
                             /\ w[note] \in Int
    BY <2>2, <2>3, <2>4, ReportMoves
  <2> QED
    BY <1>1, <2>1, <2>4, <2>5 DEF rest, job
<1> QED
  BY <1>2, <1>3

\* A request is answered with reply.
LEMMA OnJobRequestMoves ==
    ASSUME TypeOK, NetFinite, NEW p \in Peers, NEW m, Handled(p, m), m.type = "RequestJobs",
           OnJobRequest(p, m)
    PROVE  LET n == IF m.count < Len(queue[p]) THEN m.count ELSE Len(queue[p])
               handed == SubSeq(queue[p], 1, n)
               offers == [i \in 1..n |->
                            DelegateJob(p, m.src, handed[i], Description(p, handed[i]))]
           IN  /\ NetFinite'
               /\ n \in 0..Len(queue[p]) /\ n <= m.count
               /\ handed \in Seq(JobIds) /\ Len(handed) = n
               /\ offers \in Seq(Incoming) /\ Len(offers) = n /\ Refusal(p, m, n) \in Seq(Incoming)
               /\ queue' = [queue EXCEPT ![p] = Remaining(p, n)]
               /\ jobs' = [jobs EXCEPT ![p] = [j \in DOMAIN jobs[p] \cup Range(handed) |->
                             IF j \in Range(handed) THEN Delegated(p, m, j) ELSE jobs[p][j]]]
               /\ UNCHANGED <<executing, open>>
               /\ \A w : Weight(w) =>
                    Moves(w, SeqWeight(w, offers) + SeqWeight(w, Refusal(p, m, n)) - w[m])
<1> DEFINE n == IF m.count < Len(queue[p]) THEN m.count ELSE Len(queue[p])
           handed == SubSeq(queue[p], 1, n)
           offers == [i \in 1..n |-> DelegateJob(p, m.src, handed[i], Description(p, handed[i]))]
           no == Refusal(p, m, n)
           reply == offers \o no
           Replies == {x \in Message : x.src = p /\ x.dst = m.src}
<1>1. m.src \in Peers /\ m.dst = p /\ m.count \in Nat
  BY Fields DEF Handled
<1>2. queue[p] \in Seq(JobIds) /\ Len(queue[p]) \in Nat
  BY DEF TypeOK
<1>3. n \in 0..Len(queue[p]) /\ n <= m.count
  BY <1>1, <1>2
<1>4. handed \in Seq(JobIds) /\ Len(handed) = n
  BY <1>3, HandedType
<1>5. /\ queue' = [queue EXCEPT ![p] = Remaining(p, n)]
      /\ jobs' = [jobs EXCEPT ![p] = [j \in DOMAIN jobs[p] \cup Range(handed) |->
                    IF j \in Range(handed) THEN Delegated(p, m, j) ELSE jobs[p][j]]]
      /\ UNCHANGED <<executing, open>>
      /\ IF Local(m) THEN Exchange(p, m, EmptyBag, reply) ELSE Exchange(p, m, ToBag(reply), << >>)
  BY DEF OnJobRequest
<1> HIDE DEF n, handed
<1>6. offers \in Seq(Replies) /\ Len(offers) = n
  <2>1. \A j \in JobIds, d \in {"given", "blank"} : DelegateJob(p, m.src, j, d) \in Replies
    <3>1. \A j \in JobIds, d \in {"given", "blank"} : DelegateJob(p, m.src, j, d) \in Message
      BY <1>1, Made
    <3> QED
      BY <3>1 DEF DelegateJob
  <2>2. \A i \in 1..n : handed[i] \in JobIds
    BY <1>2, <1>3, <1>4
  <2>3. \A j : Description(p, j) \in {"given", "blank"}
    BY DEF Description
  <2> HIDE DEF Replies
  <2>4. \A i \in 1..n : DelegateJob(p, m.src, handed[i], Description(p, handed[i])) \in Replies
    BY <2>1, <2>2, <2>3
  <2>5. n \in Nat
    BY <1>2, <1>3
  <2> QED
    BY <2>4, <2>5
<1>7. no \in Seq(Replies)
  <2>1. NoMoreJobs(p, m.src) \in Replies
    <3>1. NoMoreJobs(p, m.src) \in Message
      BY <1>1, Made
    <3> QED
      BY <3>1 DEF NoMoreJobs
  <2> HIDE DEF Replies
  <2> QED
    BY <2>1 DEF Refusal
<1> HIDE DEF offers, no
<1>8. Replies \subseteq Incoming /\ (Local(m) => Replies \subseteq Posts(p))
  BY <1>1 DEF Incoming, Posts, Local
<1> HIDE DEF Replies
<1>9. /\ offers \in Seq(Incoming) /\ no \in Seq(Incoming)
      /\ reply \in Seq(Incoming) /\ (Local(m) => reply \in Seq(Posts(p)))
  <2>1. offers \in Seq(Incoming) /\ no \in Seq(Incoming)
    BY <1>6, <1>7, <1>8
  <2>2. reply \in Seq(Replies)
    BY <1>6, <1>7
  <2> HIDE DEF reply
  <2> QED
    BY <1>8, <2>1, <2>2
<1>10. \A w : Weight(w) => /\ SeqWeight(w, reply) = SeqWeight(w, offers) + SeqWeight(w, no)
                           /\ SeqWeight(w, reply) \in Int
  BY <1>9, ConcatWeight, SeqTerms
<1> HIDE DEF reply
<1>11. /\ NetFinite'
       /\ \A w : Weight(w) => Moves(w, SeqWeight(w, reply) - w[m])
  <2>0. \A w : Weight(w) => w[m] \in Int
    BY DEF Weight, Handled
  <2>1. CASE Local(m)
    <3>1. BagOf(EmptyBag) /\ Exchange(p, m, EmptyBag, reply) /\ reply \in Seq(Posts(p))
      BY <1>5, <1>9, <2>1, EmptyIsBag, FS_EmptySet DEF BagOf
    <3>2. /\ NetFinite'
          /\ \A w : Weight(w) => Moves(w, BagWeight(w, EmptyBag) + SeqWeight(w, reply) - w[m])
      BY <3>1, ExchangeMoves
    <3>3. \A w : Weight(w) =>
            BagWeight(w, EmptyBag) + SeqWeight(w, reply) - w[m] = SeqWeight(w, reply) - w[m]
      BY <1>10, <2>0, EmptyWeight
    <3> QED
      BY <3>2, <3>3
  <2>2. CASE ~Local(m)
    <3>1. /\ BagOf(ToBag(reply)) /\ Exchange(p, m, ToBag(reply), << >>) /\ << >> \in Seq(Posts(p))
          /\ \A w : Weight(w) => BagWeight(w, ToBag(reply)) = SeqWeight(w, reply)
      <4>1. \A w : Weight(w) =>
              BagOf(ToBag(reply)) /\ BagWeight(w, ToBag(reply)) = SeqWeight(w, reply)
        BY <1>9, ToBagWeight
      <4>2. Weight([x \in Incoming |-> 0])
        BY DEF Weight
      <4> QED
        BY <1>5, <2>2, <4>1, <4>2
    <3>2. /\ NetFinite'
          /\ \A w : Weight(w) => Moves(w, BagWeight(w, ToBag(reply)) + SeqWeight(w, << >>) - w[m])
      BY <3>1, ExchangeMoves
    <3>3. \A w : Weight(w) =>
            BagWeight(w, ToBag(reply)) + SeqWeight(w, << >>) - w[m] = SeqWeight(w, reply) - w[m]
      BY <1>10, <2>0, <3>1, EmptyWeight
    <3> QED
      BY <3>2, <3>3
  <2> QED
    BY <2>1, <2>2
<1>12. \A w : Weight(w) => Moves(w, SeqWeight(w, offers) + SeqWeight(w, no) - w[m])
  <2> SUFFICES ASSUME NEW w, Weight(w)
               PROVE  Moves(w, SeqWeight(w, offers) + SeqWeight(w, no) - w[m])
    OBVIOUS
  <2>1. SeqWeight(w, reply) - w[m] = SeqWeight(w, offers) + SeqWeight(w, no) - w[m]
    <3>1. SeqWeight(w, offers) \in Int /\ SeqWeight(w, no) \in Int /\ w[m] \in Int
      BY <1>9, SeqTerms DEF Weight, Handled
    <3> QED
      BY <1>10, <3>1
  <2>2. Moves(w, SeqWeight(w, reply) - w[m])
    BY <1>11
  <2> QED
    BY <2>1, <2>2
<1> QED
  BY <1>3, <1>4, <1>5, <1>6, <1>9, <1>11, <1>12 DEF n, handed, offers, no

LEMMA OnClientJobRequestMoves ==
    ASSUME TypeOK, NetFinite, NEW p \in Peers, NEW m, Handled(p, m), m.type = "Post",
           OnClientJobRequest(p, m)
    PROVE  /\ NetFinite'
           /\ UNCHANGED <<executing, open>>
           /\ \A w : Tame(w) => w[m] = 0 /\ Moves(w, 0)
<1> DEFINE n == Len(queue[p]) + 1
           b == [q \in Peers |-> AvailableWork(p, q, n)]
           S == {AvailableWork(p, q, n) : q \in known[p]}
           self == <<AvailableWork(p, p, n)>>
<1>1. \A w : Tame(w) => w[m] = 0
  BY DEF Tame, Counted, Handled
<1>2. Exchange(p, m, SetToBag(S), self) /\ UNCHANGED <<executing, open>>
  BY DEF OnClientJobRequest, Advertise
<1>3. n \in Nat /\ known[p] \in SUBSET Peers
  BY DEF TypeOK
<1> HIDE DEF n
<1>4. \A q \in Peers : AvailableWork(p, q, n) \in Incoming /\ AvailableWork(p, p, n) \in Posts(p)
  BY <1>3, Made DEF Incoming, Posts, AvailableWork
<1>5. S \subseteq Incoming /\ Light(S)
  BY <1>3, <1>4 DEF Light, AvailableWork, Counted
<1>6. IsFiniteSet(S)
  <2>1. IsFiniteSet(known[p])
    BY <1>3, FS_Subset, PeersAssumption
  <2>2. S = {b[q] : q \in known[p]}
    BY <1>3
  <2> HIDE DEF b, S
  <2> QED
    BY <2>1, <2>2, ImageIsFinite
<1>7. self \in Seq(Posts(p)) /\ self \in Seq(Incoming) /\ Light(Range(self))
  BY <1>4 DEF Light, Range, AvailableWork, Counted
<1> HIDE DEF S, self
<1>8. BagOf(SetToBag(S))
  BY <1>5, <1>6, LightBag
<1>9. /\ NetFinite'
      /\ \A w : Weight(w) => Moves(w, BagWeight(w, SetToBag(S)) + SeqWeight(w, self) - w[m])
  BY <1>2, <1>7, <1>8, ExchangeMoves
<1>10. ASSUME NEW w, Tame(w)
       PROVE  Moves(w, 0)
  <2>1. BagWeight(w, SetToBag(S)) = 0 /\ SeqWeight(w, self) = 0 /\ w[m] = 0
    BY <1>1, <1>5, <1>6, <1>7, <1>10, LightBag, LightPosts
  <2>2. BagWeight(w, SetToBag(S)) + SeqWeight(w, self) - w[m] = 0
    BY <2>1
  <2>3. Moves(w, BagWeight(w, SetToBag(S)) + SeqWeight(w, self) - w[m])
    BY <1>9, <1>10 DEF Tame
  <2> QED
    BY <2>2, <2>3
<1> QED
  BY <1>1, <1>2, <1>9, <1>10

LEMMA OnJobUpdateMoves ==
    ASSUME TypeOK, NetFinite, NEW p \in Peers, NEW m, Handled(p, m), m.type = "Updated",
           OnJobUpdate(p, m)
    PROVE  /\ NetFinite'
           /\ UNCHANGED peerVars
           /\ \A w : Tame(w) => w[m] = 0 /\ Moves(w, 0)
<1>1. \A w : Tame(w) => w[m] = 0 /\ Weight(w)
  BY DEF Tame, Counted, Handled
<1>2. CASE Die(m, "assert_local")
  <2>1. /\ NetFinite' /\ UNCHANGED peerVars
        /\ \A w : Weight(w) => Moves(w, 0 - w[m])
    BY <1>2, DieMoves
  <2> QED
    BY <1>1, <2>1
<1>3. CASE ~Die(m, "assert_local")
  <2>1. /\ m.id \in DOMAIN executing[p]
        /\ Report(p, m, "JobUpdate", executing[p][m.id], NoAsk)
        /\ UNCHANGED peerVars
    BY <1>3 DEF OnJobUpdate
  <2> DEFINE job == executing[p][m.id]
             note == JobNote(p, job.owner, "JobUpdate", job.id)
  <2>2. job \in RunningJob /\ NoAsk \in [Peers -> Nat]
    BY <2>1 DEF TypeOK, FiniteMap, NoAsk
  <2> HIDE DEF job
  <2>3. Report(p, m, "JobUpdate", job, NoAsk)
    BY <2>1 DEF job
  <2>4. /\ NetFinite' /\ note \in Incoming
        /\ \A w : Tame(w) => Moves(w, w[note] + AskLoad(w, p, NoAsk) - w[m])
    BY <2>2, <2>3, ReportMoves
  <2>5. note.type = "JobUpdate"
    BY DEF JobNote
  <2> HIDE DEF note
  <2>6. ASSUME NEW w, Tame(w)
        PROVE  Moves(w, 0)
    <3>1. w[note] = 0
      BY <2>4, <2>5, <2>6 DEF Tame, Counted
    <3>2. Requests(p, NoAsk) = SetToBag({}) /\ OwnRequest(p, NoAsk) = << >>
      <4>1. {RequestJobs(p, q, NoAsk[q]) : q \in {r \in Peers \ {p} : NoAsk[r] > 0}} = {}
        BY DEF NoAsk
      <4>2. ~(NoAsk[p] > 0)
        BY DEF NoAsk
      <4> QED
        BY <4>1, <4>2 DEF Requests, OwnRequest
    <3>3. BagWeight(w, SetToBag({})) = 0
      <4>1. Light({}) /\ IsFiniteSet({}) /\ {} \subseteq Incoming
        BY FS_EmptySet DEF Light
      <4> QED
        BY <2>6, <4>1, LightBag
    <3>4. AskLoad(w, p, NoAsk) = 0
      BY <3>2, <3>3, EmptyWeight DEF AskLoad
    <3>5. w[note] + AskLoad(w, p, NoAsk) - w[m] = 0
      BY <1>1, <2>6, <3>1, <3>4
    <3> QED
      BY <2>4, <2>6, <3>5
  <2> QED
    BY <1>1, <2>1, <2>4, <2>6
<1> QED
  BY <1>2, <1>3

\* Sending what weighs nothing.
LEMMA LightEmit ==
    ASSUME TypeOK, NetFinite, NEW p \in Peers, NEW S, IsFiniteSet(S), S \subseteq Incoming,
           Light(S), NEW self \in Seq(Posts(p)), Light(Range(self)), Emit(p, SetToBag(S), self)
    PROVE  NetFinite' /\ \A w : Tame(w) => Moves(w, 0)
<1>1. self \in Seq(Incoming) /\ BagOf(SetToBag(S))
  BY LightBag DEF Posts, Incoming
<1>2. /\ NetFinite'
      /\ \A w : Weight(w) => Moves(w, BagWeight(w, SetToBag(S)) + SeqWeight(w, self))
  BY <1>1, EmitMoves
<1>3. ASSUME NEW w, Tame(w)
      PROVE  Moves(w, 0)
  <2>1. BagWeight(w, SetToBag(S)) = 0 /\ SeqWeight(w, self) = 0
    BY <1>1, <1>3, LightBag, LightPosts
  <2>2. BagWeight(w, SetToBag(S)) + SeqWeight(w, self) = 0
    BY <2>1
  <2>3. Moves(w, BagWeight(w, SetToBag(S)) + SeqWeight(w, self))
    BY <1>2, <1>3 DEF Tame
  <2> QED
    BY <2>2, <2>3
<1> QED
  BY <1>2, <1>3

LEMMA WorkerMoves ==
    ASSUME TypeOK, NetFinite, NEW p \in Peers, NEW i \in DOMAIN executing[p],
           WorkerUpdate(p, i) \/ WorkerFinish(p, i)
    PROVE  NetFinite' /\ UNCHANGED <<jobs, queue, open>> /\ \A w : Tame(w) => Moves(w, 0)
<1>1. ASSUME NEW t \in {"Updated", "Finished"}, Emit(p, EmptyBag, <<JobNote(p, p, t, i)>>)
      PROVE  NetFinite' /\ \A w : Tame(w) => Moves(w, 0)
  <2> DEFINE self == <<JobNote(p, p, t, i)>>
  <2>1. JobNote(p, p, t, i) \in Posts(p)
    <3>1. i \in JobIds
      BY DEF TypeOK, FiniteMap
    <3> QED
      BY <3>1, Made DEF Posts, JobNote
  <2>2. self \in Seq(Posts(p)) /\ Light(Range(self))
    BY <2>1 DEF Light, Range, Counted, JobNote
  <2>3. Emit(p, SetToBag({}), self)
    BY <1>1 DEF EmptyBag
  <2>4. IsFiniteSet({}) /\ {} \subseteq Incoming /\ Light({})
    BY FS_EmptySet DEF Light
  <2> HIDE DEF self
  <2> QED
    BY <2>2, <2>3, <2>4, LightEmit
<1> QED
  BY <1>1 DEF WorkerUpdate, WorkerFinish, peerVars

LEMMA OnStatusCheckMoves ==
    ASSUME TypeOK, NetFinite, NEW p \in Peers, OnStatusCheck(p)
    PROVE  /\ NetFinite' /\ UNCHANGED <<jobs, executing, open>>
           /\ \A w : Tame(w) => Moves(w, 0)
           /\ \E again \in Requeued(p) : queue' = [queue EXCEPT ![p] = queue[p] \o again]
<1>1. PICK again \in Requeued(p) :
        /\ queue' = [queue EXCEPT ![p] = queue[p] \o again]
        /\ Emit(p, SetToBag(StatusPings(p) \cup Retractions(p) \cup Offers(p, again)),
                OwnOffers(p, again))
  BY DEF OnStatusCheck
<1>2. /\ StaleJobs(p) \subseteq DOMAIN jobs[p] /\ StaleJobs(p) \subseteq JobIds
      /\ IsFiniteSet(StaleJobs(p)) /\ Cardinality(StaleJobs(p)) \in Nat
  <2>1. StaleJobs(p) \subseteq DOMAIN jobs[p] /\ IsFiniteSet(DOMAIN jobs[p])
    BY DEF StaleJobs, TypeOK, FiniteMap
  <2>2. IsFiniteSet(StaleJobs(p))
    BY <2>1, FS_Subset
  <2> QED
    BY <2>1, <2>2, FS_CardinalityType DEF TypeOK, FiniteMap
<1>3. DOMAIN again = 1..Cardinality(StaleJobs(p)) /\ IsFiniteSet(DOMAIN again)
  BY <1>2, FS_Interval DEF Requeued
<1>4. known[p] \in SUBSET Peers /\ IsFiniteSet(known[p]) /\ Len(queue[p]) \in Nat
  BY FS_Subset, PeersAssumption DEF TypeOK
<1>5. \A a \in DOMAIN again : Len(queue[p]) + a \in Nat
  BY <1>2, <1>3, <1>4
<1>6. StatusPings(p) \subseteq Incoming /\ Light(StatusPings(p)) /\ IsFiniteSet(StatusPings(p))
  <2> DEFINE b == [q \in Peers |-> Ping(p, q, known[p])]
  <2>1. \A q \in Peers : Ping(p, q, known[p]) \in Incoming
    BY <1>4, PingMade DEF Incoming
  <2>2. StatusPings(p) \subseteq Incoming
    BY <1>4, <2>1 DEF StatusPings
  <2>3. Light(StatusPings(p))
    BY DEF Light, StatusPings, Ping, Counted
  <2>4. StatusPings(p) = {b[q] : q \in known[p]}
    BY <1>4 DEF StatusPings
  <2> HIDE DEF b
  <2> QED
    BY <1>4, <2>2, <2>3, <2>4, ImageIsFinite
<1>7. Retractions(p) \subseteq Incoming /\ Light(Retractions(p)) /\ IsFiniteSet(Retractions(p))
  <2> DEFINE b == [j \in DOMAIN jobs[p] |-> JobNote(p, jobs[p][j].exec, "CancelJob", j)]
  <2>1. \A j \in StaleJobs(p) : jobs[p][j].exec \in Peers /\ j \in JobIds
    BY <1>2 DEF StaleJobs, TypeOK, FiniteMap, OwnedJob
  <2>2. \A q \in Peers, j \in JobIds : JobNote(p, q, "CancelJob", j) \in Incoming
    BY Made DEF Incoming
  <2>3. Retractions(p) \subseteq Incoming
    BY <2>1, <2>2 DEF Retractions
  <2>4. Light(Retractions(p))
    BY DEF Light, Retractions, JobNote, Counted
  <2>5. Retractions(p) = {b[j] : j \in StaleJobs(p)}
    BY <1>2 DEF Retractions
  <2> HIDE DEF b
  <2> QED
    BY <1>2, <2>3, <2>4, <2>5, ImageIsFinite
<1>8. Offers(p, again) \subseteq Incoming /\ Light(Offers(p, again)) /\ IsFiniteSet(Offers(p, again))
  <2> DEFINE D == known[p] \X DOMAIN again
             b == [x \in D |-> AvailableWork(p, x[1], Len(queue[p]) + x[2])]
  <2>1. \A q \in known[p], a \in DOMAIN again : AvailableWork(p, q, Len(queue[p]) + a) \in Incoming
    BY <1>4, <1>5, Made DEF Incoming
  <2>2. Offers(p, again) \subseteq Incoming
    BY <2>1 DEF Offers
  <2>3. Light(Offers(p, again))
    BY DEF Light, Offers, AvailableWork, Counted
  <2>4. IsFiniteSet(D)
    BY <1>3, <1>4, FS_Product
  <2>5. Offers(p, again) = {b[x] : x \in D}
    <3>1. ASSUME NEW x \in D
          PROVE  b[x] \in Offers(p, again)
      BY DEF Offers
    <3>2. ASSUME NEW y \in Offers(p, again)
          PROVE  y \in {b[x] : x \in D}
      <4>1. PICK q \in known[p], a \in DOMAIN again : y = AvailableWork(p, q, Len(queue[p]) + a)
        BY DEF Offers
      <4>2. <<q, a>> \in D /\ b[<<q, a>>] = y
        BY <4>1
      <4> HIDE DEF D, b
      <4> QED
        BY <4>2
    <3> QED
      BY <3>1, <3>2
  <2> HIDE DEF D, b
  <2> QED
    BY <2>2, <2>3, <2>4, <2>5, ImageIsFinite
<1>9. OwnOffers(p, again) \in Seq(Posts(p)) /\ Light(Range(OwnOffers(p, again)))
  <2>1. \A k \in Nat : AvailableWork(p, p, k) \in Posts(p) /\ AvailableWork(p, p, k).type \notin Counted
    BY Made DEF Posts, AvailableWork, Counted
  <2>2. \A a \in DOMAIN again : OwnOffers(p, again)[a] = AvailableWork(p, p, Len(queue[p]) + a)
    BY DEF OwnOffers
  <2>3. OwnOffers(p, again) \in Seq(Posts(p)) /\ DOMAIN OwnOffers(p, again) = DOMAIN again
    BY <1>2, <1>3, <1>5, <2>1 DEF OwnOffers
  <2> QED
    BY <1>5, <2>1, <2>2, <2>3 DEF Range, Light
<1> DEFINE all == StatusPings(p) \cup Retractions(p) \cup Offers(p, again)
<1>10. IsFiniteSet(all) /\ all \subseteq Incoming /\ Light(all)
  BY <1>6, <1>7, <1>8, FS_Union DEF Light
<1>11. Emit(p, SetToBag(all), OwnOffers(p, again))
  BY <1>1
<1> HIDE DEF all
<1>12. NetFinite' /\ \A w : Tame(w) => Moves(w, 0)
  BY <1>9, <1>10, <1>11, LightEmit
<1> QED
  BY <1>1, <1>12 DEF OnStatusCheck

LEMMA StartMoves ==
    ASSUME TypeOK, NetFinite, NEW p \in Peers, Start(p)
    PROVE  NetFinite' /\ UNCHANGED peerVars /\ \A w : Tame(w) => Moves(w, 0)
<1> DEFINE b == [q \in Peers |-> Ping(p, q, {})]
           S == {Ping(p, q, {}) : q \in Contacts[p]}
<1>1. Contacts[p] \in SUBSET Peers /\ IsFiniteSet(Contacts[p])
  BY PeersAssumption, FS_Subset
<1>2. \A q \in Peers : Ping(p, q, {}) \in Incoming
  BY PingMade DEF Incoming
<1>3. S \subseteq Incoming /\ Light(S)
  BY <1>1, <1>2 DEF Light, Ping, Counted
<1>4. IsFiniteSet(S)
  <2>1. S = {b[q] : q \in Contacts[p]}
    BY <1>1
  <2> HIDE DEF b, S
  <2> QED
    BY <1>1, <2>1, ImageIsFinite
<1>5. << >> \in Seq(Posts(p)) /\ Light(Range(<< >>))
  BY DEF Light, Range
<1>6. Emit(p, SetToBag(S), << >>) /\ UNCHANGED peerVars
  BY DEF Start
<1> HIDE DEF S
<1> QED
  BY <1>3, <1>4, <1>5, <1>6, LightEmit

LEMMA PostJobMoves ==
    ASSUME TypeOK, NetFinite, NEW c \in Clients, PostJob(c)
    PROVE  NetFinite' /\ UNCHANGED peerVars /\ \A w : Tame(w) => Moves(w, 0)
<1> DEFINE m == [src |-> c, dst |-> home[c], type |-> "Post"]
           letter == SetToBag({m})
<1>1. home[c] \in Peers
  BY DEF PostJob, TypeOK
<1>2. m \in Incoming /\ m.type = "Post"
  BY <1>1 DEF Incoming, ClientPost
<1>3. net' = net (+) letter /\ posted' = posted /\ UNCHANGED peerVars
  BY DEF PostJob
<1> HIDE DEF m
<1>4. BagOf(letter) /\ \A w : Tame(w) => BagWeight(w, letter) = 0
  <2>1. IsFiniteSet({m}) /\ {m} \subseteq Incoming /\ Light({m})
    BY <1>2, FS_Singleton DEF Light, Counted
  <2> QED
    BY <2>1, LightBag
<1> HIDE DEF letter
<1>5. MailOf(net, posted)
  BY MailType
<1>6. Weight([x \in Incoming |-> 0])
  BY DEF Weight
<1>7. BagOf(net')
  BY <1>3, <1>4, <1>5, <1>6, UnionWeight DEF MailOf
<1>8. MailOf(net', posted') /\ NetFinite'
  BY <1>3, <1>5, <1>7 DEF MailOf, NetFinite, BagOf
<1>9. ASSUME NEW w, Tame(w)
      PROVE  Moves(w, 0)
  <2>1. BagWeight(w, net') = BagWeight(w, net) + BagWeight(w, letter) /\ BagWeight(w, letter) = 0
    BY <1>3, <1>4, <1>5, <1>9, UnionWeight DEF MailOf, Tame
  <2>2. BagWeight(w, net) \in Int /\ Load(w, net, posted) \in Int
    BY <1>5, <1>9, LoadType DEF Tame
  <2>3. Load(w, net', posted') = BagWeight(w, net') + SumFunction([q \in Peers |-> SeqWeight(w, posted[q])])
    BY <1>3 DEF Load
  <2>4. BagWeight(w, net') = BagWeight(w, net)
    BY <2>1, <2>2
  <2>5. Load(w, net', posted') = Load(w, net, posted)
    BY <2>3, <2>4 DEF Load
  <2> QED
    BY <2>2, <2>5 DEF Moves
<1> QED
  BY <1>3, <1>8, <1>9

-----------------------------------------------------------------------------
(* Every answer on its way is to an open request. *)

\* AnswersCovered, in terms of the load: it is inductive by itself.
AwaitInv ==
    /\ NetFinite
    /\ \A a, b \in Peers : Load(AwaitWeight(a, b), net, posted) <= open[a][b]

LEMMA AwaitIsTame ==
    ASSUME NEW a \in Peers, NEW b \in Peers
    PROVE  Tame(AwaitWeight(a, b)) /\ Weight(AwaitWeight(a, b)) /\ NoDebt(AwaitWeight(a, b))
<1>1. \A m \in Incoming : m.type \notin Counted => AwaitWeight(a, b)[m] = 0
  BY AwaitWeightType DEF Counted
<1> QED
  BY <1>1, AwaitWeightType DEF Tame

\* What is awaited of b grows by no more than what is open.
LEMMA AwaitKept ==
    ASSUME TypeOK, TypeOK', AwaitInv, NetFinite',
           \A a, b \in Peers : \E d \in Int : /\ Moves(AwaitWeight(a, b), d)
                                              /\ d <= open'[a][b] - open[a][b]
    PROVE  AwaitInv'
<1>1. ASSUME NEW a \in Peers, NEW b \in Peers
      PROVE  Load(AwaitWeight(a, b), net', posted') <= open'[a][b]
  <2>1. PICK d \in Int : Moves(AwaitWeight(a, b), d) /\ d <= open'[a][b] - open[a][b]
    OBVIOUS
  <2>2. open[a][b] \in Int /\ open'[a][b] \in Int
    BY DEF TypeOK
  <2>3. Load(AwaitWeight(a, b), net, posted) \in Int
    BY AwaitIsTame, MailType, LoadType DEF AwaitInv
  <2>4. Load(AwaitWeight(a, b), net, posted) <= open[a][b]
    BY DEF AwaitInv
  <2> QED
    BY <2>1, <2>2, <2>3, <2>4 DEF Moves
<1> QED
  BY <1>1 DEF AwaitInv

LEMMA StillAwait ==
    ASSUME TypeOK, TypeOK', AwaitInv, NetFinite', UNCHANGED open, \A w : Tame(w) => Moves(w, 0)
    PROVE  AwaitInv'
<1>1. ASSUME NEW a \in Peers, NEW b \in Peers
      PROVE  \E d \in Int : Moves(AwaitWeight(a, b), d) /\ d <= open'[a][b] - open[a][b]
  <2>1. Moves(AwaitWeight(a, b), 0)
    BY AwaitIsTame
  <2>2. open[a][b] \in Int /\ open'[a][b] = open[a][b]
    BY DEF TypeOK
  <2>3. 0 <= open'[a][b] - open[a][b]
    BY <2>2
  <2> QED
    BY <2>1, <2>3
<1> QED
  BY <1>1, AwaitKept

LEMMA ConsumedAwait ==
    ASSUME TypeOK, TypeOK', AwaitInv, NEW p \in Peers, NEW m, Handled(p, m), UNCHANGED open,
           NetFinite', \A w : Tame(w) => Moves(w, 0 - w[m])
    PROVE  AwaitInv'
<1>1. ASSUME NEW a \in Peers, NEW b \in Peers
      PROVE  \E d \in Int : Moves(AwaitWeight(a, b), d) /\ d <= open'[a][b] - open[a][b]
  <2>1. Moves(AwaitWeight(a, b), 0 - AwaitWeight(a, b)[m])
    BY AwaitIsTame
  <2>2. AwaitWeight(a, b)[m] \in Nat
    BY AwaitIsTame DEF NoDebt, Handled
  <2>3. open[a][b] \in Int /\ open'[a][b] = open[a][b]
    BY DEF TypeOK
  <2>4. 0 - AwaitWeight(a, b)[m] \in Int /\ 0 - AwaitWeight(a, b)[m] <= open'[a][b] - open[a][b]
    BY <2>2, <2>3
  <2> QED
    BY <2>1, <2>4
<1> QED
  BY <1>1, AwaitKept

\* p asks for more on top of op, which is what was open less what is now answered.
LEMMA LookingAwait ==
    ASSUME TypeOK, TypeOK', AwaitInv, NetFinite', NEW p \in Peers, NEW op \in [Peers -> Int],
           NEW ex, NEW ask, AsksWithin(p, op, ex, ask),
           \A a, b \in Peers : \E e \in Int :
              /\ Moves(AwaitWeight(a, b), AskLoad(AwaitWeight(a, b), p, ask) - e)
              /\ IF a = p THEN e >= open[p][b] - op[b] ELSE e >= 0
    PROVE  AwaitInv'
<1>1. ASSUME NEW a \in Peers, NEW b \in Peers
      PROVE  \E d \in Int : Moves(AwaitWeight(a, b), d) /\ d <= open'[a][b] - open[a][b]
  <2>1. PICK e \in Int :
          /\ Moves(AwaitWeight(a, b), AskLoad(AwaitWeight(a, b), p, ask) - e)
          /\ IF a = p THEN e >= open[p][b] - op[b] ELSE e >= 0
    OBVIOUS
  <2>2. ask \in [Peers -> Nat] /\ open' = [open EXCEPT ![p] = [q \in Peers |-> op[q] + ask[q]]]
    BY DEF AsksWithin
  <2>3. AskLoad(AwaitWeight(a, b), p, ask) = IF a = p THEN ask[b] ELSE 0
    BY <2>2, AskAwaited DEF AskLoad
  <2>4. open'[a][b] = IF a = p THEN op[b] + ask[b] ELSE open[a][b]
    BY <2>2 DEF TypeOK
  <2>5. open[a][b] \in Int /\ open[p][b] \in Int /\ op[b] \in Int /\ ask[b] \in Nat
    BY <2>2 DEF TypeOK
  <2> DEFINE d == AskLoad(AwaitWeight(a, b), p, ask) - e
  <2>6. d \in Int /\ d <= open'[a][b] - open[a][b]
    BY <2>1, <2>3, <2>4, <2>5
  <2> QED
    BY <2>1, <2>6
<1> QED
  BY <1>1, AwaitKept

\* The same, where nothing is answered.
LEMMA OnlyLookingAwait ==
    ASSUME TypeOK, TypeOK', AwaitInv, NetFinite', NEW p \in Peers, NEW ex,
           NEW ask, AsksWithin(p, open[p], ex, ask),
           \A a, b \in Peers : Moves(AwaitWeight(a, b), AskLoad(AwaitWeight(a, b), p, ask) - 0)
    PROVE  AwaitInv'
<1>1. open[p] \in [Peers -> Int]
  BY DEF TypeOK
<1>2. \A b \in Peers : 0 >= open[p][b] - open[p][b]
  BY <1>1
<1> DEFINE op == open[p]
<1>3. ASSUME NEW a \in Peers, NEW b \in Peers
      PROVE  \E e \in Int :
               /\ Moves(AwaitWeight(a, b), AskLoad(AwaitWeight(a, b), p, ask) - e)
               /\ IF a = p THEN e >= open[p][b] - op[b] ELSE e >= 0
  BY <1>2
<1>4. op \in [Peers -> Int] /\ AsksWithin(p, op, ex, ask)
  BY <1>1
<1> HIDE DEF op
<1> QED
  BY <1>3, <1>4, LookingAwait

LEMMA OnPingAwait ==
    ASSUME TypeOK, TypeOK', AwaitInv, NEW p \in Peers, NEW m, Handled(p, m), m.type = "Ping",
           OnPing(p, m)
    PROVE  AwaitInv'
<1>1. /\ NetFinite'
      /\ \A w : Tame(w) => w[m] = 0
      /\ \/ UNCHANGED open /\ \A w : Tame(w) => Moves(w, 0 - w[m])
         \/ \E ask : /\ AsksWithin(p, open[p], executing[p], ask)
                     /\ \A w : Tame(w) => Moves(w, AskLoad(w, p, ask) - w[m])
  BY OnPingMoves DEF AwaitInv
<1>2. CASE UNCHANGED open /\ \A w : Tame(w) => Moves(w, 0 - w[m])
  BY <1>1, <1>2, ConsumedAwait
<1>3. ASSUME NEW ask, AsksWithin(p, open[p], executing[p], ask),
             \A w : Tame(w) => Moves(w, AskLoad(w, p, ask) - w[m])
      PROVE  AwaitInv'
  <2>1. \A a, b \in Peers : Moves(AwaitWeight(a, b), AskLoad(AwaitWeight(a, b), p, ask) - 0)
    BY <1>1, <1>3, AwaitIsTame
  <2> QED
    BY <1>1, <1>3, <2>1, OnlyLookingAwait
<1> QED
  BY <1>1, <1>2, <1>3

LEMMA OnAvailableWorkAwait ==
    ASSUME TypeOK, TypeOK', AwaitInv, NEW p \in Peers, NEW m, Handled(p, m),
           m.type = "AvailableWork", OnAvailableWork(p, m)
    PROVE  AwaitInv'
<1>1. /\ NetFinite'
      /\ \A w : Tame(w) => w[m] = 0
  BY OnAvailableWorkMoves DEF AwaitInv
<1>2. PICK ask : /\ AsksWithin(p, open[p], executing[p], ask)
                 /\ \A w : Tame(w) => Moves(w, AskLoad(w, p, ask) - w[m])
  BY OnAvailableWorkMoves DEF AwaitInv
<1>3. \A a, b \in Peers : Moves(AwaitWeight(a, b), AskLoad(AwaitWeight(a, b), p, ask) - 0)
  BY <1>1, <1>2, AwaitIsTame
<1> QED
  BY <1>1, <1>2, <1>3, OnlyLookingAwait

\* An answer closes one request.
LEMMA Closed ==
    ASSUME TypeOK, NEW p \in Peers, NEW q \in Peers
    PROVE  /\ Close(open[p], q) \in [Peers -> Int]
           /\ \A b \in Peers : Close(open[p], q)[b] = IF b = q THEN open[p][b] - 1 ELSE open[p][b]
<1> DEFINE op == open[p]
<1>1. op \in [Peers -> Int]
  BY DEF TypeOK
<1> HIDE DEF op
<1>2. \A b \in Peers : Close(op, q)[b] = IF b = q THEN op[b] - 1 ELSE op[b]
  BY <1>1 DEF Close
<1>3. \A b \in Peers : op[b] \in Int /\ op[b] - 1 \in Int
  BY <1>1
<1>4. Close(op, q) \in [Peers -> Int]
  BY <1>1, <1>3 DEF Close
<1> QED
  BY <1>2, <1>4 DEF op

LEMMA OnNotifiedNoJobsAwait ==
    ASSUME TypeOK, TypeOK', AwaitInv, NEW p \in Peers, NEW m, Handled(p, m),
           m.type = "NoMoreJobs", OnNotifiedNoJobs(p, m)
    PROVE  AwaitInv'
<1> DEFINE op == Close(open[p], m.src)
<1>1. m \in Incoming /\ m.dst = p /\ m.src \in Peers
  BY Fields DEF Handled
<1>2. NetFinite'
  BY OnNotifiedNoJobsMoves DEF AwaitInv
<1>3. PICK ask : /\ AsksWithin(p, op, executing[p], ask)
                 /\ \A w : Tame(w) => Moves(w, AskLoad(w, p, ask) - w[m])
  BY OnNotifiedNoJobsMoves DEF AwaitInv
<1>4. op \in [Peers -> Int] /\ \A b \in Peers : op[b] = IF b = m.src THEN open[p][b] - 1 ELSE open[p][b]
  BY <1>1, Closed
<1> HIDE DEF op
<1>5. ASSUME NEW a \in Peers, NEW b \in Peers
      PROVE  \E e \in Int :
               /\ Moves(AwaitWeight(a, b), AskLoad(AwaitWeight(a, b), p, ask) - e)
               /\ IF a = p THEN e >= open[p][b] - op[b] ELSE e >= 0
  <2> DEFINE e == AwaitWeight(a, b)[m]
  <2>1. e = IF m.src = b /\ m.dst = a THEN 1 ELSE 0
    BY <1>1, AwaitWeightType
  <2>2. Moves(AwaitWeight(a, b), AskLoad(AwaitWeight(a, b), p, ask) - e)
    BY <1>3, AwaitIsTame
  <2>3. open[p][b] \in Int
    BY DEF TypeOK
  <2> HIDE DEF e
  <2>4. e \in Int /\ IF a = p THEN e >= open[p][b] - op[b] ELSE e >= 0
    BY <1>1, <1>4, <2>1, <2>3
  <2> QED
    BY <2>2, <2>4
<1> QED
  BY <1>2, <1>3, <1>4, <1>5, LookingAwait

LEMMA OnJobProcessingCompletedAwait ==
    ASSUME TypeOK, TypeOK', AwaitInv, NEW p \in Peers, NEW m, Handled(p, m),
           m.type = "Finished", OnJobProcessingCompleted(p, m)
    PROVE  AwaitInv'
<1> DEFINE rest == [i \in DOMAIN executing[p] \ {m.id} |-> executing[p][i]]
           job == executing[p][m.id]
           note == JobNote(p, job.owner, "JobCompleted", job.id)
<1>1. /\ NetFinite'
      /\ \A w : Tame(w) => w[m] = 0
      /\ \/ UNCHANGED open /\ \A w : Tame(w) => Moves(w, 0 - w[m])
         \/ /\ m.id \in DOMAIN executing[p]
            /\ \E ask : /\ AsksWithin(p, open[p], rest, ask)
                        /\ \A w : Tame(w) => Moves(w, w[note] + AskLoad(w, p, ask) - w[m])
  BY OnJobProcessingCompletedMoves DEF AwaitInv
<1>2. CASE UNCHANGED open /\ \A w : Tame(w) => Moves(w, 0 - w[m])
  BY <1>1, <1>2, ConsumedAwait
<1> HIDE DEF rest
<1>3. ASSUME m.id \in DOMAIN executing[p], NEW ask, AsksWithin(p, open[p], rest, ask),
             \A w : Tame(w) => Moves(w, w[note] + AskLoad(w, p, ask) - w[m])
      PROVE  AwaitInv'
  <2>1. note \in Incoming /\ note.type = "JobCompleted"
    <3>1. job.owner \in Peers /\ job.id \in JobIds
      BY <1>3 DEF TypeOK, FiniteMap, RunningJob
    <3> QED
      BY <3>1, Made DEF Incoming, JobNote
  <2> HIDE DEF note
  <2>2. ASSUME NEW a \in Peers, NEW b \in Peers
        PROVE  Moves(AwaitWeight(a, b), AskLoad(AwaitWeight(a, b), p, ask) - 0)
    <3> DEFINE w == AwaitWeight(a, b)
    <3>1. w[note] = 0 /\ w[m] = 0
      BY <1>1, <2>1, AwaitWeightType, AwaitIsTame
    <3>2. Tame(w) /\ Weight(w)
      BY AwaitIsTame
    <3> HIDE DEF w
    <3>3. AskLoad(w, p, ask) \in Int
      BY <1>3, <3>2, AskLoadType DEF AsksWithin
    <3>4. w[note] + AskLoad(w, p, ask) - w[m] = AskLoad(w, p, ask) - 0
      BY <3>1, <3>3
    <3>5. Moves(w, w[note] + AskLoad(w, p, ask) - w[m])
      BY <1>3, <3>2
    <3> QED
      BY <3>4, <3>5 DEF w
  <2> QED
    BY <1>1, <1>3, <2>2, OnlyLookingAwait
<1> QED
  BY <1>1, <1>2, <1>3

LEMMA OnJobRequestAwait ==
    ASSUME TypeOK, TypeOK', AwaitInv, NEW p \in Peers, NEW m, Handled(p, m),
           m.type = "RequestJobs", OnJobRequest(p, m)
    PROVE  AwaitInv'
<1> DEFINE n == IF m.count < Len(queue[p]) THEN m.count ELSE Len(queue[p])
           handed == SubSeq(queue[p], 1, n)
           offers == [i \in 1..n |-> DelegateJob(p, m.src, handed[i], Description(p, handed[i]))]
           no == Refusal(p, m, n)
<1>1. /\ m \in Incoming /\ m.dst = p /\ m.src \in Peers /\ m.count \in Nat
      /\ Len(queue[p]) \in Nat
  BY Fields DEF Handled, TypeOK
<1>2. /\ NetFinite' /\ UNCHANGED open
      /\ n \in 0..Len(queue[p]) /\ n <= m.count
      /\ offers \in Seq(Incoming) /\ Len(offers) = n /\ no \in Seq(Incoming)
      /\ \A w : Weight(w) => Moves(w, SeqWeight(w, offers) + SeqWeight(w, no) - w[m])
  BY OnJobRequestMoves DEF AwaitInv
<1>3. n \in Nat
  BY <1>1
<1>4. \A i \in DOMAIN offers : offers[i].type = "DelegateJob" /\ offers[i].src = p /\ offers[i].dst = m.src
  BY DEF DelegateJob
<1>5. no = IF m.count > n THEN <<NoMoreJobs(p, m.src)>> ELSE << >>
  BY DEF Refusal
<1> HIDE DEF n, offers, no
<1>6. NoMoreJobs(p, m.src) \in Incoming
  BY <1>1, Made DEF Incoming
<1>7. ASSUME NEW a \in Peers, NEW b \in Peers
      PROVE  \E d \in Int : Moves(AwaitWeight(a, b), d) /\ d <= open'[a][b] - open[a][b]
  <2> DEFINE w == AwaitWeight(a, b)
             k == IF m.src = a /\ p = b THEN 1 ELSE 0
             d == SeqWeight(w, offers) + SeqWeight(w, no) - w[m]
  <2>1. Weight(w)
    BY AwaitIsTame
  <2>2. w[m] = IF k = 1 THEN m.count ELSE 0
    BY <1>1, AwaitWeightType
  <2>3. \A i \in DOMAIN offers : offers[i] \in Incoming /\ w[offers[i]] = k
    <3>1. \A i \in DOMAIN offers : offers[i] \in Incoming
      BY <1>2
    <3> QED
      BY <1>4, <3>1, AwaitWeightType
  <2>4. w[NoMoreJobs(p, m.src)] = k
    <3>1. /\ NoMoreJobs(p, m.src).type = "NoMoreJobs"
          /\ NoMoreJobs(p, m.src).src = p /\ NoMoreJobs(p, m.src).dst = m.src
      BY DEF NoMoreJobs
    <3> QED
      BY <1>6, <3>1, AwaitWeightType
  <2>5. k \in {0, 1}
    OBVIOUS
  <2> HIDE DEF w, k
  <2>6. SeqWeight(w, offers) = k * n
    BY <1>2, <2>1, <2>3, <2>5, SameWeight
  <2>7. SeqWeight(w, no) = IF m.count > n THEN k ELSE 0
    BY <1>5, <1>6, <2>1, <2>4, OneWeight, EmptyWeight
  <2>8. d \in Int /\ d <= 0
    <3>1. CASE k = 0
      BY <1>3, <2>2, <2>6, <2>7, <3>1
    <3>2. CASE k = 1
      BY <1>1, <1>2, <1>3, <2>2, <2>6, <2>7, <3>2
    <3> QED
      BY <2>5, <3>1, <3>2
  <2>9. open[a][b] \in Int /\ open'[a][b] = open[a][b]
    BY <1>2 DEF TypeOK
  <2>10. Moves(w, d)
    BY <1>2, <2>1
  <2> HIDE DEF d
  <2>11. d <= open'[a][b] - open[a][b]
    BY <2>8, <2>9
  <2> QED
    BY <2>8, <2>10, <2>11 DEF w
<1> QED
  BY <1>2, <1>7, AwaitKept

LEMMA OnReceiveJobAwait ==
    ASSUME TypeOK, TypeOK', AwaitInv, NEW p \in Peers, NEW m, Handled(p, m),
           m.type = "DelegateJob", OnReceiveJob(p, m)
    PROVE  AwaitInv'
<1> DEFINE op == Close(open[p], m.src)
<1>1. m \in Incoming /\ m.dst = p /\ m.src \in Peers
  BY Fields DEF Handled
<1>2. Consume(m) /\ open' = [open EXCEPT ![p] = op]
  BY DEF OnReceiveJob
<1>3. NetFinite' /\ \A w : Weight(w) => Moves(w, 0 - w[m]) /\ w[m] \in Int
  BY <1>2, ConsumeMoves DEF AwaitInv
<1>4. op \in [Peers -> Int] /\ \A b \in Peers : op[b] = IF b = m.src THEN open[p][b] - 1 ELSE open[p][b]
  BY <1>1, Closed
<1> HIDE DEF op
<1>5. ASSUME NEW a \in Peers, NEW b \in Peers
      PROVE  \E d \in Int : Moves(AwaitWeight(a, b), d) /\ d <= open'[a][b] - open[a][b]
  <2> DEFINE w == AwaitWeight(a, b)
             d == 0 - w[m]
  <2>1. w[m] = IF m.src = b /\ m.dst = a THEN 1 ELSE 0
    BY <1>1, AwaitWeightType
  <2>2. Moves(w, d)
    BY <1>3, AwaitIsTame
  <2>3. open'[a] = IF a = p THEN op ELSE open[a]
    BY <1>2 DEF TypeOK
  <2>4. open[a][b] \in Int
    BY DEF TypeOK
  <2>5. open'[a][b] = IF a = p /\ b = m.src THEN open[a][b] - 1 ELSE open[a][b]
    BY <1>4, <2>3
  <2> HIDE DEF w
  <2>6. d \in Int /\ d <= open'[a][b] - open[a][b]
    BY <1>1, <2>1, <2>4, <2>5
  <2> QED
    BY <2>2, <2>6 DEF w
<1> QED
  BY <1>3, <1>5, AwaitKept

\* A handler that only takes its message, whatever it does to m_jobs or its client.
LEMMA TakenAwait ==
    ASSUME TypeOK, TypeOK', AwaitInv, NEW p \in Peers, NEW m, Handled(p, m), UNCHANGED open,
           Consume(m)
    PROVE  AwaitInv'
<1>1. NetFinite' /\ \A w : Weight(w) => Moves(w, 0 - w[m])
  BY ConsumeMoves DEF AwaitInv
<1> QED
  BY <1>1, ConsumedAwait DEF Tame

LEMMA PeerMessageAwait ==
    ASSUME TypeOK, TypeOK', AwaitInv, NEW p \in Peers, NEW m, Handled(p, m),
           OnReceivePeerMessage(p, m)
    PROVE  AwaitInv'
<1>1. CASE OnDelegatedJobUpdate(p, m) \/ OnDelegatedJobCompleted(p, m) \/ OnJobRetracted(p, m)
  <2>1. Consume(m) /\ UNCHANGED open
    BY <1>1 DEF OnDelegatedJobUpdate, OnDelegatedJobCompleted, OnJobRetracted, Die, peerVars
  <2> QED
    BY <2>1, TakenAwait
<1> QED
  BY <1>1, OnAvailableWorkAwait, OnJobRequestAwait, OnReceiveJobAwait, OnNotifiedNoJobsAwait
     DEF OnReceivePeerMessage

LEMMA DropAwait ==
    ASSUME TypeOK, TypeOK', AwaitInv, NEW m \in DOMAIN net, Lose(m) \/ Discard(m)
    PROVE  AwaitInv'
<1>1. m.dst \in Peers /\ Handled(m.dst, m)
  BY DEF TypeOK, Parcels, Handled, Incoming, Local, Message, ClientPost
<1>2. Consume(m) /\ UNCHANGED open
  BY DEF Lose, Discard, peerVars
<1> QED
  BY <1>1, <1>2, TakenAwait

LEMMA ServeAwait ==
    ASSUME TypeOK, TypeOK', AwaitInv, NEW p \in Peers, Serve(p)
    PROVE  AwaitInv'
<1>1. CASE RunPosted(p)
  <2> DEFINE m == Head(posted[p])
  <2>1. m \in Posts(p) /\ posted[p] # << >>
    BY <1>1 DEF RunPosted, TypeOK
  <2>2. Handled(p, m)
    BY <2>1 DEF Posts, Handled, Incoming, Local
  <2>3. \/ OnReceivePeerMessage(p, m)
        \/ m.type = "Updated" /\ OnJobUpdate(p, m)
        \/ m.type = "Finished" /\ OnJobProcessingCompleted(p, m)
    BY <1>1 DEF RunPosted
  <2> HIDE DEF m
  <2>4. ASSUME m.type = "Updated", OnJobUpdate(p, m)
        PROVE  AwaitInv'
    <3>1. NetFinite' /\ UNCHANGED open /\ \A w : Tame(w) => Moves(w, 0)
      BY <2>2, <2>4, OnJobUpdateMoves DEF AwaitInv, peerVars
    <3> QED
      BY <3>1, StillAwait
  <2> QED
    BY <2>2, <2>3, <2>4, PeerMessageAwait, OnJobProcessingCompletedAwait
<1>2. ASSUME NEW m \in DOMAIN net, m.dst = p, Deliver(m)
      PROVE  AwaitInv'
  <2>1. Handled(p, m)
    BY <1>2 DEF TypeOK, Parcels, Handled, Incoming, Local
  <2>2. \/ m.type = "Ping" /\ OnPing(p, m)
        \/ m.type = "Post" /\ OnClientJobRequest(p, m)
        \/ OnReceivePeerMessage(p, m)
    BY <1>2 DEF Deliver
  <2>3. ASSUME m.type = "Post", OnClientJobRequest(p, m)
        PROVE  AwaitInv'
    <3>1. NetFinite' /\ UNCHANGED open /\ \A w : Tame(w) => Moves(w, 0)
      BY <2>1, <2>3, OnClientJobRequestMoves DEF AwaitInv
    <3> QED
      BY <3>1, StillAwait
  <2> QED
    BY <2>1, <2>2, <2>3, PeerMessageAwait, OnPingAwait
<1>3. ASSUME NEW m \in DOMAIN net, Discard(m)
      PROVE  AwaitInv'
  BY <1>3, DropAwait
<1> QED
  BY <1>1, <1>2, <1>3 DEF Serve

\* Nothing is sent, received or asked for.
LEMMA UnmovedAwait ==
    ASSUME AwaitInv, UNCHANGED <<open, net, posted>>
    PROVE  AwaitInv'
BY DEF AwaitInv, NetFinite

LEMMA NextAwait == TypeOK /\ TypeOK' /\ AwaitInv /\ [Next]_vars => AwaitInv'
<1> SUFFICES ASSUME TypeOK, TypeOK', AwaitInv, [Next]_vars
             PROVE  AwaitInv'
  OBVIOUS
<1>1. CASE UNCHANGED vars
  BY <1>1, UnmovedAwait DEF vars
<1>2. ASSUME NEW m \in DOMAIN net, Lose(m)
      PROVE  AwaitInv'
  BY <1>2, DropAwait
<1>3. ASSUME NEW p \in Peers, Start(p)
      PROVE  AwaitInv'
  BY <1>3, StartMoves, StillAwait DEF AwaitInv, peerVars
<1>4. ASSUME NEW p \in Peers, Crash(p)
      PROVE  AwaitInv'
  BY <1>4, UnmovedAwait DEF Crash, peerVars
<1>5. ASSUME NEW p \in Peers, NEW j \in DOMAIN jobs[p], Expire(p, j)
      PROVE  AwaitInv'
  BY <1>5, UnmovedAwait DEF Expire
<1>6. ASSUME NEW p \in Peers, NEW i \in DOMAIN executing[p], WorkerUpdate(p, i) \/ WorkerFinish(p, i)
      PROVE  AwaitInv'
  BY <1>6, WorkerMoves, StillAwait DEF AwaitInv
<1>7. ASSUME NEW p \in Peers, NEW i \in DOMAIN executing[p], NoExecutorTerminates(p, i)
      PROVE  AwaitInv'
  BY <1>7, UnmovedAwait DEF NoExecutorTerminates, peerVars
<1>8. ASSUME NEW p \in Peers, OnStatusCheck(p)
      PROVE  AwaitInv'
  BY <1>8, OnStatusCheckMoves, StillAwait DEF AwaitInv
<1>9. ASSUME NEW c \in Clients, PostJob(c)
      PROVE  AwaitInv'
  BY <1>9, PostJobMoves, StillAwait DEF AwaitInv, peerVars
<1>10. ASSUME NEW c \in Clients, NEW p \in Peers, Register(c, p)
       PROVE  AwaitInv'
  BY <1>10, UnmovedAwait DEF Register, peerVars
<1> QED
  BY <1>1, <1>2, <1>3, <1>4, <1>5, <1>6, <1>7, <1>8, <1>9, <1>10, ServeAwait DEF Next, Work

\* At the start nothing is under way.
LEMMA InitLoad ==
    ASSUME Init, NEW w
    PROVE  NetFinite /\ Load(w, net, posted) = 0
<1>1. net = EmptyBag /\ DOMAIN net = {} /\ \A q \in Peers : posted[q] = << >>
  BY EmptyIsBag DEF Init, Idle
<1>2. BagWeight(w, net) = 0 /\ \A q \in Peers : SeqWeight(w, posted[q]) = 0
  BY <1>1, EmptyWeight
<1> DEFINE f == [q \in Peers |-> SeqWeight(w, posted[q])]
<1>3. SumFunction(f) = SumFunctionOnSet(f, Peers) /\ \A q \in Peers : f[q] = 0
  BY <1>2 DEF SumFunction
<1> HIDE DEF f
<1>4. SumFunctionOnSet(f, Peers) = 0
  BY <1>3, PeersAssumption, SumZero
<1> QED
  BY <1>1, <1>2, <1>3, <1>4, FS_EmptySet DEF NetFinite, Load, f

LEMMA InitAwait == Init => AwaitInv
<1> SUFFICES ASSUME Init
             PROVE  AwaitInv
  OBVIOUS
<1>1. \A a, b \in Peers : open[a][b] = 0
  BY DEF Init, Idle, NoAsk
<1> QED
  BY <1>1, InitLoad DEF AwaitInv

LEMMA AlwaysAwait == Spec => []AwaitInv
<1>1. TypeOK /\ AwaitInv /\ [Next]_vars => TypeOK' /\ AwaitInv'
  BY NextType, NextAwait
<1> QED
  BY <1>1, InitType, InitAwait, PTL DEF Spec

LEMMA AwaitCovers == TypeOK /\ AwaitInv => AnswersCovered
BY AwaitedIsLoad DEF AwaitInv, AnswersCovered

\* Every answer on its way closes a request still counted as open, so the unsigned count
\* of on_receive_job and on_notified_no_jobs never wraps, for any number of peers and
\* whatever is lost, retracted or answered late.
THEOREM AnswersAreToOpenRequests == Spec => []AnswersCovered
BY TypeCorrect, AlwaysAwait, AwaitCovers, PTL

-----------------------------------------------------------------------------
(* A job that arrives finds a thread. *)

\* The requests of every peer add up.
LEMMA Slots ==
    ASSUME NEW op \in [Peers -> Nat]
    PROVE  /\ IsFiniteSet(OpenSlots(op))
           /\ Cardinality(OpenSlots(op)) = SumFunctionOnSet(op, Peers)
           /\ SumFunctionOnSet(op, Peers) \in Nat
<1> DEFINE Of(T) == UNION {{q} \X (1..op[q]) : q \in T}
           P == {T \in SUBSET Peers : /\ IsFiniteSet(Of(T))
                                      /\ Cardinality(Of(T)) = SumFunctionOnSet(op, T)}
<1>1. {} \in P
  <2>1. Of({}) = {}
    OBVIOUS
  <2> HIDE DEF Of
  <2> QED
    BY <2>1, FS_EmptySet, SumEmpty
<1>2. ASSUME NEW T \in SUBSET Peers, NEW x \in Peers, T \in P, x \notin T
      PROVE  T \cup {x} \in P
  <2> DEFINE own == {x} \X (1..op[x])
  <2>1. Of(T \cup {x}) = Of(T) \cup own /\ Of(T) \cap own = {}
    BY <1>2
  <2>2. IsFiniteSet(own) /\ Cardinality(own) = op[x]
    <3>1. PICK n \in Nat : n = op[x]
      OBVIOUS
    <3>2. IsFiniteSet(1..n) /\ Cardinality(1..n) = n
      BY FS_Interval
    <3>3. IsFiniteSet({x}) /\ Cardinality({x}) = 1
      BY FS_Singleton
    <3>4. IsFiniteSet({x} \X (1..n)) /\ Cardinality({x} \X (1..n)) = 1 * n
      BY <3>2, <3>3, FS_Product
    <3> QED
      BY <3>1, <3>4
  <2> HIDE DEF own, Of
  <2>3. IsFiniteSet(Of(T)) /\ Cardinality(Of(T)) = SumFunctionOnSet(op, T)
    BY <1>2
  <2>4. /\ IsFiniteSet(Of(T \cup {x}))
        /\ Cardinality(Of(T \cup {x})) = Cardinality(Of(T)) + op[x]
    <3> DEFINE A == Of(T)
    <3>1. IsFiniteSet(A) /\ A \cap own = {}
      BY <2>1, <2>3
    <3> HIDE DEF A
    <3>2. IsFiniteSet(A \cup own) /\ Cardinality(A \cup own) = Cardinality(A) + Cardinality(own)
      BY <2>2, <3>1, DisjointUnion
    <3> QED
      BY <2>1, <2>2, <3>2 DEF A
  <2>5. SumFunctionOnSet(op, T \cup {x}) = SumFunctionOnSet(op, T) + op[x]
    <3>1. IsFiniteSet(T) /\ \A y \in T \cup {x} : op[y] \in Int
      BY PeersAssumption, FS_Subset
    <3> QED
      BY <1>2, <3>1, SumAdding
  <2> QED
    BY <2>3, <2>4, <2>5
<1>3. Peers \in P
  <2> HIDE DEF P
  <2> QED
    BY <1>1, <1>2, PeersAssumption, OneByOne
<1>4. SumFunctionOnSet(op, Peers) \in Nat
  BY PeersAssumption, SumNat
<1> QED
  BY <1>3, <1>4 DEF OpenSlots

\* Asking adds what is asked.
LEMMA SlotsAsked ==
    ASSUME NEW op \in [Peers -> Nat], NEW ask \in [Peers -> Nat]
    PROVE  LET more == [q \in Peers |-> op[q] + ask[q]]
           IN  Cardinality(OpenSlots(more)) = Cardinality(OpenSlots(op)) + Cardinality(OpenSlots(ask))
<1> DEFINE more == [q \in Peers |-> op[q] + ask[q]]
<1>1. more \in [Peers -> Nat]
  OBVIOUS
<1>2. \A q \in Peers : op[q] \in Int /\ ask[q] \in Int /\ more[q] = op[q] + ask[q]
  OBVIOUS
<1> HIDE DEF more
<1>3. SumFunctionOnSet(more, Peers) = SumFunctionOnSet(op, Peers) + SumFunctionOnSet(ask, Peers)
  BY <1>2, PeersAssumption, SumPlus
<1> QED
  BY <1>1, <1>3, Slots DEF more

\* An answer takes one away.
LEMMA SlotsClosed ==
    ASSUME TypeOK, NEW p \in Peers, open[p] \in [Peers -> Nat], NEW q \in Peers, open[p][q] >= 1
    PROVE  /\ Close(open[p], q) \in [Peers -> Nat]
           /\ Cardinality(OpenSlots(Close(open[p], q))) = Cardinality(OpenSlots(open[p])) - 1
<1> DEFINE op == open[p]
           cl == Close(open[p], q)
<1>1. cl \in [Peers -> Int] /\ \A b \in Peers : cl[b] = IF b = q THEN op[b] - 1 ELSE op[b]
  BY Closed
<1>2. op \in [Peers -> Nat] /\ op[q] >= 1
  OBVIOUS
<1> HIDE DEF op, cl
<1>3. \A b \in Peers : op[b] \in Nat /\ cl[b] \in Nat
  BY <1>1, <1>2
<1>4. cl \in [Peers -> Nat]
  BY <1>1, <1>3
<1>5. SumFunctionOnSet(cl, Peers) = SumFunctionOnSet(op, Peers) + cl[q] - op[q]
  <2>1. \A y \in Peers : op[y] \in Int /\ cl[y] \in Int /\ (y # q => cl[y] = op[y])
    BY <1>1, <1>3
  <2> QED
    BY <2>1, PeersAssumption, SumChange
<1>6. cl[q] = op[q] - 1 /\ op[q] \in Nat
  BY <1>1, <1>3
<1>7. Cardinality(OpenSlots(cl)) = SumFunctionOnSet(cl, Peers)
  BY <1>4, Slots
<1>8. Cardinality(OpenSlots(op)) = SumFunctionOnSet(op, Peers) /\ SumFunctionOnSet(op, Peers) \in Nat
  BY <1>2, Slots
<1> QED
  BY <1>4, <1>5, <1>6, <1>7, <1>8 DEF op, cl

\* What is handled was part of the load.
LEMMA HandledWeighs ==
    ASSUME TypeOK, NetFinite, NEW w, NoDebt(w), NEW p \in Peers, NEW m, Handled(p, m)
    PROVE  w[m] <= Load(w, net, posted) /\ w[m] \in Nat
<1>1. MailOf(net, posted) /\ Weight(w) /\ m \in Incoming
  BY MailType, LoadIsNat DEF Handled
<1>2. w[m] \in Nat /\ Load(w, net, posted) \in Int
  BY <1>1, LoadType DEF NoDebt
<1> DEFINE N == net (-) SetToBag({m})
           P == [posted EXCEPT ![p] = Tail(posted[p])]
<1>3. CASE Local(m)
  <2>1. /\ posted[p] \in Seq(Incoming) /\ posted[p] # << >> /\ m = Head(posted[p])
        /\ BagOf(net) /\ \A q \in Peers : posted[q] \in Seq(Incoming)
    BY <1>1, <1>3 DEF Handled, MailOf
  <2>2. SeqWeight(w, Tail(posted[p])) = SeqWeight(w, posted[p]) - w[m] /\ Tail(posted[p]) \in Seq(Incoming)
    BY <1>1, <2>1, TailWeight
  <2>3. P[p] = Tail(posted[p]) /\ \A q \in Peers : q # p => P[q] = posted[q]
    BY DEF TypeOK
  <2> HIDE DEF P
  <2>4. MailOf(net, P)
    BY <2>1, <2>2, <2>3 DEF MailOf
  <2>5. Load(w, net, P) = Load(w, net, posted) + BagWeight(w, net) - BagWeight(w, net)
                            + SeqWeight(w, P[p]) - SeqWeight(w, posted[p])
    BY <1>1, <2>3, <2>4, PostsLoad
  <2>6. Load(w, net, P) \in Nat
    BY <2>4, LoadIsNat
  <2>7. BagWeight(w, net) \in Int /\ SeqWeight(w, posted[p]) \in Int
    BY <1>1, LoadType
  <2> QED
    BY <1>2, <2>2, <2>3, <2>5, <2>6, <2>7
<1>4. CASE ~Local(m)
  <2>1. m \in DOMAIN net /\ BagOf(net) /\ \A q \in Peers : posted[q] \in Seq(Incoming)
    BY <1>1, <1>4 DEF Handled, MailOf
  <2>2. BagOf(N) /\ BagWeight(w, N) = BagWeight(w, net) - w[m]
    BY <1>1, <2>1, RemovalWeight
  <2> HIDE DEF N
  <2>3. MailOf(N, posted)
    BY <2>1, <2>2 DEF MailOf
  <2>4. Load(w, N, posted) \in Nat
    BY <2>3, LoadIsNat
  <2>5. Load(w, N, posted) = Load(w, net, posted) + BagWeight(w, N) - BagWeight(w, net)
                            + SeqWeight(w, posted[p]) - SeqWeight(w, posted[p])
    BY <1>1, <2>3, PostsLoad
  <2>6. BagWeight(w, net) \in Int /\ SeqWeight(w, posted[p]) \in Int
    BY <1>1, LoadType
  <2> QED
    BY <1>2, <2>2, <2>4, <2>5, <2>6
<1> QED
  BY <1>3, <1>4

LEMMA OpenIsNat ==
    ASSUME TypeOK, AwaitInv, NEW p \in Peers
    PROVE  open[p] \in [Peers -> Nat]
<1>1. ASSUME NEW q \in Peers
      PROVE  open[p][q] \in Nat
  <2>1. Load(AwaitWeight(p, q), net, posted) \in Nat
    BY AwaitIsTame, MailType, LoadIsNat DEF AwaitInv
  <2>2. Load(AwaitWeight(p, q), net, posted) <= open[p][q] /\ open[p][q] \in Int
    BY DEF AwaitInv, TypeOK
  <2> QED
    BY <2>1, <2>2
<1> QED
  BY <1>1 DEF TypeOK

\* An answer finds its request open.
LEMMA AnswerExpected ==
    ASSUME TypeOK, AwaitInv, NEW p \in Peers, NEW m, Handled(p, m),
           m.type \in {"DelegateJob", "NoMoreJobs"}
    PROVE  m.src \in Peers /\ open[p][m.src] >= 1
<1>1. m \in Incoming /\ m.dst = p /\ m.src \in Peers
  BY Fields DEF Handled
<1> DEFINE w == AwaitWeight(p, m.src)
<1>2. w[m] = 1
  BY <1>1, AwaitWeightType
<1>3. w[m] <= Load(w, net, posted) /\ w[m] \in Nat
  BY <1>1, AwaitIsTame, HandledWeighs DEF AwaitInv
<1>4. Load(w, net, posted) <= open[p][m.src]
  BY <1>1 DEF AwaitInv
<1>5. Load(w, net, posted) \in Nat /\ open[p][m.src] \in Int
  <2>1. Load(w, net, posted) \in Nat
    BY <1>1, AwaitIsTame, MailType, LoadIsNat DEF AwaitInv
  <2> QED
    BY <1>1, <2>1 DEF TypeOK
<1> QED
  BY <1>1, <1>2, <1>3, <1>4, <1>5

\* The threads of p at work and the jobs it asked for.
Fits(p) == Cardinality(DOMAIN executing[p]) + Cardinality(OpenSlots(open[p])) <= MaxThreads[p]

LEMMA FitsKept ==
    ASSUME CapacityRespected, NEW p \in Peers, Fits(p)',
           \A q \in Peers : q # p => DOMAIN executing'[q] = DOMAIN executing[q] /\ open'[q] = open[q]
    PROVE  CapacityRespected'
BY DEF CapacityRespected, Fits

LEMMA FitsUnmoved ==
    ASSUME CapacityRespected, UNCHANGED <<executing, open>>
    PROVE  CapacityRespected'
BY DEF CapacityRespected

\* p asks for no more than the threads left.
LEMMA AskFits ==
    ASSUME NEW p \in Peers, NEW op \in [Peers -> Nat], NEW ex, IsFiniteSet(DOMAIN ex), NEW ask,
           AsksWithin(p, op, ex, ask), open \in [Peers -> [Peers -> Int]],
           Cardinality(DOMAIN ex) + Cardinality(OpenSlots(op)) <= MaxThreads[p]
    PROVE  Cardinality(DOMAIN ex) + Cardinality(OpenSlots(open'[p])) <= MaxThreads[p]
<1>1. /\ ask \in [Peers -> Nat]
      /\ Cardinality(OpenSlots(ask)) <= FreeWorkCapacity(p, op, ex)
      /\ open'[p] = [q \in Peers |-> op[q] + ask[q]]
  BY DEF AsksWithin
<1>2. Cardinality(OpenSlots(open'[p])) = Cardinality(OpenSlots(op)) + Cardinality(OpenSlots(ask))
  BY <1>1, SlotsAsked
<1>3. /\ Cardinality(OpenSlots(op)) \in Nat /\ Cardinality(OpenSlots(ask)) \in Nat
      /\ Cardinality(DOMAIN ex) \in Nat /\ MaxThreads[p] \in Nat
  <2>1. Cardinality(OpenSlots(op)) \in Nat /\ Cardinality(OpenSlots(ask)) \in Nat
    BY <1>1, Slots
  <2> QED
    BY <2>1, FS_CardinalityType, PeersAssumption
<1>4. FreeWorkCapacity(p, op, ex) =
        LET free == MaxThreads[p] - Cardinality(DOMAIN ex) - Cardinality(OpenSlots(op))
        IN IF free > 0 THEN free ELSE 0
  BY DEF FreeWorkCapacity
<1> QED
  BY <1>1, <1>2, <1>3, <1>4

LEMMA LookingFits ==
    ASSUME TypeOK, TypeOK', CapacityRespected, NEW p \in Peers, NEW op \in [Peers -> Nat],
           NEW ask, AsksWithin(p, op, executing[p], ask), UNCHANGED executing,
           Cardinality(DOMAIN executing[p]) + Cardinality(OpenSlots(op)) <= MaxThreads[p]
    PROVE  CapacityRespected'
<1>1. open \in [Peers -> [Peers -> Int]] /\ IsFiniteSet(DOMAIN executing[p])
  BY DEF TypeOK, FiniteMap
<1>2. Cardinality(DOMAIN executing[p]) + Cardinality(OpenSlots(open'[p])) <= MaxThreads[p]
  BY <1>1, AskFits
<1>3. \A q \in Peers : q # p => open'[q] = open[q]
  BY <1>1 DEF AsksWithin
<1> QED
  BY <1>2, <1>3, FitsKept DEF Fits

LEMMA OnReceiveJobFits ==
    ASSUME TypeOK, TypeOK', AwaitInv, CapacityRespected, NEW p \in Peers, NEW m, Handled(p, m),
           m.type = "DelegateJob", OnReceiveJob(p, m)
    PROVE  /\ Cardinality(DOMAIN executing[p]) < MaxThreads[p]
           /\ CapacityRespected'
<1> DEFINE op == Close(open[p], m.src)
<1>1. open[p] \in [Peers -> Nat] /\ m.src \in Peers /\ open[p][m.src] >= 1
  BY OpenIsNat, AnswerExpected
<1>2. /\ op \in [Peers -> Nat]
      /\ Cardinality(OpenSlots(op)) = Cardinality(OpenSlots(open[p])) - 1
  BY <1>1, SlotsClosed
<1>3. open' = [open EXCEPT ![p] = op]
  BY DEF OnReceiveJob
<1> HIDE DEF op
<1>4. open'[p] = op /\ \A q \in Peers : q # p => open'[q] = open[q]
  BY <1>3 DEF TypeOK
<1>5. /\ Cardinality(OpenSlots(op)) \in Nat /\ Cardinality(OpenSlots(open[p])) \in Nat
      /\ MaxThreads[p] \in Nat
  <2>1. Cardinality(OpenSlots(op)) \in Nat /\ Cardinality(OpenSlots(open[p])) \in Nat
    BY <1>1, <1>2, Slots
  <2> QED
    BY <2>1, PeersAssumption
<1>6. IsFiniteSet(DOMAIN executing[p]) /\ Cardinality(DOMAIN executing[p]) \in Nat
  BY FS_CardinalityType DEF TypeOK, FiniteMap
<1>7. Cardinality(DOMAIN executing[p]) + Cardinality(OpenSlots(open[p])) <= MaxThreads[p]
  BY DEF CapacityRespected
<1>8. Cardinality(DOMAIN executing[p]) < MaxThreads[p]
  BY <1>2, <1>5, <1>6, <1>7
<1>9. /\ DOMAIN executing'[p] = DOMAIN executing[p] \cup {InProgressId(p)}
      /\ \A q \in Peers : q # p => executing'[q] = executing[q]
  BY <1>8 DEF OnReceiveJob, TypeOK
<1>10. Cardinality(DOMAIN executing'[p]) <= Cardinality(DOMAIN executing[p]) + 1
       /\ Cardinality(DOMAIN executing'[p]) \in Nat
  <2> DEFINE S == DOMAIN executing[p]
             T == DOMAIN executing'[p]
  <2>1. IsFiniteSet(S) /\ T = S \cup {InProgressId(p)}
    BY <1>6, <1>9
  <2> HIDE DEF S, T
  <2>2. /\ IsFiniteSet(T)
        /\ Cardinality(T) = IF InProgressId(p) \in S THEN Cardinality(S) ELSE Cardinality(S) + 1
    BY <2>1, FS_AddElement
  <2>3. Cardinality(T) \in Nat /\ Cardinality(S) \in Nat
    BY <2>1, <2>2, FS_CardinalityType
  <2> QED
    BY <2>2, <2>3 DEF S, T
<1>11. Cardinality(DOMAIN executing'[p]) + Cardinality(OpenSlots(open'[p])) <= MaxThreads[p]
  BY <1>2, <1>4, <1>5, <1>6, <1>7, <1>10
<1> QED
  BY <1>4, <1>8, <1>9, <1>11, FitsKept DEF Fits

LEMMA OnNotifiedNoJobsFits ==
    ASSUME TypeOK, TypeOK', AwaitInv, CapacityRespected, NEW p \in Peers, NEW m, Handled(p, m),
           m.type = "NoMoreJobs", OnNotifiedNoJobs(p, m)
    PROVE  CapacityRespected'
<1> DEFINE op == Close(open[p], m.src)
<1>1. open[p] \in [Peers -> Nat] /\ m.src \in Peers /\ open[p][m.src] >= 1
  BY OpenIsNat, AnswerExpected
<1>2. /\ op \in [Peers -> Nat]
      /\ Cardinality(OpenSlots(op)) = Cardinality(OpenSlots(open[p])) - 1
  BY <1>1, SlotsClosed
<1>3. UNCHANGED executing /\ \E ask : AsksWithin(p, op, executing[p], ask)
  BY OnNotifiedNoJobsMoves DEF AwaitInv
<1> HIDE DEF op
<1>4. Cardinality(DOMAIN executing[p]) + Cardinality(OpenSlots(op)) <= MaxThreads[p]
  <2>1. Cardinality(DOMAIN executing[p]) + Cardinality(OpenSlots(open[p])) <= MaxThreads[p]
    BY DEF CapacityRespected
  <2>2. Cardinality(OpenSlots(op)) \in Nat /\ Cardinality(OpenSlots(open[p])) \in Nat
    BY <1>1, <1>2, Slots
  <2>3. Cardinality(DOMAIN executing[p]) \in Nat /\ MaxThreads[p] \in Nat
    BY FS_CardinalityType, PeersAssumption DEF TypeOK, FiniteMap
  <2> QED
    BY <1>2, <2>1, <2>2, <2>3
<1> QED
  BY <1>2, <1>3, <1>4, LookingFits

LEMMA OnlyLookingFits ==
    ASSUME TypeOK, TypeOK', AwaitInv, CapacityRespected, NEW p \in Peers, UNCHANGED executing,
           NEW ask, AsksWithin(p, open[p], executing[p], ask)
    PROVE  CapacityRespected'
<1>1. /\ open[p] \in [Peers -> Nat]
      /\ Cardinality(DOMAIN executing[p]) + Cardinality(OpenSlots(open[p])) <= MaxThreads[p]
  BY OpenIsNat DEF CapacityRespected
<1> QED
  BY <1>1, LookingFits

LEMMA OnJobProcessingCompletedFits ==
    ASSUME TypeOK, TypeOK', AwaitInv, CapacityRespected, NEW p \in Peers, NEW m, Handled(p, m),
           m.type = "Finished", OnJobProcessingCompleted(p, m)
    PROVE  CapacityRespected'
<1> DEFINE rest == [i \in DOMAIN executing[p] \ {m.id} |-> executing[p][i]]
<1>1. \/ UNCHANGED <<executing, open>>
      \/ /\ m.id \in DOMAIN executing[p]
         /\ executing' = [executing EXCEPT ![p] = rest]
         /\ \E ask : AsksWithin(p, open[p], rest, ask)
  BY OnJobProcessingCompletedMoves DEF AwaitInv
<1>2. ASSUME executing' = [executing EXCEPT ![p] = rest], NEW ask, AsksWithin(p, open[p], rest, ask)
      PROVE  CapacityRespected'
  <2>1. DOMAIN rest \subseteq DOMAIN executing[p] /\ IsFiniteSet(DOMAIN executing[p])
    BY DEF TypeOK, FiniteMap
  <2>2. executing'[p] = rest /\ \A q \in Peers : q # p => executing'[q] = executing[q]
    BY <1>2 DEF TypeOK
  <2> HIDE DEF rest
  <2>3. /\ IsFiniteSet(DOMAIN rest) /\ Cardinality(DOMAIN rest) \in Nat
        /\ Cardinality(DOMAIN executing[p]) \in Nat
        /\ Cardinality(DOMAIN rest) <= Cardinality(DOMAIN executing[p])
    BY <2>1, FS_Subset, FS_CardinalityType
  <2>4. open[p] \in [Peers -> Nat] /\ Cardinality(OpenSlots(open[p])) \in Nat /\ MaxThreads[p] \in Nat
    <3>1. open[p] \in [Peers -> Nat]
      BY OpenIsNat
    <3>2. Cardinality(OpenSlots(open[p])) \in Nat
      BY <3>1, Slots
    <3> QED
      BY <3>1, <3>2, PeersAssumption
  <2>5. Cardinality(DOMAIN executing[p]) + Cardinality(OpenSlots(open[p])) <= MaxThreads[p]
    BY DEF CapacityRespected
  <2>6. Cardinality(DOMAIN rest) + Cardinality(OpenSlots(open[p])) <= MaxThreads[p]
    BY <2>3, <2>4, <2>5
  <2>7. open \in [Peers -> [Peers -> Int]]
    BY DEF TypeOK
  <2>8. Cardinality(DOMAIN rest) + Cardinality(OpenSlots(open'[p])) <= MaxThreads[p]
    BY <1>2, <2>3, <2>4, <2>6, <2>7, AskFits
  <2>9. \A q \in Peers : q # p => open'[q] = open[q]
    BY <1>2, <2>7 DEF AsksWithin
  <2> QED
    BY <2>2, <2>8, <2>9, FitsKept DEF Fits
<1> QED
  BY <1>1, <1>2, FitsUnmoved

LEMMA PeerMessageFits ==
    ASSUME TypeOK, TypeOK', AwaitInv, CapacityRespected, NEW p \in Peers, NEW m, Handled(p, m),
           OnReceivePeerMessage(p, m)
    PROVE  CapacityRespected'
<1>1. ASSUME m.type = "AvailableWork", OnAvailableWork(p, m)
      PROVE  CapacityRespected'
  BY <1>1, OnAvailableWorkMoves, OnlyLookingFits DEF AwaitInv
<1>2. CASE OnJobRequest(p, m) \/ OnDelegatedJobUpdate(p, m)
           \/ OnDelegatedJobCompleted(p, m) \/ OnJobRetracted(p, m)
  BY <1>2, FitsUnmoved
     DEF OnJobRequest, OnDelegatedJobUpdate, OnDelegatedJobCompleted, OnJobRetracted, Die, peerVars
<1> QED
  BY <1>1, <1>2, OnReceiveJobFits, OnNotifiedNoJobsFits DEF OnReceivePeerMessage

LEMMA ServeFits ==
    ASSUME TypeOK, TypeOK', AwaitInv, CapacityRespected, NEW p \in Peers, Serve(p)
    PROVE  CapacityRespected'
<1>1. CASE RunPosted(p)
  <2> DEFINE m == Head(posted[p])
  <2>1. m \in Posts(p) /\ posted[p] # << >>
    BY <1>1 DEF RunPosted, TypeOK
  <2>2. Handled(p, m)
    BY <2>1 DEF Posts, Handled, Incoming, Local
  <2>3. \/ OnReceivePeerMessage(p, m)
        \/ OnJobUpdate(p, m)
        \/ m.type = "Finished" /\ OnJobProcessingCompleted(p, m)
    BY <1>1 DEF RunPosted
  <2> HIDE DEF m
  <2>4. ASSUME OnJobUpdate(p, m)
        PROVE  CapacityRespected'
    BY <2>4, FitsUnmoved DEF OnJobUpdate, Die, peerVars
  <2> QED
    BY <2>2, <2>3, <2>4, PeerMessageFits, OnJobProcessingCompletedFits
<1>2. ASSUME NEW m \in DOMAIN net, m.dst = p, Deliver(m)
      PROVE  CapacityRespected'
  <2>1. Handled(p, m)
    BY <1>2 DEF TypeOK, Parcels, Handled, Incoming, Local
  <2>2. \/ m.type = "Ping" /\ OnPing(p, m)
        \/ OnClientJobRequest(p, m)
        \/ OnReceivePeerMessage(p, m)
    BY <1>2 DEF Deliver
  <2>3. ASSUME m.type = "Ping", OnPing(p, m)
        PROVE  CapacityRespected'
    <3>1. UNCHANGED executing /\ (UNCHANGED open \/ \E ask : AsksWithin(p, open[p], executing[p], ask))
      BY <2>1, <2>3, OnPingMoves DEF AwaitInv
    <3> QED
      BY <3>1, OnlyLookingFits, FitsUnmoved
  <2>4. ASSUME OnClientJobRequest(p, m)
        PROVE  CapacityRespected'
    BY <2>4, FitsUnmoved DEF OnClientJobRequest
  <2> QED
    BY <2>1, <2>2, <2>3, <2>4, PeerMessageFits
<1>3. ASSUME NEW m \in DOMAIN net, Discard(m)
      PROVE  CapacityRespected'
  BY <1>3, FitsUnmoved DEF Discard, peerVars
<1> QED
  BY <1>1, <1>2, <1>3 DEF Serve

LEMMA WorkFits ==
    ASSUME TypeOK, CapacityRespected, NEW p \in Peers, NEW i \in DOMAIN executing[p],
           WorkerUpdate(p, i) \/ WorkerFinish(p, i) \/ NoExecutorTerminates(p, i)
    PROVE  CapacityRespected'
<1>1. CASE WorkerFinish(p, i)
  <2>1. \A q \in Peers : DOMAIN executing'[q] = DOMAIN executing[q] /\ open'[q] = open[q]
    BY <1>1 DEF WorkerFinish, TypeOK
  <2> QED
    BY <2>1 DEF CapacityRespected
<1> QED
  BY <1>1, FitsUnmoved DEF WorkerUpdate, NoExecutorTerminates, peerVars

LEMMA NextFits ==
    TypeOK /\ TypeOK' /\ AwaitInv /\ CapacityRespected /\ [Next]_vars => CapacityRespected'
<1> SUFFICES ASSUME TypeOK, TypeOK', AwaitInv, CapacityRespected, [Next]_vars
             PROVE  CapacityRespected'
  OBVIOUS
<1>1. CASE UNCHANGED vars
  BY <1>1, FitsUnmoved DEF vars
<1>2. ASSUME NEW p \in Peers,
             \/ Start(p) \/ Crash(p) \/ OnStatusCheck(p)
             \/ \E j \in DOMAIN jobs[p] : Expire(p, j)
             \/ \E c \in Clients : PostJob(c) \/ Register(c, p)
      PROVE  CapacityRespected'
  BY <1>2, FitsUnmoved DEF Start, Crash, OnStatusCheck, Expire, PostJob, Register, peerVars
<1>3. ASSUME NEW m \in DOMAIN net, Lose(m)
      PROVE  CapacityRespected'
  BY <1>3, FitsUnmoved DEF Lose, peerVars
<1>4. ASSUME NEW c \in Clients, PostJob(c)
      PROVE  CapacityRespected'
  BY <1>4, FitsUnmoved DEF PostJob, peerVars
<1> QED
  BY <1>1, <1>2, <1>3, <1>4, ServeFits, WorkFits DEF Next, Work

LEMMA InitFits == Init => CapacityRespected
<1> SUFFICES ASSUME Init, NEW p \in Peers
             PROVE  Cardinality(DOMAIN executing[p]) + Cardinality(OpenSlots(open[p])) <= MaxThreads[p]
  BY DEF CapacityRespected
<1>1. DOMAIN executing[p] = {} /\ open[p] = NoAsk /\ NoAsk \in [Peers -> Nat]
  BY DEF Init, Idle, EmptyMap, NoAsk
<1>2. SumFunctionOnSet(NoAsk, Peers) = 0
  BY PeersAssumption, SumZero DEF NoAsk
<1>3. Cardinality(OpenSlots(open[p])) = 0
  BY <1>1, <1>2, Slots
<1>4. Cardinality(DOMAIN executing[p]) = 0 /\ MaxThreads[p] \in Nat
  BY <1>1, FS_EmptySet, PeersAssumption
<1> QED
  BY <1>3, <1>4

LEMMA AlwaysFits == Spec => [](TypeOK /\ AwaitInv /\ CapacityRespected)
<1>1. TypeOK /\ AwaitInv /\ CapacityRespected /\ [Next]_vars
        => TypeOK' /\ AwaitInv' /\ CapacityRespected'
  BY NextType, NextAwait, NextFits
<1> QED
  BY <1>1, InitType, InitAwait, InitFits, PTL DEF Spec

\* The threads at work and the jobs asked for never exceed --threads, for any number of
\* peers: look_for_work books a thread for every job it asks for, and every answer gives
\* back one booking or uses it.
THEOREM ThreadsAreNotOverbooked == Spec => []CapacityRespected
BY AlwaysFits, PTL

\* A job that is delegated to p finds one of its threads free.
TakesJobs(p, m) ==
    m.type = "DelegateJob" /\ Handled(p, m) /\ OnReceiveJob(p, m) =>
        Cardinality(DOMAIN executing[p]) < MaxThreads[p]

\* on_receive_job has a branch for a job that finds every thread busy: it drops the job
\* and tells nobody.  No step of the service ever takes that branch.
THEOREM NoJobIsTurnedAway ==
    Spec => [][\A p \in Peers : \A m \in Incoming : TakesJobs(p, m)]_vars
<1>1. TypeOK /\ AwaitInv /\ CapacityRespected /\ TypeOK' =>
        \A p \in Peers : \A m \in Incoming : TakesJobs(p, m)
  BY OnReceiveJobFits DEF TakesJobs
<1> QED
  BY <1>1, TypeCorrect, AlwaysFits, PTL

=============================================================================
