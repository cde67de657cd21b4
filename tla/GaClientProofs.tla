----------------------------- MODULE GaClientProofs -----------------------------
(***************************************************************************)
(* Proofs about module GaClient: whatever the sizes of the batches and of  *)
(* the population, and wherever the process ends, the database holds a     *)
(* prefix of each run; a paused run is stored to the last generation, and  *)
(* a run that is over has its end on record or is gone.                    *)
(***************************************************************************)
EXTENDS GaClient, FiniteSetLemmas

-----------------------------------------------------------------------------
(* The loop of ga_db_serializer over the fittest genomes is a fold, and a   *)
(* fold is defined by a choice: of a function that is determined by what it *)
(* is on smaller sets.                                                      *)

\* g gives what the genomes of s at every subset of S make of b.
Recording(b, s, S, g) ==
    g = [T \in SUBSET S |-> IF T = {} THEN b ELSE SerializeGenome(g[T \ {Max(T)}], s[Max(T)])]

\* A finite set of numbers that is not empty has a greatest element.
LEMMA MaxIsIn ==
    ASSUME NEW T \in SUBSET Int, IsFiniteSet(T), T # {}
    PROVE  Max(T) \in T /\ \A y \in T : Max(T) >= y
<1> DEFINE f == [x \in T |-> -x]
<1>1. f \in [T -> Int]
    OBVIOUS
<1>2. PICK x \in T : \A y \in T : f[x] <= f[y]
    <2> HIDE DEF f
    <2> QED
        BY <1>1, LeastExists
<1>3. \A y \in T : x >= y
    <2> SUFFICES ASSUME NEW y \in T PROVE x >= y
        OBVIOUS
    <2>1. f[x] = -x /\ f[y] = -y /\ x \in Int /\ y \in Int
        OBVIOUS
    <2> QED
        BY <1>2, <2>1
<1> QED
    BY <1>3 DEF Max

\* There is one such function.
LEMMA RecordingUnique ==
    ASSUME NEW S \in SUBSET Int, IsFiniteSet(S), NEW b, NEW s, NEW g, NEW h,
           Recording(b, s, S, g), Recording(b, s, S, h)
    PROVE  g = h
<1> DEFINE P == {T \in SUBSET S : g[T] = h[T]}
<1>1. ASSUME NEW T \in SUBSET S, \A U \in SUBSET T : U # T => U \in P
      PROVE  T \in P
    <2>1. CASE T = {}
        <3>1. g[T] = b /\ h[T] = b
            BY <2>1 DEF Recording
        <3> QED
            BY <3>1
    <2>2. CASE T # {}
        <3> DEFINE U == T \ {Max(T)}
        <3>1. U \in SUBSET T /\ U # T
            BY <2>2, MaxIsIn, FS_Subset
        <3>2. g[U] = h[U]
            BY <1>1, <3>1
        <3>3. g[T] = SerializeGenome(g[U], s[Max(T)]) /\ h[T] = SerializeGenome(h[U], s[Max(T)])
            BY <2>2 DEF Recording
        <3> QED
            BY <3>2, <3>3
    <2> QED
        BY <2>1, <2>2
<1> HIDE DEF P
<1>2. \A T \in SUBSET S : T \in P
    BY <1>1, SubsetInduction
<1>3. \A T \in SUBSET S : g[T] = h[T]
    BY <1>2 DEF P
<1>4. g = [T \in SUBSET S |-> g[T]] /\ h = [T \in SUBSET S |-> h[T]]
    BY DEF Recording
<1> QED
    BY <1>3, <1>4

\* What it is on the subsets of a subset is such a function too.
LEMMA RecordingPart ==
    ASSUME NEW S, NEW b, NEW s, NEW g, Recording(b, s, S, g), NEW T \in SUBSET S,
           NEW h, h = [U \in SUBSET T |-> g[U]]
    PROVE  Recording(b, s, T, h)
<1>1. ASSUME NEW U \in SUBSET T
      PROVE  h[U] = IF U = {} THEN b ELSE SerializeGenome(h[U \ {Max(U)}], s[Max(U)])
    <2>1. h[U] = g[U] /\ h[U \ {Max(U)}] = g[U \ {Max(U)}] /\ U \in SUBSET S
        OBVIOUS
    <2> QED
        BY <2>1 DEF Recording
<1>2. h = [U \in SUBSET T |-> h[U]]
    OBVIOUS
<1> QED
    BY <1>1, <1>2 DEF Recording

\* There is such a function.
LEMMA RecordingExists ==
    ASSUME NEW S \in SUBSET Int, IsFiniteSet(S), NEW b, NEW s
    PROVE  \E g : Recording(b, s, S, g)
<1> DEFINE P == {T \in SUBSET S : \E k : Recording(b, s, T, k)}
           Of(T) == CHOOSE k : Recording(b, s, T, k)
<1>1. ASSUME NEW T \in SUBSET S, \A U \in SUBSET T : U # T => U \in P
      PROVE  T \in P
    <2> DEFINE g == [U \in SUBSET T |->
                        IF U = {} THEN b
                        ELSE SerializeGenome(Of(U \ {Max(U)})[U \ {Max(U)}], s[Max(U)])]
    <2>1. ASSUME NEW U \in SUBSET T, U # T
          PROVE  Recording(b, s, U, Of(U))
        BY <1>1, <2>1
    <2> HIDE DEF Of
    <2>2. ASSUME NEW U \in SUBSET T, U # T
          PROVE  g[U] = Of(U)[U]
        <3>1. CASE U = {}
            <4>1. Of(U)[U] = b
                BY <2>1, <2>2, <3>1 DEF Recording
            <4> QED
                BY <3>1, <4>1
        <3>2. CASE U # {}
            <4> DEFINE V == U \ {Max(U)}
            <4>1. V \in SUBSET U /\ V # T /\ V \in SUBSET T /\ IsFiniteSet(V)
                BY <3>2, MaxIsIn, FS_Subset
            <4>2. Of(U)[U] = SerializeGenome(Of(U)[V], s[Max(U)])
                BY <2>1, <2>2, <3>2 DEF Recording
            <4> DEFINE h == [W \in SUBSET V |-> Of(U)[W]]
            <4>3. Recording(b, s, V, h)
                <5>1. Recording(b, s, U, Of(U)) /\ V \in SUBSET U
                    BY <2>1, <2>2, <4>1
                <5>2. h = [W \in SUBSET V |-> Of(U)[W]]
                    OBVIOUS
                <5> HIDE DEF h, V
                <5> QED
                    BY <5>1, <5>2, RecordingPart
            <4>4. Of(V) = h
                <5>1. Recording(b, s, V, Of(V))
                    BY <2>1, <4>1
                <5>2. V \in SUBSET Int
                    OBVIOUS
                <5> HIDE DEF h, V
                <5> QED
                    BY <4>1, <4>3, <5>1, <5>2, RecordingUnique
            <4>5. Of(V)[V] = Of(U)[V]
                BY <4>4
            <4>6. g[U] = SerializeGenome(Of(V)[V], s[Max(U)])
                BY <3>2
            <4> QED
                BY <4>2, <4>5, <4>6
        <3> QED
            BY <3>1, <3>2
    <2>3. ASSUME NEW U \in SUBSET T
          PROVE  g[U] = IF U = {} THEN b ELSE SerializeGenome(g[U \ {Max(U)}], s[Max(U)])
        <3>1. CASE U = {}
            BY <3>1
        <3>2. CASE U # {}
            <4> DEFINE V == U \ {Max(U)}
            <4>1. V \in SUBSET T /\ V # T
                BY <3>2, MaxIsIn, FS_Subset
            <4>2. g[U] = SerializeGenome(Of(V)[V], s[Max(U)])
                BY <3>2
            <4>3. g[V] = Of(V)[V]
                BY <2>2, <4>1
            <4> QED
                BY <3>2, <4>2, <4>3
        <3> QED
            BY <3>1, <3>2
    <2>4. g = [U \in SUBSET T |-> g[U]]
        OBVIOUS
    <2> HIDE DEF g
    <2>5. g = [U \in SUBSET T |-> IF U = {} THEN b ELSE SerializeGenome(g[U \ {Max(U)}], s[Max(U)])]
        BY <2>3, <2>4
    <2>6. Recording(b, s, T, g)
        BY <2>5 DEF Recording
    <2> QED
        BY <2>6
<1> HIDE DEF P
<1>2. S \in P
    BY <1>1, SubsetInduction
<1> QED
    BY <1>2 DEF P

\* The library's fold is the value of that function.
LEMMA FoldIsRecording ==
    ASSUME NEW b, NEW s
    PROVE  FoldLeft(SerializeGenome, b, s) = (CHOOSE g : Recording(b, s, DOMAIN s, g))[DOMAIN s]
BY Zenon DEF FoldLeft, MapThenFoldSet, Recording

-----------------------------------------------------------------------------
(* What the calls of the serializer do to the buffer and the database.      *)

Generations == Nat \X Nat
Genomes == Nat \X Nat \X Nat

Buffers == [run : Nat, generations : Seq(Generations), genomes : Seq(Genomes),
            current : Seq(Genomes)]
Dbs == [runs : SUBSET Nat, ended : SUBSET Nat, generations : SUBSET Generations,
        genomes : SUBSET Genomes, named : SUBSET Genomes]
Records == [buffer : Buffers, db : Dbs]

\* What is stored or will be.
AllGenerations(r) == r.db.generations \cup Range(r.buffer.generations)
AllGenomes(r) == r.db.genomes \cup Range(r.buffer.genomes)

\* A call stores nothing, or every generation there is.
StoresAll(r, q) == q.db = r.db \/ q.db.generations = AllGenerations(r)

\* The parts that the record of generations and genomes leaves alone.
SameRuns(r, q) ==
    /\ q.buffer.run = r.buffer.run
    /\ q.db.runs = r.db.runs /\ q.db.ended = r.db.ended /\ q.db.named = r.db.named

\* q is r with the genomes of a set added.
Adds(r, q, new) ==
    /\ q \in Records
    /\ SameRuns(r, q) /\ q.buffer.current = r.buffer.current
    /\ AllGenerations(q) = AllGenerations(r)
    /\ Range(q.buffer.generations) \subseteq Range(r.buffer.generations)
    /\ AllGenomes(q) = AllGenomes(r) \cup new
    /\ r.db.genomes \subseteq q.db.genomes
    /\ StoresAll(r, q)

\* The elements of a sequence.
LEMMA RangeType == ASSUME NEW S, NEW s \in Seq(S) PROVE Range(s) \in SUBSET S
BY DEF Range

LEMMA RangeEmpty == Range(<< >>) = {}
BY DEF Range

LEMMA RangeAppend ==
    ASSUME NEW S, NEW s \in Seq(S), NEW x \in S
    PROVE  Append(s, x) \in Seq(S) /\ Range(Append(s, x)) = Range(s) \cup {x}
<1> DEFINE a == Append(s, x)
<1>1. a \in Seq(S) /\ Len(a) = Len(s) + 1 /\ Len(s) \in Nat
    OBVIOUS
<1>2. a[Len(s) + 1] = x /\ \A i \in 1..Len(s) : a[i] = s[i]
    OBVIOUS
<1>3. DOMAIN s = 1..Len(s) /\ DOMAIN a = 1..(Len(s) + 1)
    BY <1>1
<1> HIDE DEF a
<1>4. Range(a) = Range(s) \cup {x}
    <2>1. ASSUME NEW y \in Range(a) PROVE y \in Range(s) \cup {x}
        <3>1. PICK i \in DOMAIN a : y = a[i]
            BY <2>1 DEF Range
        <3>2. i \in 1..Len(s) \/ i = Len(s) + 1
            BY <1>1, <1>3
        <3> QED
            BY <1>2, <1>3, <3>1, <3>2 DEF Range
    <2>2. ASSUME NEW y \in Range(s) PROVE y \in Range(a)
        <3>1. PICK i \in DOMAIN s : y = s[i]
            BY <2>2 DEF Range
        <3>2. i \in DOMAIN a
            BY <1>1, <1>3
        <3> QED
            BY <1>2, <1>3, <3>1, <3>2 DEF Range
    <2>3. x \in Range(a)
        <3>1. Len(s) + 1 \in DOMAIN a
            BY <1>1, <1>3
        <3> QED
            BY <1>2, <3>1 DEF Range
    <2> QED
        BY <2>1, <2>2, <2>3
<1> QED
    BY <1>1, <1>4 DEF a

\* The parts of a record.
LEMMA RecordParts ==
    ASSUME NEW r \in Records
    PROVE  /\ r.buffer \in Buffers /\ r.db \in Dbs
           /\ r.buffer.run \in Nat
           /\ r.buffer.generations \in Seq(Generations) /\ r.buffer.genomes \in Seq(Genomes)
           /\ r.buffer.current \in Seq(Genomes)
           /\ r.db.runs \in SUBSET Nat /\ r.db.ended \in SUBSET Nat
           /\ r.db.generations \in SUBSET Generations /\ r.db.genomes \in SUBSET Genomes
           /\ r.db.named \in SUBSET Genomes
           /\ AllGenerations(r) \in SUBSET Generations /\ AllGenomes(r) \in SUBSET Genomes
<1>1. r.buffer \in Buffers /\ r.db \in Dbs
    BY DEF Records
<1>2. r.buffer.generations \in Seq(Generations) /\ r.buffer.genomes \in Seq(Genomes)
    BY <1>1 DEF Buffers
<1>3. Range(r.buffer.generations) \in SUBSET Generations /\ Range(r.buffer.genomes) \in SUBSET Genomes
    BY <1>2, RangeType
<1> QED
    BY <1>1, <1>2, <1>3 DEF Buffers, Dbs, AllGenerations, AllGenomes

\* One transaction stores both buffers.
LEMMA PersistAllStores ==
    ASSUME NEW r \in Records, NEW q, q = PersistAll(r)
    PROVE  /\ Adds(r, q, {})
           /\ q.buffer.generations = << >> /\ q.buffer.genomes = << >>
           /\ q.db.generations = AllGenerations(r) /\ q.db.genomes = AllGenomes(r)
<1>1. /\ q.buffer.run = r.buffer.run /\ q.buffer.current = r.buffer.current
      /\ q.buffer.generations = << >> /\ q.buffer.genomes = << >>
      /\ q.db.runs = r.db.runs /\ q.db.ended = r.db.ended /\ q.db.named = r.db.named
      /\ q.db.generations = AllGenerations(r) /\ q.db.genomes = AllGenomes(r)
    BY RecordParts DEF PersistAll, AllGenerations, AllGenomes, Buffers, Dbs
<1>2. q \in Records
    <2>1. q.buffer \in Buffers
        <3>1. q.buffer = [r.buffer EXCEPT !.generations = << >>, !.genomes = << >>]
            BY DEF PersistAll
        <3>2. << >> \in Seq(Generations) /\ << >> \in Seq(Genomes)
            OBVIOUS
        <3>3. r.buffer \in Buffers
            BY RecordParts
        <3> QED
            BY <3>1, <3>2, <3>3 DEF Buffers
    <2>2. q.db \in Dbs
        BY RecordParts DEF PersistAll, AllGenerations, AllGenomes, Dbs
    <2> QED
        BY <2>1, <2>2 DEF PersistAll, Records
<1>3. /\ AllGenerations(q) = AllGenerations(r) /\ AllGenomes(q) = AllGenomes(r)
      /\ Range(q.buffer.generations) \subseteq Range(r.buffer.generations)
    BY <1>1, RangeEmpty DEF AllGenerations, AllGenomes
<1>4. r.db.genomes \subseteq q.db.genomes
    BY <1>1 DEF AllGenomes
<1> QED
    BY <1>1, <1>2, <1>3, <1>4 DEF Adds, SameRuns, StoresAll

\* Genomes can be added in several calls.
LEMMA AddsMore ==
    ASSUME NEW r, NEW q, NEW p, NEW A, NEW B, Adds(r, q, A), Adds(q, p, B)
    PROVE  Adds(r, p, A \cup B)
<1>1. p \in Records /\ p.buffer.current = r.buffer.current
    BY DEF Adds
<1>2. SameRuns(r, p)
    BY DEF Adds, SameRuns
<1>3. /\ AllGenerations(p) = AllGenerations(r) /\ AllGenomes(p) = AllGenomes(r) \cup (A \cup B)
      /\ Range(p.buffer.generations) \subseteq Range(r.buffer.generations)
    BY DEF Adds
<1>4. r.db.genomes \subseteq p.db.genomes
    BY DEF Adds
<1>5. StoresAll(r, p)
    <2>1. AllGenerations(q) = AllGenerations(r)
        BY DEF Adds
    <2>2. (q.db = r.db \/ q.db.generations = AllGenerations(r))
              /\ (p.db = q.db \/ p.db.generations = AllGenerations(q))
        BY DEF Adds, StoresAll
    <2> QED
        BY <2>1, <2>2 DEF StoresAll
<1> QED
    BY <1>1, <1>2, <1>3, <1>4, <1>5 DEF Adds

LEMMA AddsNothing == ASSUME NEW r \in Records PROVE Adds(r, r, {})
BY DEF Adds, SameRuns, StoresAll

\* One genome is buffered, and with it a batch may be full.
LEMMA GenomeAdded ==
    ASSUME NEW r \in Records, NEW gn \in Genomes
    PROVE  Adds(r, SerializeGenome(r, gn), {gn})
<1> DEFINE added == [r EXCEPT !.buffer.genomes = Append(@, gn)]
<1>1. /\ r.buffer \in Buffers /\ r.db \in Dbs /\ r.buffer.genomes \in Seq(Genomes)
      /\ r = [buffer |-> r.buffer, db |-> r.db]
    BY DEF Records, Buffers
<1>2. /\ Append(r.buffer.genomes, gn) \in Seq(Genomes)
      /\ Range(Append(r.buffer.genomes, gn)) = Range(r.buffer.genomes) \cup {gn}
    BY <1>1, RangeAppend
<1>3. /\ added.db = r.db
      /\ added.buffer = [r.buffer EXCEPT !.genomes = Append(r.buffer.genomes, gn)]
      /\ added = [buffer |-> added.buffer, db |-> added.db]
    <2>1. r \in [buffer : Buffers, db : Dbs]
        BY DEF Records
    <2>2. added = [r EXCEPT !.buffer = [r.buffer EXCEPT !.genomes = Append(r.buffer.genomes, gn)]]
        OBVIOUS
    <2> HIDE DEF added
    <2> QED
        BY <2>1, <2>2
<1> HIDE DEF added
<1>4. /\ added.buffer \in Buffers
      /\ added.buffer.run = r.buffer.run /\ added.buffer.current = r.buffer.current
      /\ added.buffer.generations = r.buffer.generations
      /\ added.buffer.genomes = Append(r.buffer.genomes, gn)
    BY <1>1, <1>2, <1>3 DEF Buffers
<1>5. added \in Records
    BY <1>1, <1>3, <1>4 DEF Records
<1>6. Adds(r, added, {gn})
    <2>1. AllGenerations(added) = AllGenerations(r)
        BY <1>3, <1>4 DEF AllGenerations
    <2>2. AllGenomes(added) = AllGenomes(r) \cup {gn}
        BY <1>2, <1>3, <1>4 DEF AllGenomes
    <2> QED
        BY <1>3, <1>4, <1>5, <2>1, <2>2 DEF Adds, SameRuns, StoresAll
<1>7. Adds(added, PersistAll(added), {})
    BY <1>5, PersistAllStores
<1>8. Adds(r, PersistAll(added), {gn})
    <2>1. Adds(r, PersistAll(added), {gn} \cup {})
        BY <1>6, <1>7, AddsMore
    <2>2. {gn} \cup {} = {gn}
        OBVIOUS
    <2> QED
        BY <2>1, <2>2
<1>9. SerializeGenome(r, gn) \in {added, PersistAll(added)}
    BY DEF SerializeGenome, added
<1> QED
    BY <1>6, <1>8, <1>9

\* The whole loop.
LEMMA GenomesAdded ==
    ASSUME NEW r \in Records, NEW s \in Seq(Genomes)
    PROVE  Adds(r, FoldLeft(SerializeGenome, r, s), Range(s))
<1> DEFINE S == DOMAIN s
           g == CHOOSE k : Recording(r, s, S, k)
           P == {T \in SUBSET S : Adds(r, g[T], {s[i] : i \in T})}
<1>1. S = 1..Len(s) /\ S \in SUBSET Int /\ IsFiniteSet(S)
    BY FS_Interval
<1>2. Recording(r, s, S, g)
    <2> HIDE DEF S
    <2> QED
        BY <1>1, RecordingExists
<1>3. FoldLeft(SerializeGenome, r, s) = g[S]
    BY FoldIsRecording
<1> HIDE DEF g
<1>4. ASSUME NEW T \in SUBSET S, \A U \in SUBSET T : U # T => U \in P
      PROVE  T \in P
    <2>1. CASE T = {}
        <3>1. g[T] = r
            BY <1>2, <2>1 DEF Recording
        <3>2. {s[i] : i \in T} = {}
            BY <2>1
        <3> QED
            BY <3>1, <3>2, AddsNothing
    <2>2. CASE T # {}
        <3> DEFINE m == Max(T)
                   U == T \ {m}
        <3>1. m \in T /\ U \in SUBSET T /\ U # T
            <4>1. IsFiniteSet(T) /\ T \in SUBSET Int
                BY <1>1, FS_Subset
            <4> QED
                BY <2>2, <4>1, MaxIsIn
        <3>2. Adds(r, g[U], {s[i] : i \in U})
            BY <1>4, <3>1
        <3>3. g[T] = SerializeGenome(g[U], s[m])
            BY <1>2, <2>2 DEF Recording
        <3>4. s[m] \in Genomes
            BY <1>1, <3>1
        <3>5. Adds(g[U], g[T], {s[m]})
            <4>1. g[U] \in Records
                BY <3>2 DEF Adds
            <4> HIDE DEF U, m
            <4> QED
                BY <3>3, <3>4, <4>1, GenomeAdded
        <3>6. {s[i] : i \in U} \cup {s[m]} = {s[i] : i \in T}
            BY <3>1
        <3>7. Adds(r, g[T], {s[i] : i \in U} \cup {s[m]})
            <4> HIDE DEF U, m
            <4> QED
                BY <3>2, <3>5, AddsMore
        <3> QED
            BY <3>6, <3>7
    <2> QED
        BY <2>1, <2>2
<1> HIDE DEF P
<1>5. S \in P
    <2> HIDE DEF S
    <2>1. \A T \in SUBSET S : T \in P
        <3>1. \A T \in SUBSET S : (\A U \in SUBSET T : U # T => U \in P) => T \in P
            BY <1>4
        <3>2. IsFiniteSet(S)
            BY <1>1
        <3> QED
            BY <3>1, <3>2, SubsetInduction
    <2> QED
        BY <2>1
<1>6. Adds(r, g[S], {s[i] : i \in S})
    BY <1>5 DEF P
<1>7. {s[i] : i \in S} = Range(s)
    BY DEF Range
<1> QED
    BY <1>3, <1>6, <1>7

\* A generation and its fittest genomes are buffered; the batches that are full on
\* the way are stored, the generation with everything before it.
GenerationAdded(r, q, g, n) ==
    /\ q \in Records /\ SameRuns(r, q)
    /\ AllGenerations(q) = AllGenerations(r) \cup {g}
    /\ Range(q.buffer.generations) \subseteq Range(r.buffer.generations) \cup {g}
    /\ AllGenomes(q) = AllGenomes(r) \cup {<<g[1], g[2], i>> : i \in 1..n}
    /\ r.db.genomes \subseteq q.db.genomes
    /\ q.db = r.db \/ q.db.generations = AllGenerations(q)
    /\ Range(q.buffer.current) = {<<g[1], g[2], i>> : i \in 1..n}

LEMMA SerializeGenerationAdds ==
    ASSUME NEW r \in Records, NEW a \in Nat, NEW b \in Nat, NEW n \in Nat
    PROVE  GenerationAdded(r, SerializeGeneration(r, <<a, b>>, n), <<a, b>>, n)
<1> DEFINE g == <<a, b>>
           best == [i \in 1..n |-> <<g[1], g[2], i>>]
           added == [r EXCEPT !.buffer.generations = Append(@, g), !.buffer.current = best]
           stored == IF Len(added.buffer.generations) = GenerationBatch THEN PersistAll(added)
                     ELSE added
           q == FoldLeft(SerializeGenome, stored, best)
<1>1. q = SerializeGeneration(r, g, n)
    BY Zenon DEF SerializeGeneration
<1>2. g \in Generations /\ g[1] = a /\ g[2] = b
    BY DEF Generations
<1>3. best \in Seq(Genomes) /\ Range(best) = {<<g[1], g[2], i>> : i \in 1..n}
    <2>1. best = [i \in 1..n |-> <<a, b, i>>]
        OBVIOUS
    <2>2. \A i \in 1..n : <<a, b, i>> \in Genomes
        BY DEF Genomes
    <2>3. best \in Seq(Genomes)
        BY <2>1, <2>2
    <2>4. Range(best) = {<<a, b, i>> : i \in 1..n}
        BY <2>1 DEF Range
    <2> QED
        BY <2>3, <2>4
<1> HIDE DEF best, g
<1>4. /\ r.buffer \in Buffers /\ r.db \in Dbs /\ r.buffer.generations \in Seq(Generations)
      /\ r \in [buffer : Buffers, db : Dbs]
    BY DEF Records, Buffers
<1>5. /\ Append(r.buffer.generations, g) \in Seq(Generations)
      /\ Range(Append(r.buffer.generations, g)) = Range(r.buffer.generations) \cup {g}
    BY <1>2, <1>4, RangeAppend
<1>6. /\ added.db = r.db
      /\ added.buffer = [r.buffer EXCEPT !.generations = Append(r.buffer.generations, g),
                                         !.current = best]
      /\ added = [buffer |-> added.buffer, db |-> added.db]
    <2>1. added = [r EXCEPT !.buffer = [r.buffer EXCEPT
                       !.generations = Append(r.buffer.generations, g), !.current = best]]
        BY <1>4 DEF Buffers
    <2> HIDE DEF added
    <2> QED
        BY <1>4, <2>1
<1> HIDE DEF added
<1>7. /\ added.buffer \in Buffers
      /\ added.buffer.run = r.buffer.run /\ added.buffer.current = best
      /\ added.buffer.generations = Append(r.buffer.generations, g)
      /\ added.buffer.genomes = r.buffer.genomes
    BY <1>3, <1>4, <1>5, <1>6 DEF Buffers
<1>8. added \in Records
    BY <1>4, <1>6, <1>7 DEF Records
<1>9. /\ AllGenerations(added) = AllGenerations(r) \cup {g} /\ AllGenomes(added) = AllGenomes(r)
      /\ Range(added.buffer.generations) = Range(r.buffer.generations) \cup {g}
    BY <1>5, <1>6, <1>7 DEF AllGenerations, AllGenomes
<1>10. Adds(added, stored, {})
    BY <1>8, PersistAllStores, AddsNothing
<1>11. Adds(added, q, {} \cup Range(best))
    <2>1. stored \in Records
        BY <1>10 DEF Adds
    <2> HIDE DEF stored
    <2>2. Adds(stored, q, Range(best))
        BY <1>3, <2>1, GenomesAdded
    <2> HIDE DEF q
    <2> QED
        BY <1>10, <2>2, AddsMore
<1> HIDE DEF q
<1>12. /\ AllGenerations(q) = AllGenerations(added)
       /\ AllGenomes(q) = AllGenomes(added) \cup Range(best)
       /\ Range(q.buffer.generations) \subseteq Range(added.buffer.generations)
    BY <1>11 DEF Adds
<1>13. q \in Records /\ SameRuns(r, q)
    BY <1>6, <1>7, <1>11 DEF Adds, SameRuns
<1>14. q.buffer.current = best /\ r.db.genomes \subseteq q.db.genomes
    BY <1>6, <1>7, <1>11 DEF Adds
<1>15. q.db = r.db \/ q.db.generations = AllGenerations(q)
    BY <1>6, <1>11, <1>12 DEF Adds, StoresAll
<1>16. GenerationAdded(r, q, g, n)
    BY <1>3, <1>9, <1>12, <1>13, <1>14, <1>15 DEF GenerationAdded
<1> QED
    BY <1>1, <1>16 DEF g

\* What is buffered of a run is stored, and its end; a run without generations goes.
LEMMA EndStores ==
    ASSUME NEW r \in Records, NEW q, q = SerializeEnd(r)
    PROVE  /\ q \in Records
           /\ q.buffer.run = r.buffer.run /\ q.buffer.current = r.buffer.current
           /\ q.buffer.generations = << >> /\ q.buffer.genomes = << >>
           /\ q.db.generations = AllGenerations(r) /\ q.db.genomes = AllGenomes(r)
           /\ q.db.named = r.db.named
           /\ IF \E g \in AllGenerations(r) : g[1] = r.buffer.run
              THEN q.db.runs = r.db.runs /\ q.db.ended = r.db.ended \cup {r.buffer.run}
              ELSE q.db.runs = r.db.runs \ {r.buffer.run} /\ q.db.ended = r.db.ended
<1> DEFINE p == PersistAll(r)
<1>1. /\ p \in Records
      /\ p.buffer.run = r.buffer.run /\ p.buffer.current = r.buffer.current
      /\ p.buffer.generations = << >> /\ p.buffer.genomes = << >>
      /\ p.db.generations = AllGenerations(r) /\ p.db.genomes = AllGenomes(r)
      /\ p.db.runs = r.db.runs /\ p.db.ended = r.db.ended /\ p.db.named = r.db.named
    BY PersistAllStores DEF Adds, SameRuns
<1> HIDE DEF p
<1>2. p \in [buffer : Buffers, db : Dbs] /\ p.db \in Dbs /\ p.buffer \in Buffers
    BY <1>1 DEF Records
<1>3. q = [p EXCEPT !.db = EndOrRemove(p.db, r.buffer.run)]
    BY DEF SerializeEnd, p
<1>4. q = [buffer |-> p.buffer, db |-> EndOrRemove(p.db, r.buffer.run)]
    BY <1>2, <1>3
<1>5. HasGenerations(p.db, r.buffer.run) <=> \E g \in AllGenerations(r) : g[1] = r.buffer.run
    BY <1>1 DEF HasGenerations
<1>6. r.buffer.run \in Nat
    BY RecordParts
<1>7. CASE HasGenerations(p.db, r.buffer.run)
    <2>1. q.db = [p.db EXCEPT !.ended = p.db.ended \cup {r.buffer.run}]
        BY <1>4, <1>7 DEF EndOrRemove
    <2>2. /\ q.db \in Dbs /\ q.db.runs = p.db.runs /\ q.db.ended = p.db.ended \cup {r.buffer.run}
          /\ q.db.generations = p.db.generations /\ q.db.genomes = p.db.genomes
          /\ q.db.named = p.db.named
        BY <1>2, <1>6, <2>1 DEF Dbs
    <2>3. q \in Records /\ q.buffer = p.buffer
        BY <1>2, <1>4, <2>2 DEF Records
    <2> QED
        BY <1>1, <1>5, <1>7, <2>2, <2>3
<1>8. CASE ~HasGenerations(p.db, r.buffer.run)
    <2>1. q.db = [p.db EXCEPT !.runs = p.db.runs \ {r.buffer.run}]
        BY <1>4, <1>8 DEF EndOrRemove
    <2>2. /\ q.db \in Dbs /\ q.db.runs = p.db.runs \ {r.buffer.run} /\ q.db.ended = p.db.ended
          /\ q.db.generations = p.db.generations /\ q.db.genomes = p.db.genomes
          /\ q.db.named = p.db.named
        BY <1>2, <1>6, <2>1 DEF Dbs
    <2>3. q \in Records /\ q.buffer = p.buffer
        BY <1>2, <1>4, <2>2 DEF Records
    <2> QED
        BY <1>1, <1>5, <1>8, <2>2, <2>3
<1> QED
    BY <1>7, <1>8

\* A new run is on record, and nothing of it.
LEMMA StartStores ==
    ASSUME NEW r \in Records, NEW q, q = SerializeStart(r)
    PROVE  /\ q \in Records
           /\ q.buffer.run = r.buffer.run + 1 /\ q.buffer.current = r.buffer.current
           /\ q.buffer.generations = << >> /\ q.buffer.genomes = r.buffer.genomes
           /\ q.db.runs = r.db.runs \cup {r.buffer.run + 1}
           /\ q.db.ended = r.db.ended /\ q.db.named = r.db.named
           /\ q.db.generations = r.db.generations /\ q.db.genomes = r.db.genomes
<1>1. r.buffer \in Buffers /\ r.db \in Dbs /\ r.buffer.run + 1 \in Nat
    BY RecordParts
<1>2. /\ q.buffer = [r.buffer EXCEPT !.run = r.buffer.run + 1, !.generations = << >>]
      /\ q.db = [r.db EXCEPT !.runs = r.db.runs \cup {r.buffer.run + 1}]
      /\ q = [buffer |-> q.buffer, db |-> q.db]
    BY <1>1 DEF SerializeStart, Buffers, Dbs
<1>3. << >> \in Seq(Generations)
    OBVIOUS
<1>4. /\ q.buffer \in Buffers
      /\ q.buffer.run = r.buffer.run + 1 /\ q.buffer.current = r.buffer.current
      /\ q.buffer.generations = << >> /\ q.buffer.genomes = r.buffer.genomes
    BY <1>1, <1>2, <1>3 DEF Buffers
<1>5. /\ q.db \in Dbs /\ q.db.runs = r.db.runs \cup {r.buffer.run + 1}
      /\ q.db.ended = r.db.ended /\ q.db.named = r.db.named
      /\ q.db.generations = r.db.generations /\ q.db.genomes = r.db.genomes
    BY <1>1, <1>2 DEF Dbs
<1> QED
    BY <1>2, <1>4, <1>5 DEF Records

-----------------------------------------------------------------------------
(* The inductive invariant.                                                 *)

\* What the database holds is consistent, wherever the process ends.
Consistent(d) ==
    /\ \A g \in d.generations : g[1] \in d.runs /\ \A i \in 1..g[2] : <<g[1], i>> \in d.generations
    /\ \A gn \in d.genomes : <<gn[1], gn[2]>> \in d.generations
    /\ d.ended \subseteq d.runs /\ \A n \in d.ended : HasGenerations(d, n)
    /\ d.named \subseteq d.genomes

\* With what is buffered, every genome has its generation and every generation its
\* fittest genome; only the last run may lack its end.
Complete(r) ==
    /\ r.db.runs \subseteq 1..r.buffer.run
    /\ r.db.runs \ {r.buffer.run} \subseteq r.db.ended
    /\ \A gn \in AllGenomes(r) : <<gn[1], gn[2]>> \in AllGenerations(r)
    /\ \A g \in AllGenerations(r) : <<g[1], g[2], 1>> \in AllGenomes(r)
    /\ Range(r.buffer.current) \subseteq AllGenomes(r)

Sound(r) == r \in Records /\ Consistent(r.db) /\ Complete(r)

\* The last run is on record, with n generations stored or buffered.
RunIsOn(r, n) ==
    /\ r.buffer.run \in r.db.runs
    /\ {g \in AllGenerations(r) : g[1] = r.buffer.run} = {<<r.buffer.run, i>> : i \in 1..n}
    /\ \A g \in Range(r.buffer.generations) : g[1] = r.buffer.run

Drained(r) == r.buffer.generations = << >> /\ r.buffer.genomes = << >>

\* The last run has its end on record, or is gone.
RunIsOver(r) == Drained(r) /\ (r.buffer.run \in r.db.runs => r.buffer.run \in r.db.ended)

\* The part of the invariant of module ClientControl that matters here: one handler at
\* most waits for the run thread, which runs in the running state only.
ControlInv ==
    /\ state \in {"ready", "editing", "paused", "running", "quit", "crashed"}
    /\ complete = FALSE
    /\ leaving \in [{"session", "io"} -> {"not_running", "active", "ready", "quit", "idle"}]
    /\ leaving["session"] = "idle" \/ leaving["io"] = "idle"
    /\ \A t \in {"session", "io"} : leaving[t] # "idle" => state \in {"running", "crashed"}
    /\ state # "crashed" /\ thread # "done" => state = "running"

\* A command that does generations does so in the state it was typed in.
HandlingInv ==
    /\ handling \in [trials : Nat, generations : Nat]
    /\ \/ Free
       \/ handling.trials = 0 /\ handling.generations > 0 /\ state \in {"paused", "crashed"}
       \/ handling.trials > 0 /\ state \in {"ready", "crashed"}

RunOn == state \in {"paused", "running"} \/ handling.trials > 0

RecordInv ==
    /\ Sound(Now)
    /\ IF RunOn THEN RunIsOn(Now, generation) ELSE RunIsOver(Now)
    /\ state = "paused" /\ Free => Drained(Now)

Recorded ==
    /\ generation \in Nat
    /\ Now \in Records /\ Consistent(db)
    /\ state # "crashed" => RecordInv

GaInv == ControlInv /\ HandlingInv /\ Recorded

\* The state the calls start from.
LEMMA NowParts == Now.buffer = buffer /\ Now.db = db
BY DEF Now

LEMMA BecomesNow == ASSUME NEW q, q \in Records, Becomes(q) PROVE Now' = q
BY DEF Becomes, Now, Records

\* What is stored is consistent when it is all there is, and only the last run has more
\* generations than were stored before.
LEMMA AllIsConsistent ==
    ASSUME NEW r, NEW c \in Nat, RunIsOn(r, c),
           \A gn \in AllGenomes(r) : <<gn[1], gn[2]>> \in AllGenerations(r),
           NEW d, d.generations = AllGenerations(r), d.genomes \subseteq AllGenomes(r),
           NEW e, Consistent(e), e.generations \subseteq d.generations,
           e.genomes \subseteq d.genomes,
           \A g \in d.generations : g[1] # r.buffer.run => g \in e.generations,
           d.runs = r.db.runs, d.runs = e.runs, d.ended = e.ended, d.named = e.named
    PROVE  Consistent(d)
<1>1. ASSUME NEW g \in d.generations
      PROVE  g[1] \in d.runs /\ \A i \in 1..g[2] : <<g[1], i>> \in d.generations
    <2>1. CASE g[1] = r.buffer.run
        <3>1. PICK k \in 1..c : g = <<r.buffer.run, k>>
            BY <1>1, <2>1 DEF RunIsOn
        <3>2. g[2] = k /\ \A i \in 1..k : i \in 1..c
            BY <3>1
        <3>3. \A i \in 1..c : <<r.buffer.run, i>> \in AllGenerations(r)
            BY DEF RunIsOn
        <3> QED
            BY <2>1, <3>2, <3>3 DEF RunIsOn
    <2>2. CASE g[1] # r.buffer.run
        BY <1>1, <2>2 DEF Consistent
    <2> QED
        BY <2>1, <2>2
<1>2. d.ended \subseteq d.runs /\ \A n \in d.ended : HasGenerations(d, n)
    BY DEF Consistent, HasGenerations
<1>3. d.named \subseteq d.genomes
    BY DEF Consistent
<1> QED
    BY <1>1, <1>2, <1>3 DEF Consistent

\* A generation more, of a run that is on.  Whatever part of its genomes has been
\* buffered, what is stored is consistent.
LEMMA GenerationKeepsSound ==
    ASSUME NEW r, Sound(r), NEW c \in Nat, RunIsOn(r, c), NEW n \in Nat,
           NEW q, q = SerializeGeneration(r, <<r.buffer.run, c + 1>>, n)
    PROVE  /\ q \in Records /\ Consistent(q.db)
           /\ n > 0 => Sound(q) /\ RunIsOn(q, c + 1)
<1> DEFINE run == r.buffer.run
           g == <<run, c + 1>>
           new == {<<run, c + 1, i>> : i \in 1..n}
<1>1. r \in Records /\ run \in Nat /\ AllGenerations(r) \in SUBSET Generations
           /\ AllGenomes(r) \in SUBSET Genomes
    BY RecordParts DEF Sound
<1>2. /\ q \in Records /\ SameRuns(r, q)
      /\ AllGenerations(q) = AllGenerations(r) \cup {g}
      /\ Range(q.buffer.generations) \subseteq Range(r.buffer.generations) \cup {g}
      /\ AllGenomes(q) = AllGenomes(r) \cup new
      /\ r.db.genomes \subseteq q.db.genomes
      /\ q.db = r.db \/ q.db.generations = AllGenerations(q)
      /\ Range(q.buffer.current) = new
    <2>1. GenerationAdded(r, q, g, n)
        <3>1. c + 1 \in Nat
            OBVIOUS
        <3> QED
            BY <1>1, <3>1, SerializeGenerationAdds
    <2>2. g[1] = run /\ g[2] = c + 1
        OBVIOUS
    <2> HIDE DEF g
    <2>3. {<<g[1], g[2], i>> : i \in 1..n} = new
        BY <2>2
    <2> QED
        BY <2>1, <2>3 DEF GenerationAdded
<1>3. RunIsOn(q, c + 1)
    <2>1. q.buffer.run = run /\ run \in q.db.runs
        BY <1>2 DEF RunIsOn, SameRuns
    <2>2. {h \in AllGenerations(q) : h[1] = run} = {<<run, i>> : i \in 1..(c + 1)}
        <3>1. {h \in AllGenerations(r) : h[1] = run} = {<<run, i>> : i \in 1..c}
            BY DEF RunIsOn
        <3>2. 1..(c + 1) = 1..c \cup {c + 1}
            OBVIOUS
        <3> QED
            BY <1>2, <3>1, <3>2
    <2>3. \A h \in Range(q.buffer.generations) : h[1] = run
        BY <1>2 DEF RunIsOn
    <2> QED
        BY <2>1, <2>2, <2>3 DEF RunIsOn
<1> HIDE DEF new, g
<1>4. ASSUME NEW gn \in AllGenomes(q) PROVE <<gn[1], gn[2]>> \in AllGenerations(q)
    <2>1. CASE gn \in AllGenomes(r)
        BY <1>2, <2>1 DEF Sound, Complete
    <2>2. CASE gn \in new
        BY <1>2, <2>2 DEF new, g
    <2> QED
        BY <1>2, <1>4, <2>1, <2>2
<1>5. n > 0 => \A h \in AllGenerations(q) : <<h[1], h[2], 1>> \in AllGenomes(q)
    <2> SUFFICES ASSUME n > 0, NEW h \in AllGenerations(q)
                 PROVE  <<h[1], h[2], 1>> \in AllGenomes(q)
        OBVIOUS
    <2>1. CASE h \in AllGenerations(r)
        BY <1>2, <2>1 DEF Sound, Complete
    <2>2. CASE h = g
        <3>1. 1 \in 1..n
            OBVIOUS
        <3>2. h[1] = run /\ h[2] = c + 1
            BY <2>2 DEF g
        <3>3. <<h[1], h[2], 1>> \in new
            BY <3>1, <3>2 DEF new
        <3> QED
            BY <1>2, <3>3
    <2> QED
        BY <1>2, <2>1, <2>2
<1>6. n > 0 => Complete(q)
    <2>1. /\ q.db.runs \subseteq 1..q.buffer.run
          /\ q.db.runs \ {q.buffer.run} \subseteq q.db.ended
        BY <1>2 DEF Sound, Complete, SameRuns
    <2> QED
        BY <1>2, <1>4, <1>5, <2>1 DEF Complete
<1>7. Consistent(q.db)
    <2>1. CASE q.db = r.db
        BY <2>1 DEF Sound
    <2>2. CASE q.db.generations = AllGenerations(q)
        <3> DEFINE d == q.db
        <3>1. d.runs = r.db.runs /\ d.ended = r.db.ended /\ d.named = r.db.named
                  /\ q.buffer.run = run
            BY <1>2 DEF SameRuns
        <3>2. r.db.generations \subseteq d.generations /\ r.db.genomes \subseteq d.genomes
            BY <1>2, <2>2 DEF AllGenerations
        <3>3. d.genomes \subseteq AllGenomes(q) /\ c + 1 \in Nat
            BY DEF AllGenomes
        <3>4. \A h \in d.generations : h[1] # q.buffer.run => h \in r.db.generations
            BY <1>2, <2>2, <3>1 DEF AllGenerations, RunIsOn, g
        <3>5. Consistent(r.db)
            BY DEF Sound
        <3> HIDE DEF d
        <3>6. Consistent(d)
            BY <1>3, <1>4, <2>2, <3>1, <3>2, <3>3, <3>4, <3>5, AllIsConsistent DEF d
        <3> QED
            BY <3>6 DEF d
    <2> QED
        BY <1>2, <2>1, <2>2
<1> QED
    BY <1>2, <1>3, <1>6, <1>7 DEF Sound

\* A pause stores what is buffered.
LEMMA PauseKeepsSound ==
    ASSUME NEW r, Sound(r), NEW c \in Nat, RunIsOn(r, c), NEW q, q = SerializePause(r)
    PROVE  Sound(q) /\ RunIsOn(q, c) /\ Drained(q)
<1>1. /\ q \in Records /\ SameRuns(r, q) /\ q.buffer.current = r.buffer.current
      /\ AllGenerations(q) = AllGenerations(r) /\ AllGenomes(q) = AllGenomes(r)
      /\ q.buffer.generations = << >> /\ q.buffer.genomes = << >>
      /\ q.db.generations = AllGenerations(r) /\ q.db.genomes = AllGenomes(r)
    BY PersistAllStores DEF Adds, SerializePause, Sound
<1>2. RunIsOn(q, c)
    BY <1>1, RangeEmpty DEF RunIsOn, SameRuns
<1>3. Complete(q)
    BY <1>1 DEF Complete, Sound, SameRuns
<1>4. Consistent(q.db)
    <2> DEFINE d == q.db
    <2>1. d.generations = AllGenerations(r) /\ d.genomes \subseteq AllGenomes(r)
        BY <1>1
    <2>2. d.runs = r.db.runs /\ d.ended = r.db.ended /\ d.named = r.db.named
        BY <1>1 DEF SameRuns
    <2>3. r.db.generations \subseteq d.generations /\ r.db.genomes \subseteq d.genomes
        BY <1>1 DEF AllGenerations, AllGenomes
    <2>4. \A g \in d.generations : g[1] # r.buffer.run => g \in r.db.generations
        BY <1>1 DEF AllGenerations, RunIsOn
    <2>5. Consistent(r.db) /\ \A gn \in AllGenomes(r) : <<gn[1], gn[2]>> \in AllGenerations(r)
        BY DEF Sound, Complete
    <2> HIDE DEF d
    <2>6. Consistent(d)
        BY <2>1, <2>2, <2>3, <2>4, <2>5, AllIsConsistent
    <2> QED
        BY <2>6 DEF d
<1> QED
    BY <1>1, <1>2, <1>3, <1>4 DEF Sound, Drained

\* The end of a run gives it its end on record, or removes it.
LEMMA EndKeepsSound ==
    ASSUME NEW r, Sound(r), NEW c \in Nat, RunIsOn(r, c), NEW q, q = SerializeEnd(r)
    PROVE  Sound(q) /\ RunIsOver(q)
<1> DEFINE run == r.buffer.run
           p == SerializePause(r)
           recorded == \E g \in AllGenerations(r) : g[1] = run
<1>1. Sound(p) /\ RunIsOn(p, c) /\ Drained(p)
    BY PauseKeepsSound
<1>2. /\ p.db.runs = r.db.runs /\ p.db.ended = r.db.ended /\ p.db.named = r.db.named
      /\ p.db.generations = AllGenerations(r) /\ p.db.genomes = AllGenomes(r)
      /\ p.buffer.run = run
      /\ AllGenerations(p) = AllGenerations(r) /\ AllGenomes(p) = AllGenomes(r)
    BY PersistAllStores DEF Adds, SameRuns, Sound, SerializePause
<1>3. /\ q \in Records /\ q.buffer.run = run /\ q.buffer.current = r.buffer.current
      /\ q.buffer.generations = << >> /\ q.buffer.genomes = << >>
      /\ q.db.generations = AllGenerations(r) /\ q.db.genomes = AllGenomes(r)
      /\ q.db.named = r.db.named
      /\ IF recorded THEN q.db.runs = r.db.runs /\ q.db.ended = r.db.ended \cup {run}
         ELSE q.db.runs = r.db.runs \ {run} /\ q.db.ended = r.db.ended
    BY EndStores DEF Sound
<1>4. AllGenerations(q) = AllGenerations(r) /\ AllGenomes(q) = AllGenomes(r)
    BY <1>3, RangeEmpty DEF AllGenerations, AllGenomes
<1>5. run \in r.db.runs
    BY DEF RunIsOn
<1> HIDE DEF p
<1>6. Complete(q)
    BY <1>3, <1>4 DEF Complete, Sound
<1>7. Consistent(q.db)
    <2>1. ASSUME NEW g \in q.db.generations
          PROVE  g[1] \in q.db.runs /\ \A i \in 1..g[2] : <<g[1], i>> \in q.db.generations
        <3>1. g[1] \in r.db.runs /\ \A i \in 1..g[2] : <<g[1], i>> \in q.db.generations
            BY <1>1, <1>2, <1>3, <2>1 DEF Sound, Consistent
        <3>2. g[1] = run => recorded
            BY <1>3, <2>1
        <3> QED
            BY <1>3, <3>1, <3>2
    <2>2. \A gn \in q.db.genomes : <<gn[1], gn[2]>> \in q.db.generations
        BY <1>1, <1>2, <1>3 DEF Sound, Consistent
    <2>3. ASSUME NEW n \in q.db.ended PROVE n \in q.db.runs /\ HasGenerations(q.db, n)
        <3>1. n # run \/ ~recorded => n \in r.db.ended
            BY <1>3, <2>3
        <3>2. n \in r.db.ended => n \in r.db.runs /\ \E g \in AllGenerations(r) : g[1] = n
            BY <1>1, <1>2 DEF Sound, Consistent, HasGenerations
        <3>3. recorded => run \in q.db.runs
            BY <1>3, <1>5
        <3> QED
            BY <1>3, <2>3, <3>1, <3>2, <3>3 DEF HasGenerations
    <2>4. q.db.named \subseteq q.db.genomes
        BY <1>1, <1>2, <1>3 DEF Sound, Consistent
    <2> QED
        BY <2>1, <2>2, <2>3, <2>4 DEF Consistent
<1> QED
    BY <1>3, <1>6, <1>7 DEF Sound, RunIsOver, Drained

\* A new run follows one that is over.
LEMMA StartKeepsSound ==
    ASSUME NEW r, Sound(r), RunIsOver(r), NEW q, q = SerializeStart(r)
    PROVE  Sound(q) /\ RunIsOn(q, 0) /\ Drained(q)
<1> DEFINE run == r.buffer.run
<1>1. /\ q \in Records /\ q.buffer.run = run + 1 /\ q.buffer.current = r.buffer.current
      /\ q.buffer.generations = << >> /\ q.buffer.genomes = << >>
      /\ q.db.runs = r.db.runs \cup {run + 1}
      /\ q.db.ended = r.db.ended /\ q.db.named = r.db.named
      /\ q.db.generations = r.db.generations /\ q.db.genomes = r.db.genomes
    BY StartStores DEF Sound, RunIsOver, Drained
<1>2. AllGenerations(q) = r.db.generations /\ AllGenomes(q) = r.db.genomes
    BY <1>1, RangeEmpty DEF AllGenerations, AllGenomes
<1>3. AllGenerations(r) = r.db.generations /\ AllGenomes(r) = r.db.genomes
    BY RangeEmpty DEF RunIsOver, Drained, AllGenerations, AllGenomes
<1>4. run \in Nat /\ r.db.runs \subseteq 1..run
    BY RecordParts DEF Sound, Complete
<1>5. RunIsOn(q, 0)
    <2>1. ASSUME NEW g \in r.db.generations PROVE g[1] # run + 1
        <3>1. g[1] \in 1..run
            BY <1>4, <2>1 DEF Sound, Consistent
        <3> QED
            BY <1>4, <3>1
    <2>2. {<<run + 1, i>> : i \in 1..0} = {}
        OBVIOUS
    <2>3. {g \in AllGenerations(q) : g[1] = run + 1} = {}
        BY <1>2, <2>1
    <2> HIDE DEF run
    <2> QED
        BY <1>1, <2>2, <2>3, RangeEmpty DEF RunIsOn
<1>6. Complete(q)
    <2>1. q.db.runs \subseteq 1..(run + 1)
        BY <1>1, <1>4
    <2>2. q.db.runs \ {run + 1} \subseteq q.db.ended
        BY <1>1 DEF RunIsOver, Sound, Complete
    <2> QED
        BY <1>1, <1>2, <1>3, <2>1, <2>2 DEF Complete, Sound
<1>7. Consistent(q.db)
    BY <1>1 DEF Consistent, Sound, HasGenerations
<1> QED
    BY <1>1, <1>5, <1>6, <1>7 DEF Sound, Drained

-----------------------------------------------------------------------------
(* The machine, and the commands that take several steps.                   *)

ControlAndHandling == ControlInv /\ HandlingInv

\* Commands of one step are typed outside any transition, and leave the machine so or at
\* the wait for the run thread.
LEMMA CommandsKeepControl ==
    ASSUME ControlAndHandling, Initialize \/ Modify \/ Run \/ LeaveRun \/ Reset \/ Exit \/ QuitInactive
    PROVE  ControlAndHandling'
<1> USE DEF ControlAndHandling, ControlInv, HandlingInv, Free, NoHandling, Control!Alone,
        Control!Up, Control!Handlers, Control!ActiveStates, Control!systemVars
<1>1. CASE Initialize
    BY <1>1 DEF Initialize, Control!Initialize, Control!Transit, Control!Enter, Control!Leave
<1>2. CASE Modify
    BY <1>2 DEF Modify, Control!Modify, Control!EditorExit, Control!Transit, Control!Enter, Control!Leave
<1>3. CASE Run
    BY <1>3 DEF Run, Control!Run
<1>4. CASE LeaveRun
    BY <1>4 DEF LeaveRun, Control!Stop, Control!Exit, Control!Reset, Control!Quit, Control!Transit,
                Control!Leave
<1>5. CASE Reset
    BY <1>5 DEF Reset, Control!Reset, Control!Transit, Control!Enter, Control!Leave
<1>6. CASE Exit
    BY <1>6 DEF Exit, Control!Exit, Control!Quit, Control!Transit, Control!Enter, Control!Leave
<1>7. CASE QuitInactive
    BY <1>7 DEF QuitInactive, Control!Quit, Control!Transit, Control!Enter, Control!Leave
<1> QED
    BY <1>1, <1>2, <1>3, <1>4, <1>5, <1>6, <1>7

\* Commands of several steps keep the machine where it is.
LEMMA LongCommandsKeepControl ==
    ASSUME ControlAndHandling,
           \/ \E n \in 1..MaxGenerations : Step(n)
           \/ StepGeneration \/ StepReturns
           \/ \E i \in 1..PopSize : Store(i)
           \/ Repeat \/ TrialGeneration \/ TrialEnds \/ CrashWhileRecording
    PROVE  ControlAndHandling'
<1> USE DEF ControlAndHandling, ControlInv, HandlingInv, Free, NoHandling, controlVars, Control!Up
<1>0. MaxGenerations \in Nat \ {0} /\ Trials \in Nat \ {0}
    BY GaAssumption
<1>1. ASSUME NEW n \in 1..MaxGenerations, Step(n) PROVE ControlAndHandling'
    BY <1>0, <1>1 DEF Step
<1>2. CASE StepGeneration
    BY <1>2 DEF StepGeneration
<1>3. CASE StepReturns
    <2>1. state = "paused" /\ state' = "paused" /\ handling' = NoHandling
              /\ UNCHANGED <<complete, leaving, thread>>
        BY <1>3 DEF StepReturns, Control!Step, Control!MayEnd
    <2> QED
        BY <2>1
<1>4. ASSUME NEW i \in 1..PopSize, Store(i) PROVE ControlAndHandling'
    BY <1>4 DEF Store
<1>5. CASE Repeat
    BY <1>0, <1>5 DEF Repeat, Trial
<1>6. CASE TrialGeneration
    BY <1>6 DEF TrialGeneration
<1>7. CASE TrialEnds
    BY <1>0, <1>7 DEF TrialEnds, Trial
<1>8. CASE CrashWhileRecording
    BY <1>8 DEF CrashWhileRecording
<1> QED
    BY <1>1, <1>2, <1>3, <1>4, <1>5, <1>6, <1>7, <1>8

\* The run thread and the io_service.
LEMMA ThreadsKeepControl ==
    ASSUME ControlAndHandling, (\E t \in DOMAIN leaving : Return(t)) \/ RunGeneration \/ Others
    PROVE  ControlAndHandling'
<1> USE DEF ControlAndHandling, ControlInv, HandlingInv, Free, NoHandling, Control!Alone,
        Control!Up, Control!Handlers, Control!systemVars, Control!ioVars
<1>1. ASSUME NEW t \in DOMAIN leaving, Return(t) PROVE ControlAndHandling'
    BY <1>1 DEF Return, Control!Return, Control!Joined, Control!Enter, Control!IsCompletedChoice
<1>2. CASE RunGeneration
    BY <1>2 DEF RunGeneration, Control!StepSystem, Control!MayEnd
<1>3. CASE Others
    <2>1. CASE Control!CheckInterrupt
        BY <1>3, <2>1 DEF Others, Control!CheckInterrupt
    <2>2. CASE Control!PostStop
        BY <1>3, <2>2 DEF Others, Control!PostStop
    <2>3. CASE Control!IoService
        <3>1. CASE Control!HandleStop
            BY <1>3, <3>1 DEF Others, Control!HandleStop, Control!Transit, Control!Leave
        <3>2. CASE Control!RaceOnStop
            BY <1>3, <3>2 DEF Others, Control!RaceOnStop
        <3>3. CASE Control!ServiceReturns
            BY <1>3, <3>3 DEF Others, Control!ServiceReturns
        <3> QED
            BY <2>3, <3>1, <3>2, <3>3 DEF Control!IoService
    <2>4. CASE Control!RaceOnCommand
        BY <1>3, <2>4 DEF Others, Control!RaceOnCommand
    <2> QED
        BY <1>3, <2>1, <2>2, <2>3, <2>4 DEF Others
<1> QED
    BY <1>1, <1>2, <1>3

LEMMA NextKeepsControl == ControlAndHandling /\ [Next]_vars => ControlAndHandling'
<1>1. ControlAndHandling /\ UNCHANGED vars => ControlAndHandling'
    BY DEF ControlAndHandling, ControlInv, HandlingInv, Free, vars, controlVars
<1> QED
    BY <1>1, CommandsKeepControl, LongCommandsKeepControl, ThreadsKeepControl DEF Next

-----------------------------------------------------------------------------
(* The record.  In each lemma the machine's part of the invariant is known. *)

\* A step that keeps the record.
LEMMA KeepRecordKeeps ==
    ASSUME GaInv, KeepRecord,
           state' # "crashed" => state # "crashed" /\ RunOn' = RunOn
                                 /\ (state' = "paused" /\ Free' => state = "paused" /\ Free)
    PROVE  Recorded'
<1>1. Now' = Now /\ generation' = generation /\ db' = db
    BY DEF KeepRecord, Now
<1>2. state' # "crashed" => RecordInv
    BY DEF GaInv, Recorded
<1>3. state' # "crashed" => Sound(Now')
    BY <1>1, <1>2 DEF RecordInv
<1>4. state' # "crashed" => IF RunOn' THEN RunIsOn(Now', generation') ELSE RunIsOver(Now')
    BY <1>1, <1>2 DEF RecordInv
<1>5. state' # "crashed" => (state' = "paused" /\ Free' => Drained(Now'))
    BY <1>1, <1>2 DEF RecordInv
<1> QED
    BY <1>1, <1>3, <1>4, <1>5 DEF GaInv, Recorded, RecordInv

\* What a generation makes of the record.
LEMMA DoGenerationKeeps ==
    ASSUME GaInv, state # "crashed", RunOn, DoGeneration
    PROVE  /\ generation' \in Nat /\ Now' \in Records /\ Consistent(db')
           /\ Sound(Now') /\ RunIsOn(Now', generation')
<1>1. PICK n \in 1..PopSize : Becomes(SerializeGeneration(Now, <<buffer.run, generation + 1>>, n))
    BY DEF DoGeneration
<1> DEFINE q == SerializeGeneration(Now, <<buffer.run, generation + 1>>, n)
<1>2. n \in Nat /\ n > 0 /\ generation \in Nat /\ generation' = generation + 1
    BY GaAssumption DEF GaInv, Recorded, DoGeneration
<1>3. Sound(Now) /\ RunIsOn(Now, generation)
    BY DEF GaInv, Recorded, RecordInv
<1>4. q \in Records /\ Sound(q) /\ RunIsOn(q, generation + 1)
    BY <1>2, <1>3, NowParts, GenerationKeepsSound
<1>5. Now' = q
    BY <1>1, <1>4, BecomesNow
<1> HIDE DEF q
<1>6. Consistent(Now'.db) /\ Now'.db = db'
    BY <1>4, <1>5 DEF Sound, Now
<1> QED
    BY <1>2, <1>4, <1>5, <1>6

\* A new run, by Reactivated.
LEMMA EnterActiveKeeps ==
    ASSUME NEW r, Sound(r), RunIsOver(r), EnterActive(r)
    PROVE  /\ generation' \in Nat /\ Now' \in Records /\ Consistent(db')
           /\ Sound(Now') /\ RunIsOn(Now', generation') /\ Drained(Now')
<1> DEFINE p == SerializeStart(r)
           q == SerializePause(p)
<1>1. Sound(p) /\ RunIsOn(p, 0)
    BY StartKeepsSound
<1>2. Sound(q) /\ RunIsOn(q, 0) /\ Drained(q)
    <2> HIDE DEF p
    <2> QED
        BY <1>1, PauseKeepsSound
<1>3. Becomes(q) /\ generation' = 0
    BY DEF EnterActive, Reactivated
<1> HIDE DEF q
<1>4. Now' = q
    BY <1>2, <1>3, BecomesNow DEF Sound
<1>5. Consistent(Now'.db) /\ Now'.db = db'
    BY <1>2, <1>4 DEF Sound, Now
<1> QED
    BY <1>2, <1>3, <1>4, <1>5 DEF Sound

\* The end of a run.
LEMMA EndKeeps ==
    ASSUME NEW r, Sound(r), NEW c \in Nat, RunIsOn(r, c), Becomes(SerializeEnd(r))
    PROVE  Now' \in Records /\ Consistent(db') /\ Sound(Now') /\ RunIsOver(Now')
<1> DEFINE q == SerializeEnd(r)
<1>1. Sound(q) /\ RunIsOver(q)
    BY EndKeepsSound
<1> HIDE DEF q
<1>2. Now' = q
    BY <1>1, BecomesNow DEF Sound, q
<1>3. Consistent(Now'.db) /\ Now'.db = db'
    BY <1>1, <1>2 DEF Sound, Now
<1> QED
    BY <1>1, <1>2, <1>3 DEF Sound

\* The commands that keep the record.
LEMMA ModifyRecords == GaInv /\ (Modify \/ QuitInactive) => Recorded'
<1> SUFFICES ASSUME GaInv, Modify \/ QuitInactive PROVE Recorded'
    OBVIOUS
<1>1. KeepRecord /\ handling' = handling /\ Free
    BY DEF Modify, QuitInactive
<1>2. state' \in {"editing", "ready", "quit"} /\ state \in {"editing", "ready"}
    BY DEF Modify, QuitInactive, Control!Modify, Control!EditorExit, Control!Quit,
           Control!Transit, Control!Enter, Control!Leave
<1>3. RunOn' = RunOn
    BY <1>1, <1>2 DEF RunOn
<1> QED
    BY <1>1, <1>2, <1>3, KeepRecordKeeps

LEMMA RunRecords == GaInv /\ (Run \/ LeaveRun) => Recorded'
<1> SUFFICES ASSUME GaInv, Run \/ LeaveRun PROVE Recorded'
    OBVIOUS
<1>1. KeepRecord /\ handling' = handling /\ Free
    BY DEF Run, LeaveRun
<1>2. state' = "running" /\ state \in {"paused", "running"}
    BY DEF Run, LeaveRun, Control!Run, Control!Stop, Control!Exit, Control!Reset, Control!Quit,
           Control!Transit, Control!Leave
<1>3. RunOn' = RunOn
    BY <1>1, <1>2 DEF RunOn
<1> QED
    BY <1>1, <1>2, <1>3, KeepRecordKeeps

LEMMA StepRecords == ASSUME NEW n \in 1..MaxGenerations, GaInv, Step(n) PROVE Recorded'
<1>1. /\ generation' = generation /\ buffer' = buffer /\ db' = db /\ state' = state /\ state = "paused"
      /\ handling' = [NoHandling EXCEPT !.generations = n] /\ Free
    BY DEF Step, controlVars
<1>2. KeepRecord
    BY <1>1 DEF KeepRecord
<1>3. ~Free'
    BY <1>1, GaAssumption DEF Free, NoHandling
<1>4. RunOn' = RunOn
    BY <1>1 DEF RunOn
<1> QED
    BY <1>1, <1>2, <1>3, <1>4, KeepRecordKeeps

LEMMA OthersRecord == GaInv /\ Others => Recorded'
<1> SUFFICES ASSUME GaInv, Others PROVE Recorded'
    OBVIOUS
<1>1. KeepRecord /\ handling' = handling
    BY DEF Others
<1>2. state' = state \/ state' = "crashed"
    <2> USE DEF Others
    <2>1. CASE Control!CheckInterrupt
        BY <2>1 DEF Control!CheckInterrupt
    <2>2. CASE Control!PostStop
        BY <2>2 DEF Control!PostStop
    <2>3. CASE Control!IoService
        <3>1. CASE Control!HandleStop
            BY <3>1 DEF Control!HandleStop, Control!Transit, Control!Leave
        <3>2. CASE Control!RaceOnStop
            BY <3>2 DEF Control!RaceOnStop
        <3>3. CASE Control!ServiceReturns
            BY <3>3 DEF Control!ServiceReturns
        <3> QED
            BY <2>3, <3>1, <3>2, <3>3 DEF Control!IoService
    <2>4. CASE Control!RaceOnCommand
        BY <2>4 DEF Control!RaceOnCommand
    <2> QED
        BY <2>1, <2>2, <2>3, <2>4 DEF Others
<1>3. state' # "crashed" => state # "crashed" /\ RunOn' = RunOn /\ (Free' <=> Free)
    BY <1>1, <1>2 DEF RunOn, Free
<1> QED
    BY <1>1, <1>2, <1>3, KeepRecordKeeps

\* A new run: by initialize, by reset from the prompt of a run, by repeat.
LEMMA InitializeRecords == GaInv /\ Initialize => Recorded'
<1> SUFFICES ASSUME GaInv, Initialize PROVE Recorded'
    OBVIOUS
<1>1. state = "ready" /\ state' = "paused" /\ Free /\ EnterActive(Now)
    BY DEF Initialize, Control!Initialize, Control!Transit, Control!Enter, Control!Leave
<1>2. ~RunOn
    BY <1>1 DEF RunOn, Free, NoHandling
<1>3. Sound(Now) /\ RunIsOver(Now)
    BY <1>1, <1>2 DEF GaInv, Recorded, RecordInv
<1>4. /\ generation' \in Nat /\ Now' \in Records /\ Consistent(db')
      /\ Sound(Now') /\ RunIsOn(Now', generation') /\ Drained(Now')
    BY <1>1, <1>3, EnterActiveKeeps
<1>5. RunOn'
    BY <1>1 DEF RunOn
<1> QED
    BY <1>4, <1>5 DEF Recorded, RecordInv

LEMMA ResetRecords == GaInv /\ Reset => Recorded'
<1> SUFFICES ASSUME GaInv, Reset PROVE Recorded'
    OBVIOUS
<1>1. state = "paused" /\ state' = "paused" /\ EnterActive(SerializeEnd(Now))
    BY DEF Reset, Control!Reset, Control!Transit, Control!Enter, Control!Leave
<1>2. Sound(Now) /\ RunIsOn(Now, generation) /\ generation \in Nat
    BY <1>1 DEF GaInv, Recorded, RecordInv, RunOn
<1>3. Sound(SerializeEnd(Now)) /\ RunIsOver(SerializeEnd(Now))
    BY <1>2, EndKeepsSound
<1>4. /\ generation' \in Nat /\ Now' \in Records /\ Consistent(db')
      /\ Sound(Now') /\ RunIsOn(Now', generation') /\ Drained(Now')
    BY <1>1, <1>3, EnterActiveKeeps
<1>5. RunOn'
    BY <1>1 DEF RunOn
<1> QED
    BY <1>4, <1>5 DEF Recorded, RecordInv

LEMMA RepeatRecords == GaInv /\ Repeat => Recorded'
<1> SUFFICES ASSUME GaInv, Repeat PROVE Recorded'
    OBVIOUS
<1> DEFINE q == SerializeStart(Now)
<1>1. /\ state = "ready" /\ state' = "ready" /\ Free /\ generation' = 0 /\ Becomes(q)
      /\ handling' = Trial(Trials)
    BY DEF Repeat, controlVars
<1>2. ~RunOn
    BY <1>1 DEF RunOn, Free, NoHandling
<1>3. Sound(Now) /\ RunIsOver(Now)
    BY <1>1, <1>2 DEF GaInv, Recorded, RecordInv
<1>4. Sound(q) /\ RunIsOn(q, 0)
    BY <1>3, StartKeepsSound
<1> HIDE DEF q
<1>5. Now' = q
    BY <1>1, <1>4, BecomesNow DEF Sound
<1>6. Consistent(Now'.db) /\ Now'.db = db'
    BY <1>4, <1>5 DEF Sound, Now
<1>7. RunOn'
    BY <1>1, GaAssumption DEF RunOn, Trial
<1> QED
    BY <1>1, <1>4, <1>5, <1>6, <1>7 DEF Recorded, RecordInv, Sound

\* The end of a run, from its prompt.
LEMMA ExitRecords == GaInv /\ Exit => Recorded'
<1> SUFFICES ASSUME GaInv, Exit PROVE Recorded'
    OBVIOUS
<1>1. /\ state = "paused" /\ state' \in {"ready", "quit"} /\ Free /\ Becomes(SerializeEnd(Now))
      /\ handling' = handling /\ generation' = generation
    BY DEF Exit, Control!Exit, Control!Quit, Control!Transit, Control!Enter, Control!Leave
<1>2. Sound(Now) /\ RunIsOn(Now, generation) /\ generation \in Nat
    BY <1>1 DEF GaInv, Recorded, RecordInv, RunOn
<1>3. Now' \in Records /\ Consistent(db') /\ Sound(Now') /\ RunIsOver(Now')
    BY <1>1, <1>2, EndKeeps
<1>4. ~RunOn'
    BY <1>1 DEF RunOn, Free, NoHandling
<1> QED
    BY <1>1, <1>2, <1>3, <1>4 DEF Recorded, RecordInv

\* A generation: of a step command, of a trial, of the run thread.
LEMMA GenerationRecords == GaInv /\ (StepGeneration \/ TrialGeneration \/ RunGeneration) => Recorded'
<1> SUFFICES ASSUME GaInv, StepGeneration \/ TrialGeneration \/ RunGeneration PROVE Recorded'
    OBVIOUS
<1>1. state # "crashed" /\ RunOn /\ DoGeneration /\ state' = state /\ RunOn'
          /\ ~(state' = "paused" /\ Free')
    <2>1. CASE StepGeneration
        <3>1. /\ state = "paused" /\ state' = "paused" /\ handling.generations > 1 /\ DoGeneration
              /\ handling' = [handling EXCEPT !.generations = @ - 1]
            BY <2>1 DEF StepGeneration, controlVars
        <3>2. handling \in [trials : Nat, generations : Nat]
            BY DEF GaInv, HandlingInv
        <3>3. handling'.generations = handling.generations - 1
            BY <3>1, <3>2
        <3>4. handling'.generations # 0
            BY <3>1, <3>2, <3>3
        <3> QED
            BY <3>1, <3>4 DEF RunOn, Free, NoHandling
    <2>2. CASE TrialGeneration
        <3>1. /\ state = "ready" /\ state' = "ready" /\ handling.generations > 0 /\ DoGeneration
              /\ handling' = [handling EXCEPT !.generations = @ - 1]
            BY <2>2 DEF TrialGeneration, controlVars
        <3>2. handling.trials > 0 /\ handling'.trials > 0
            BY <3>1 DEF GaInv, HandlingInv, Free, NoHandling
        <3> QED
            BY <3>1, <3>2 DEF RunOn
    <2>3. CASE RunGeneration
        <3>1. DoGeneration /\ state' = state /\ state # "crashed" /\ thread # "done"
            BY <2>3 DEF RunGeneration, Control!StepSystem, Control!Up
        <3>2. state = "running"
            BY <3>1 DEF GaInv, ControlInv
        <3> QED
            BY <3>1, <3>2 DEF RunOn
    <2> QED
        BY <2>1, <2>2, <2>3
<1>2. /\ generation' \in Nat /\ Now' \in Records /\ Consistent(db')
      /\ Sound(Now') /\ RunIsOn(Now', generation')
    BY <1>1, DoGenerationKeeps
<1> QED
    BY <1>1, <1>2 DEF Recorded, RecordInv

\* The last generation of a step command, and the pause that stores it.
LEMMA StepReturnsRecords == GaInv /\ StepReturns => Recorded'
<1> SUFFICES ASSUME GaInv, StepReturns PROVE Recorded'
    OBVIOUS
<1>1. PICK n \in 1..PopSize :
        Becomes(SerializePause(SerializeGeneration(Now, <<buffer.run, generation + 1>>, n)))
    BY DEF StepReturns
<1> DEFINE p == SerializeGeneration(Now, <<buffer.run, generation + 1>>, n)
           q == SerializePause(p)
<1>2. /\ state = "paused" /\ state' = "paused" /\ generation' = generation + 1
      /\ handling' = NoHandling
    BY DEF StepReturns, Control!Step, Control!MayEnd
<1>3. n \in Nat /\ n > 0
    BY GaAssumption
<1>4. Sound(Now) /\ RunIsOn(Now, generation) /\ generation \in Nat
    BY <1>2 DEF GaInv, Recorded, RecordInv, RunOn
<1>5. Sound(p) /\ RunIsOn(p, generation + 1)
    BY <1>3, <1>4, NowParts, GenerationKeepsSound
<1>6. Sound(q) /\ RunIsOn(q, generation + 1) /\ Drained(q)
    <2>1. generation + 1 \in Nat
        BY <1>4
    <2> HIDE DEF p
    <2> QED
        BY <1>5, <2>1, PauseKeepsSound
<1>7. Becomes(q)
    BY <1>1
<1> HIDE DEF q
<1>8. Now' = q
    BY <1>6, <1>7, BecomesNow DEF Sound
<1>9. Consistent(Now'.db) /\ Now'.db = db'
    BY <1>6, <1>8 DEF Sound, Now
<1>10. RunOn'
    BY <1>2 DEF RunOn
<1> QED
    BY <1>2, <1>4, <1>6, <1>8, <1>9, <1>10 DEF Recorded, RecordInv, Sound

\* A name is stored for a genome that is stored.
LEMMA StoreRecords == ASSUME NEW i \in 1..PopSize, GaInv, Store(i) PROVE Recorded'
<1>1. state = "paused" /\ Free /\ generation' = generation /\ buffer' = buffer /\ handling' = handling
    BY DEF Store
<1>2. Sound(Now) /\ RunIsOn(Now, generation) /\ Drained(Now) /\ generation \in Nat
    BY <1>1 DEF GaInv, Recorded, RecordInv, RunOn
<1>3. CASE state' = "crashed" /\ db' = db
    <2>1. Now' = Now
        BY <1>1, <1>3 DEF Now
    <2> QED
        BY <1>1, <1>2, <1>3, <2>1, NowParts DEF Recorded, Sound
<1>4. CASE /\ i \in DOMAIN buffer.current /\ state' = state
           /\ db' = [db EXCEPT !.named = @ \cup {buffer.current[i]}]
    <2> DEFINE gn == buffer.current[i]
    <2>1. Now \in Records /\ db \in Dbs /\ buffer.current \in Seq(Genomes) /\ buffer \in Buffers
        BY <1>2, NowParts, RecordParts DEF Sound
    <2>2. gn \in Genomes /\ gn \in Range(buffer.current)
        BY <1>4, <2>1 DEF Range
    <2>3. gn \in db.genomes
        <3>1. AllGenomes(Now) = db.genomes
            BY <1>2, NowParts, RangeEmpty DEF Drained, AllGenomes
        <3> QED
            BY <1>2, <2>2, <3>1, NowParts DEF Sound, Complete
    <2> HIDE DEF gn
    <2>4. db' = [db EXCEPT !.named = db.named \cup {gn}]
        BY <1>4 DEF gn
    <2>5. /\ db' \in Dbs /\ db'.named = db.named \cup {gn}
          /\ db'.runs = db.runs /\ db'.ended = db.ended
          /\ db'.generations = db.generations /\ db'.genomes = db.genomes
        BY <2>1, <2>2, <2>4 DEF Dbs
    <2>6. Now'.buffer = buffer /\ Now'.db = db' /\ Now' \in Records
        BY <1>1, <2>1, <2>5 DEF Now, Records
    <2>7. Consistent(db)
        BY <1>2, NowParts DEF Sound
    <2>8. Consistent(db')
        BY <2>3, <2>5, <2>7 DEF Consistent, HasGenerations
    <2>9. AllGenerations(Now') = AllGenerations(Now) /\ AllGenomes(Now') = AllGenomes(Now)
        BY <2>5, <2>6, NowParts DEF AllGenerations, AllGenomes
    <2>10. Complete(Now') /\ RunIsOn(Now', generation) /\ Drained(Now')
        BY <1>2, <2>5, <2>6, <2>9, NowParts DEF Sound, Complete, RunIsOn, Drained
    <2>11. RunOn'
        BY <1>1, <1>4 DEF RunOn
    <2> QED
        BY <1>1, <1>2, <2>6, <2>8, <2>10, <2>11 DEF Recorded, RecordInv, Sound
<1> QED
    BY <1>3, <1>4 DEF Store, controlVars

\* A trial is over, and with it the command or not.
LEMMA TrialEndsRecords == GaInv /\ TrialEnds => Recorded'
<1> SUFFICES ASSUME GaInv, TrialEnds PROVE Recorded'
    OBVIOUS
<1>1. handling.trials > 0 /\ state # "crashed" /\ state' = state
          /\ handling \in [trials : Nat, generations : Nat]
    BY DEF TrialEnds, Control!Up, controlVars, GaInv, HandlingInv
<1>2. state = "ready"
    BY <1>1 DEF GaInv, HandlingInv, Free, NoHandling
<1>3. Sound(Now) /\ RunIsOn(Now, generation) /\ generation \in Nat
    BY <1>1 DEF GaInv, Recorded, RecordInv, RunOn
<1>4. CASE /\ handling.trials > 1 /\ generation' = 0
           /\ Becomes(SerializeStart(SerializeEnd(Now)))
           /\ handling' = Trial(handling.trials - 1)
    <2> DEFINE p == SerializeEnd(Now)
               q == SerializeStart(p)
    <2>1. Sound(p) /\ RunIsOver(p)
        BY <1>3, EndKeepsSound
    <2>2. Sound(q) /\ RunIsOn(q, 0)
        <3> HIDE DEF p
        <3> QED
            BY <2>1, StartKeepsSound
    <2>3. Becomes(q)
        BY <1>4
    <2> HIDE DEF q
    <2>4. Now' = q
        BY <2>2, <2>3, BecomesNow DEF Sound
    <2>5. Consistent(Now'.db) /\ Now'.db = db'
        BY <2>2, <2>4 DEF Sound, Now
    <2>6. handling'.trials > 0
        BY <1>1, <1>4 DEF Trial
    <2> QED
        BY <1>1, <1>2, <1>4, <2>2, <2>4, <2>5, <2>6 DEF Recorded, RecordInv, RunOn, Sound
<1>5. CASE generation' = generation /\ Becomes(SerializeEnd(Now)) /\ handling' = NoHandling
    <2>1. Now' \in Records /\ Consistent(db') /\ Sound(Now') /\ RunIsOver(Now')
        BY <1>3, <1>5, EndKeeps
    <2>2. ~RunOn'
        BY <1>1, <1>2, <1>5 DEF RunOn, NoHandling
    <2> QED
        BY <1>1, <1>2, <1>3, <1>5, <2>1, <2>2 DEF Recorded, RecordInv
<1> QED
    BY <1>4, <1>5 DEF TrialEnds

\* The run thread has been joined, and the state it ran in is left.
LEMMA ReturnRecords == ASSUME NEW t \in DOMAIN leaving, GaInv, Return(t) PROVE Recorded'
<1>1. /\ state # "crashed" /\ leaving[t] # "idle" /\ handling' = handling
      /\ t \in {"session", "io"}
    BY DEF Return, Control!Return, Control!Up, GaInv, ControlInv
<1>2. state = "running" /\ Free
    BY <1>1 DEF GaInv, ControlInv, HandlingInv
<1>3. Sound(Now) /\ RunIsOn(Now, generation) /\ generation \in Nat
    BY <1>1, <1>2 DEF GaInv, Recorded, RecordInv, RunOn
<1>4. CASE leaving[t] = "not_running" /\ Becomes(SerializePause(Now)) /\ generation' = generation
    <2> DEFINE q == SerializePause(Now)
    <2>1. Sound(q) /\ RunIsOn(q, generation) /\ Drained(q)
        BY <1>3, PauseKeepsSound
    <2>2. Becomes(q)
        BY <1>4
    <2> HIDE DEF q
    <2>3. Now' = q
        BY <2>1, <2>2, BecomesNow DEF Sound
    <2>4. Consistent(Now'.db) /\ Now'.db = db'
        BY <2>1, <2>3 DEF Sound, Now
    <2>5. state' = "paused"
        BY <1>4 DEF Return, Control!Return, Control!Enter, Control!IsCompletedChoice,
                    GaInv, ControlInv
    <2> QED
        BY <1>3, <1>4, <2>1, <2>3, <2>4, <2>5 DEF Recorded, RecordInv, RunOn, Sound
<1>5. CASE leaving[t] = "active" /\ EnterActive(SerializeEnd(Now))
    <2>1. Sound(SerializeEnd(Now)) /\ RunIsOver(SerializeEnd(Now))
        BY <1>3, EndKeepsSound
    <2>2. /\ generation' \in Nat /\ Now' \in Records /\ Consistent(db')
          /\ Sound(Now') /\ RunIsOn(Now', generation') /\ Drained(Now')
        BY <1>5, <2>1, EnterActiveKeeps
    <2>3. state' = "paused"
        BY <1>5 DEF Return, Control!Return, Control!Enter
    <2> QED
        BY <2>2, <2>3 DEF Recorded, RecordInv, RunOn
<1>6. CASE leaving[t] \in {"ready", "quit"} /\ Becomes(SerializeEnd(Now)) /\ generation' = generation
    <2>1. Now' \in Records /\ Consistent(db') /\ Sound(Now') /\ RunIsOver(Now')
        BY <1>3, <1>6, EndKeeps
    <2>2. state' \in {"ready", "quit"}
        BY <1>6 DEF Return, Control!Return, Control!Enter
    <2>3. ~RunOn'
        BY <1>1, <1>2, <2>2 DEF RunOn, Free, NoHandling
    <2> QED
        BY <1>3, <1>6, <2>1, <2>2, <2>3 DEF Recorded, RecordInv
<1> QED
    BY <1>4, <1>5, <1>6 DEF Return

\* The process ends while the fittest genomes of a generation are buffered.
LEMMA CrashRecords == GaInv /\ CrashWhileRecording => Recorded'
<1> SUFFICES ASSUME GaInv, CrashWhileRecording PROVE Recorded'
    OBVIOUS
<1>1. PICK k \in 0..PopSize :
        db' = SerializeGeneration(Now, <<buffer.run, generation + 1>>, k).db
    BY DEF CrashWhileRecording
<1> DEFINE q == SerializeGeneration(Now, <<buffer.run, generation + 1>>, k)
<1>2. /\ state # "crashed" /\ state' = "crashed" /\ generation' = generation /\ buffer' = buffer
      /\ thread = "stepping" \/ handling.generations > 0
    BY DEF CrashWhileRecording, Control!Up
<1>3. RunOn
    BY <1>2 DEF RunOn, GaInv, ControlInv, HandlingInv, Free, NoHandling
<1>4. Sound(Now) /\ RunIsOn(Now, generation) /\ generation \in Nat
    BY <1>2, <1>3 DEF GaInv, Recorded, RecordInv
<1>5. k \in Nat
    BY GaAssumption
<1>6. q \in Records /\ Consistent(q.db)
    BY <1>4, <1>5, NowParts, GenerationKeepsSound
<1>7. Now' \in Records
    <2>1. buffer \in Buffers /\ q.db \in Dbs
        BY <1>4, <1>6, NowParts, RecordParts DEF Sound
    <2> QED
        BY <1>1, <1>2, <2>1 DEF Now, Records
<1> QED
    BY <1>1, <1>2, <1>4, <1>6, <1>7 DEF Recorded

-----------------------------------------------------------------------------

\* Nothing is on record at first.
LEMMA InitRecords == Init => GaInv
<1> SUFFICES ASSUME Init PROVE GaInv
    OBVIOUS
<1>1. /\ handling = NoHandling /\ generation = 0
      /\ buffer = [run |-> 0, generations |-> << >>, genomes |-> << >>, current |-> << >>]
      /\ db = [runs |-> {}, ended |-> {}, generations |-> {}, genomes |-> {}, named |-> {}]
      /\ state = "ready" /\ complete = FALSE /\ thread = "done"
      /\ leaving = [t \in {"session", "io"} |-> "idle"]
    BY DEF Init, Control!Init, Control!Handlers
<1>2. ControlInv
    BY <1>1 DEF ControlInv
<1>3. HandlingInv
    BY <1>1 DEF HandlingInv, Free, NoHandling
<1>4. Now \in Records
    <2>1. << >> \in Seq(Generations) /\ << >> \in Seq(Genomes)
        OBVIOUS
    <2>2. buffer \in Buffers
        BY <1>1, <2>1 DEF Buffers
    <2>3. db \in Dbs
        BY <1>1 DEF Dbs
    <2> QED
        BY <2>2, <2>3 DEF Now, Records
<1>5. Consistent(db)
    BY <1>1 DEF Consistent
<1>6. AllGenerations(Now) = {} /\ AllGenomes(Now) = {} /\ Range(buffer.current) = {}
    BY <1>1, RangeEmpty, NowParts DEF AllGenerations, AllGenomes
<1>7. Complete(Now)
    BY <1>1, <1>6, NowParts DEF Complete
<1>8. RunIsOver(Now) /\ Drained(Now)
    BY <1>1, NowParts DEF RunIsOver, Drained
<1>9. ~RunOn
    BY <1>1 DEF RunOn, NoHandling
<1>10. RecordInv
    BY <1>1, <1>4, <1>5, <1>7, <1>8, <1>9, NowParts DEF RecordInv, Sound
<1>11. generation \in Nat
    BY <1>1
<1> QED
    BY <1>2, <1>3, <1>4, <1>5, <1>10, <1>11 DEF GaInv, Recorded

LEMMA NextRecords == GaInv /\ [Next]_vars => GaInv'
<1> SUFFICES ASSUME GaInv, [Next]_vars PROVE GaInv'
    OBVIOUS
<1>1. ControlInv' /\ HandlingInv'
    BY NextKeepsControl DEF GaInv, ControlAndHandling
<1>2. Recorded'
    <2>1. CASE UNCHANGED vars
        <3>1. KeepRecord /\ state' = state /\ handling' = handling
            BY <2>1 DEF vars, controlVars, KeepRecord
        <3>2. RunOn' = RunOn /\ (Free' <=> Free)
            BY <3>1 DEF RunOn, Free
        <3> QED
            BY <3>1, <3>2, KeepRecordKeeps
    <2>2. CASE Next
        BY <2>2, ModifyRecords, RunRecords, StepRecords, OthersRecord, InitializeRecords,
           ResetRecords, RepeatRecords, ExitRecords, GenerationRecords, StepReturnsRecords,
           StoreRecords, TrialEndsRecords, ReturnRecords, CrashRecords DEF Next
    <2> QED
        BY <2>1, <2>2
<1> QED
    BY <1>1, <1>2 DEF GaInv

LEMMA AlwaysRecorded == Spec => []GaInv
BY InitRecords, NextRecords, PTL DEF Spec

\* Wherever the process ends, between two transactions too, the database holds a prefix
\* of each run's generations, and every genome with its generation (ga_db_serializer).
THEOREM DatabaseIsConsistent == Spec => []RecordIsConsistent
<1>1. GaInv => RecordIsConsistent
    BY DEF GaInv, Recorded, Consistent, RecordIsConsistent
<1> QED
    BY <1>1, AlwaysRecorded, PTL

\* What is stored of the last run once the buffers are drained.
LEMMA StoredOfRun ==
    ASSUME NEW c \in Nat, RunIsOn(Now, c), Drained(Now)
    PROVE  StoredOf(buffer.run) = {<<buffer.run, i>> : i \in 1..c}
<1>1. AllGenerations(Now) = db.generations
    BY NowParts, RangeEmpty DEF Drained, AllGenerations
<1> QED
    BY <1>1, NowParts DEF RunIsOn, StoredOf

\* At the prompt of a paused run its generations are stored, each with its fittest
\* genome: not_running stores them, on whichever thread it is entered.
THEOREM PausesStore == Spec => []PausedIsStored
<1>1. GaInv => PausedIsStored
    <2> SUFFICES ASSUME GaInv, state = "paused", Free
                 PROVE  /\ Cardinality(StoredOf(buffer.run)) = generation
                        /\ \A g \in StoredOf(buffer.run) : <<g[1], g[2], 1>> \in db.genomes
        BY DEF PausedIsStored
    <2>1. Sound(Now) /\ RunIsOn(Now, generation) /\ Drained(Now) /\ generation \in Nat
        BY DEF GaInv, Recorded, RecordInv, RunOn
    <2> DEFINE S == {<<buffer.run, i>> : i \in 1..generation}
    <2>2. StoredOf(buffer.run) = S
        BY <2>1, StoredOfRun
    <2>3. Cardinality(S) = generation
        <3> DEFINE f == [i \in 1..generation |-> <<buffer.run, i>>]
        <3>1. f \in Bijection(1..generation, S)
            BY DEF Bijection, Injection, Surjection, IsInjective
        <3>2. IsFiniteSet(1..generation) /\ Cardinality(1..generation) = generation
            BY <2>1, FS_Interval
        <3> HIDE DEF S, f
        <3> QED
            BY <3>1, <3>2, FS_Bijection DEF ExistsBijection
    <2>4. AllGenomes(Now) = db.genomes /\ AllGenerations(Now) = db.generations
        BY <2>1, NowParts, RangeEmpty DEF Drained, AllGenomes, AllGenerations
    <2>5. \A g \in StoredOf(buffer.run) : <<g[1], g[2], 1>> \in db.genomes
        BY <2>1, <2>4 DEF StoredOf, Sound, Complete
    <2> QED
        BY <2>2, <2>3, <2>5
<1> QED
    BY <1>1, AlwaysRecorded, PTL

\* Outside the active state every run on record has generations and its end: the
\* destructor of the active state and the repeat command see to it.
THEOREM FinishedRunsAreEnded == Spec => []FinishedRunsEnded
<1>1. GaInv => FinishedRunsEnded
    <2> SUFFICES ASSUME GaInv, state \in {"ready", "editing", "quit"}, Free
                 PROVE  db.ended = db.runs /\ \A n \in db.runs : StoredOf(n) # {}
        BY DEF FinishedRunsEnded
    <2>1. ~RunOn /\ state # "crashed"
        BY DEF RunOn, Free, NoHandling
    <2>2. Sound(Now) /\ RunIsOver(Now)
        BY <2>1 DEF GaInv, Recorded, RecordInv
    <2>3. db.runs \subseteq db.ended
        BY <2>2, NowParts DEF Sound, Complete, RunIsOver
    <2>4. db.ended \subseteq db.runs /\ \A n \in db.ended : HasGenerations(db, n)
        BY <2>2, NowParts DEF Sound, Consistent
    <2> QED
        BY <2>3, <2>4 DEF StoredOf, HasGenerations
<1> QED
    BY <1>1, AlwaysRecorded, PTL

\* A name is only ever stored for a genome that is stored (paused::on_store).
THEOREM NamesAreOfStored == Spec => []NamedIsStored
<1>1. GaInv => NamedIsStored
    BY DEF GaInv, Recorded, Consistent, NamedIsStored
<1> QED
    BY <1>1, AlwaysRecorded, PTL
=============================================================================
