--------------------------- MODULE ComponentProofs ---------------------------
(***************************************************************************)
(* Proofs about the components that MCComponents checks together, each for *)
(* every value of its constants:                                           *)
(*   - ActivationRange: the intervals of a range stay apart, and no value  *)
(*     gets lost, in whatever order they are inserted and joined           *)
(*     (RangesStayApart, NoValueLost);                                     *)
(*   - CommandInput: the position stays within the history (RecallIsRight);*)
(*   - DisplayRegistry: every display has an id of its own, although       *)
(*     next_id is counted without a lock; the points of a chart are of     *)
(*     one run, although a reset and a round clear and store them at the   *)
(*     same time; and a page that is due for nothing shows what is stored  *)
(*     (IdsAreFresh, RunsStayApart, PagesCatchUp);                         *)
(*   - Elevator: nobody is lost or counted twice, the numbers kept besides *)
(*     the lists of people are theirs, the times that are counted up agree *)
(*     with the moments that are recorded, and a button tells whether and  *)
(*     since when somebody waits (ElevatorTypeCorrect, NobodyLost,         *)
(*     OccupancyIsRight, TimesAgree, ButtonsRight, LongestWaitIsRecorded); *)
(*   - Genalg: the best fitness of a run never falls (FittestAreKept).     *)
(***************************************************************************)
EXTENDS ActivationRange, CommandInput, DisplayRegistry, Elevator, Genalg, FiniteSetLemmas, TLAPS

-----------------------------------------------------------------------------
(* Module ActivationRange *)

-----------------------------------------------------------------------------
(* Ranges *)

\* A range: a finite set of intervals that are apart.
IsRange(range) == range \subseteq Interval /\ IsFiniteSet(range) /\ Apart(range)

\* A set of intervals has a first one, ...
LEMMA FirstExists ==
    ASSUME NEW range, range \subseteq Interval, IsFiniteSet(range), range # {}
    PROVE  FirstOf(range) \in range /\ \A j \in range : FirstOf(range).upper <= j.upper
<1> DEFINE f == [i \in range |-> i.upper]
<1>1. f \in [range -> Int]
    BY DEF Interval
<1>2. \E x \in range : \A y \in range : f[x] <= f[y]
    BY <1>1, LeastExists
<1> QED
    BY <1>2 DEF FirstOf

\* ... and a last one.
LEMMA LastExists ==
    ASSUME NEW range, range \subseteq Interval, IsFiniteSet(range), range # {}
    PROVE  LastOf(range) \in range /\ \A j \in range : j.upper <= LastOf(range).upper
<1> DEFINE f == [i \in range |-> -i.upper]
<1>1. f \in [range -> Int] /\ \A i \in range : i.upper \in Int
    BY DEF Interval
<1>2. PICK x \in range : \A y \in range : f[x] <= f[y]
    BY <1>1, LeastExists
<1>3. \A y \in range : y.upper <= x.upper
    BY <1>1, <1>2
<1> QED
    BY <1>3 DEF LastOf

-----------------------------------------------------------------------------
(* insert *)

\* The hull of an interval and what it overlaps is an interval with all their values.
LEMMA HullCovers ==
    ASSUME NEW over, IsRange(over), NEW itv \in Interval
    PROVE  /\ Hull(over, itv) \in Interval
           /\ Hull(over, itv).lower <= itv.lower /\ itv.upper <= Hull(over, itv).upper
           /\ \A i \in over : Hull(over, itv).lower <= i.lower /\ i.upper <= Hull(over, itv).upper
           /\ over # {} => /\ Hull(over, itv).lower \in {FirstOf(over).lower, itv.lower}
                           /\ Hull(over, itv).upper \in {LastOf(over).upper, itv.upper}
<1>1. CASE over = {}
    BY <1>1 DEF Hull, Interval
<1>2. CASE over # {}
    <2> DEFINE first == FirstOf(over)  last == LastOf(over)  hull == Hull(over, itv)
    <2>1. /\ first \in over /\ \A j \in over : first.upper <= j.upper
          /\ last \in over /\ \A j \in over : j.upper <= last.upper
        BY <1>2, FirstExists, LastExists DEF IsRange
    <2>2. /\ \A i \in over : i.lower \in Int /\ i.upper \in Int /\ i.lower <= i.upper
          /\ itv.lower \in Int /\ itv.upper \in Int /\ itv.lower <= itv.upper
        BY DEF IsRange, Interval
    <2>3. /\ hull = [lower |-> hull.lower, upper |-> hull.upper]
          /\ hull.lower = IF first.lower < itv.lower THEN first.lower ELSE itv.lower
          /\ hull.upper = IF last.upper > itv.upper THEN last.upper ELSE itv.upper
        BY <1>2 DEF Hull, Between
    <2> HIDE DEF first, last, hull
    <2>4. \A i \in over : first.lower <= i.lower
        BY <2>1, <2>2 DEF IsRange, Apart
    <2>5. /\ hull.lower \in Int /\ hull.upper \in Int
          /\ hull.lower <= itv.lower /\ itv.upper <= hull.upper
        BY <2>1, <2>2, <2>3
    <2>6. hull.lower <= hull.upper
        BY <2>2, <2>5
    <2>7. \A i \in over : hull.lower <= i.lower /\ i.upper <= hull.upper
        BY <2>1, <2>2, <2>3, <2>4
    <2>8. hull.lower \in {first.lower, itv.lower} /\ hull.upper \in {last.upper, itv.upper}
        BY <2>3
    <2>9. hull \in Interval
        BY <2>3, <2>5, <2>6 DEF Interval
    <2> QED
        BY <2>5, <2>7, <2>8, <2>9 DEF first, last, hull
<1> QED
    BY <1>1, <1>2

\* What an interval does not overlap is apart from its hull.
LEMMA HullApart ==
    ASSUME NEW range, IsRange(range), NEW itv \in Interval,
           NEW i \in range, i \notin Overlapped(range, itv)
    PROVE  LET hull == Hull(Overlapped(range, itv), itv)
           IN i.upper < hull.lower \/ hull.upper < i.lower
<1> DEFINE over == Overlapped(range, itv)  hull == Hull(over, itv)
<1>1. over \subseteq range /\ IsRange(over)
    BY FS_Subset DEF Overlapped, IsRange, Apart
<1>2. \A j \in range : j.lower \in Int /\ j.upper \in Int /\ j.lower <= j.upper
    BY DEF IsRange, Interval
<1>3. itv.lower \in Int /\ itv.upper \in Int /\ itv.lower <= itv.upper
    BY DEF Interval
<1>4. over # {} => /\ FirstOf(over) \in over /\ hull.lower \in {FirstOf(over).lower, itv.lower}
                   /\ LastOf(over) \in over /\ hull.upper \in {LastOf(over).upper, itv.upper}
    BY <1>1, HullCovers, FirstExists, LastExists DEF IsRange
<1>5. over = {} => hull = itv
    BY DEF Hull
<1>6. \A j \in over : /\ j \in range /\ j.upper >= itv.lower
                      /\ \A k \in range : k.upper >= itv.lower /\ k.upper <= j.upper
                                              => k.lower <= itv.upper
    BY DEF Overlapped
<1>7. \A j \in range : i # j => i.upper < j.lower \/ j.upper < i.lower
    BY DEF IsRange, Apart
<1>8. \/ i.upper < itv.lower
      \/ /\ i.upper >= itv.lower
         /\ \E j \in range : j.upper >= itv.lower /\ j.upper <= i.upper /\ j.lower > itv.upper
    BY <1>2, <1>3 DEF Overlapped
<1> HIDE DEF over, hull
<1>9. CASE i.upper < itv.lower
    <2>1. \A j \in over : i.upper < j.lower
        BY <1>2, <1>3, <1>6, <1>7, <1>9
    <2> QED
        BY <1>4, <1>5, <1>9, <2>1 DEF over, hull
<1>10. CASE i.upper >= itv.lower /\ \E j \in range : /\ j.upper >= itv.lower /\ j.upper <= i.upper
                                                     /\ j.lower > itv.upper
    <2>1. PICK j \in range : j.upper >= itv.lower /\ j.upper <= i.upper /\ j.lower > itv.upper
        BY <1>10
    <2>2. i.lower > itv.upper
        BY <1>2, <1>3, <1>7, <2>1
    <2>3. \A k \in over : k.upper < i.lower
        <3> SUFFICES ASSUME NEW k \in over PROVE k.upper < i.lower
            OBVIOUS
        <3>1. k \in range /\ ~(j.upper <= k.upper)
            BY <1>2, <1>3, <1>6, <2>1
        <3>2. i # k /\ ~(i.upper < k.lower)
            BY <1>2, <2>1, <3>1
        <3> QED
            BY <1>7, <3>1, <3>2
    <2> QED
        BY <1>4, <1>5, <2>2, <2>3 DEF over, hull
<1> QED
    BY <1>8, <1>9, <1>10

\* Of two or more intervals, two neighbours are closest.
LEMMA ClosestExists ==
    ASSUME NEW range, IsRange(range), Cardinality(range) > 1
    PROVE  Closest(range) \in Neighbours(range)
<1>1. \A i \in range : i.lower \in Int /\ i.upper \in Int /\ i.lower <= i.upper
    BY DEF IsRange, Interval
<1>2. Neighbours(range) # {}
    <2> DEFINE last == LastOf(range)  rest == range \ {last}
    <2>1. range # {}
        BY FS_EmptySet
    <2>2. last \in range /\ \A j \in range : j.upper <= last.upper
        BY <2>1, LastExists DEF IsRange
    <2>3. IsFiniteSet(rest) /\ Cardinality(rest) = Cardinality(range) - 1
        BY <2>2, FS_RemoveElement DEF IsRange
    <2>4. Cardinality(range) \in Nat
        BY FS_CardinalityType DEF IsRange
    <2>5. rest # {}
        BY <2>3, <2>4, FS_EmptySet
    <2>6. LastOf(rest) \in rest /\ \A j \in rest : j.upper <= LastOf(rest).upper
        BY <2>3, <2>5, LastExists DEF IsRange
    <2> HIDE DEF last
    <2>7. LastOf(rest).upper < last.upper
        BY <1>1, <2>2, <2>6 DEF IsRange, Apart
    <2>8. \A i \in range : i.upper <= LastOf(rest).upper \/ last.upper <= i.upper
        BY <1>1, <2>2, <2>6
    <2>9. <<LastOf(rest), last>> \in Neighbours(range)
        BY <2>2, <2>6, <2>7, <2>8 DEF Neighbours
    <2> QED
        BY <2>9
<1>3. IsFiniteSet(Neighbours(range))
    <2>1. IsFiniteSet(range \X range)
        BY FS_Product DEF IsRange
    <2> QED
        BY <2>1, FS_Subset DEF Neighbours
<1> DEFINE gap == [p \in Neighbours(range) |-> Gap(p)]
<1>4. \A p \in Neighbours(range) : Gap(p) \in Int /\ p[1].upper \in Int
    BY <1>1 DEF Neighbours, Gap
<1>5. PICK p \in Neighbours(range) : \A q \in Neighbours(range) : Gap(p) <= Gap(q)
    <2>1. gap \in [Neighbours(range) -> Int]
        BY <1>4
    <2>2. \E p \in Neighbours(range) : \A q \in Neighbours(range) : gap[p] <= gap[q]
        BY <1>2, <1>3, <2>1, LeastExists
    <2> QED
        BY <2>2
<1> DEFINE tight == {q \in Neighbours(range) : Gap(q) = Gap(p)}
           end == [q \in tight |-> q[1].upper]
<1>6. IsFiniteSet(tight) /\ tight # {} /\ end \in [tight -> Int]
    BY <1>3, <1>4, FS_Subset
<1>7. PICK q \in tight : \A r \in tight : end[q] <= end[r]
    BY <1>6, LeastExists
<1>8. \A r \in Neighbours(range) : Gap(q) < Gap(r) \/ (Gap(q) = Gap(r) /\ q[1].upper <= r[1].upper)
    BY <1>4, <1>5, <1>7
<1> QED
    BY <1>7, <1>8 DEF Closest

\* Joining the closest keeps a range a range, of all its values, within the limit.
LEMMA LimitedIsRange ==
    ASSUME NEW range, IsRange(range), Cardinality(range) <= Limit + 1
    PROVE  /\ IsRange(Limited(range)) /\ Cardinality(Limited(range)) <= Limit
           /\ \A i \in range : \E j \in Limited(range) : j.lower <= i.lower /\ i.upper <= j.upper
<1>1. \A i \in range : i.lower \in Int /\ i.upper \in Int /\ i.lower <= i.upper
    BY DEF IsRange, Interval
<1>2. Cardinality(range) \in Nat /\ Limit \in Nat /\ Limit > 0
    BY FS_CardinalityType, RangeAssumption DEF IsRange
<1>3. CASE Cardinality(range) <= Limit
    BY <1>1, <1>3 DEF Limited
<1>4. CASE ~(Cardinality(range) <= Limit)
    <2> DEFINE p == Closest(range)
               rest == (range \ {p[1]}) \ {p[2]}
               joined == Between(p[1].lower, p[2].upper)
    <2>1. Cardinality(range) > 1 /\ Cardinality(range) = Limit + 1
        BY <1>2, <1>4
    <2>2. /\ p[1] \in range /\ p[2] \in range /\ p[1].upper < p[2].upper
          /\ \A i \in range : i.upper <= p[1].upper \/ p[2].upper <= i.upper
        BY <2>1, ClosestExists DEF Neighbours
    <2>3. Limited(range) = rest \cup {joined}
        BY <1>4 DEF Limited
    <2>4. joined.lower = p[1].lower /\ joined.upper = p[2].upper
        BY DEF Between
    <2>5. IsFiniteSet(range \ {p[1]}) /\ Cardinality(range \ {p[1]}) = Limit
        <3>1. IsFiniteSet(range) /\ p[1] \in range
            BY <2>2 DEF IsRange
        <3> HIDE DEF p
        <3>2. IsFiniteSet(range \ {p[1]}) /\ Cardinality(range \ {p[1]}) = Cardinality(range) - 1
            BY <3>1, FS_RemoveElement
        <3> QED
            BY <1>2, <2>1, <3>2
    <2>6. p[2] \in range \ {p[1]}
        BY <1>1, <2>2
    <2>7. IsFiniteSet(rest) /\ Cardinality(rest) = Limit - 1
        BY <1>2, <2>5, <2>6, FS_RemoveElement
    <2>8. joined \in Interval
        <3>1. p[1].lower <= p[2].upper /\ p[1].lower \in Int /\ p[2].upper \in Int
            BY <1>1, <2>2
        <3> QED
            BY <3>1 DEF Between, Interval
    <2>9. rest \subseteq range /\ p[1] \notin rest /\ p[2] \notin rest
        OBVIOUS
    <2> HIDE DEF p, rest, joined
    <2>10. IsFiniteSet(rest \cup {joined}) /\ Cardinality(rest \cup {joined}) <= Limit
        BY <1>2, <2>7, FS_AddElement
    <2>11. \A i \in rest : i.upper < joined.lower \/ joined.upper < i.lower
        <3> SUFFICES ASSUME NEW i \in rest PROVE i.upper < p[1].lower \/ p[2].upper < i.lower
            BY <2>4
        <3>1. /\ i.upper < p[1].lower \/ p[1].upper < i.lower
              /\ i.upper < p[2].lower \/ p[2].upper < i.lower
            BY <2>2, <2>9 DEF IsRange, Apart
        <3>2. i \in range
            BY <2>9
        <3> QED
            BY <1>1, <2>2, <3>1, <3>2
    <2>12. Apart(rest \cup {joined})
        BY <2>9, <2>11 DEF IsRange, Apart
    <2>13. \A i \in range : \E j \in rest \cup {joined} : j.lower <= i.lower /\ i.upper <= j.upper
        <3> SUFFICES ASSUME NEW i \in range
                     PROVE  \E j \in rest \cup {joined} : j.lower <= i.lower /\ i.upper <= j.upper
            OBVIOUS
        <3>1. CASE i \in rest
            BY <1>1, <3>1
        <3>2. CASE i \notin rest
            <4>1. i = p[1] \/ i = p[2]
                BY <3>2 DEF rest
            <4>2. p[1].lower <= p[2].lower
                BY <1>1, <2>2, <2>6 DEF IsRange, Apart
            <4>3. joined.lower <= i.lower /\ i.upper <= joined.upper
                BY <1>1, <2>2, <2>4, <4>1, <4>2
            <4> QED
                BY <4>3
        <3> QED
            BY <3>1, <3>2
    <2> QED
        BY <2>3, <2>8, <2>9, <2>10, <2>12, <2>13 DEF IsRange
<1> QED
    BY <1>3, <1>4

\* insert makes a range, within the limit, of the old values and those inserted.
LEMMA InsertedIsRange ==
    ASSUME NEW range, IsRange(range), Cardinality(range) <= Limit, NEW itv \in Interval
    PROVE  /\ IsRange(Inserted(range, itv)) /\ Cardinality(Inserted(range, itv)) <= Limit
           /\ \A v \in Int : Covers(range, v) \/ HasValue(itv, v) => Covers(Inserted(range, itv), v)
<1> DEFINE over == Overlapped(range, itv)  hull == Hull(over, itv)
           merged == (range \ over) \cup {hull}
<1>1. over \subseteq range /\ IsRange(over)
    BY FS_Subset DEF Overlapped, IsRange, Apart
<1>2. /\ hull \in Interval /\ hull.lower <= itv.lower /\ itv.upper <= hull.upper
      /\ \A i \in over : hull.lower <= i.lower /\ i.upper <= hull.upper
    BY <1>1, HullCovers
<1>3. \A i \in range \ over : i.upper < hull.lower \/ hull.upper < i.lower
    BY HullApart
<1>4. Inserted(range, itv) = Limited(merged)
    BY DEF Inserted
<1> HIDE DEF over, hull
<1>5. IsFiniteSet(range \ over) /\ Cardinality(range \ over) <= Cardinality(range)
    BY FS_Subset DEF IsRange
<1>6. /\ Cardinality(range) \in Nat /\ Cardinality(range \ over) \in Nat /\ Limit \in Nat
    BY <1>5, FS_CardinalityType, RangeAssumption DEF IsRange
<1>7. IsFiniteSet(merged) /\ Cardinality(merged) <= Limit + 1
    BY <1>5, <1>6, FS_AddElement
<1>8. IsRange(merged)
    BY <1>2, <1>3, <1>7 DEF IsRange, Apart
<1> HIDE DEF merged
<1>9. /\ IsRange(Limited(merged)) /\ Cardinality(Limited(merged)) <= Limit
      /\ \A i \in merged : \E j \in Limited(merged) : j.lower <= i.lower /\ i.upper <= j.upper
    BY <1>7, <1>8, LimitedIsRange
<1>10. \A v \in Int : Covers(range, v) \/ HasValue(itv, v) => Covers(merged, v)
    <2> SUFFICES ASSUME NEW v \in Int, Covers(range, v) \/ HasValue(itv, v) PROVE Covers(merged, v)
        OBVIOUS
    <2>1. \A i \in range : i.lower \in Int /\ i.upper \in Int
        BY DEF IsRange, Interval
    <2>2. itv.lower \in Int /\ itv.upper \in Int /\ hull.lower \in Int /\ hull.upper \in Int
        BY <1>2 DEF Interval
    <2>3. CASE HasValue(itv, v)
        BY <1>2, <2>2, <2>3 DEF merged, Covers, HasValue
    <2>4. CASE Covers(range, v)
        <3>1. PICK i \in range : i.lower <= v /\ v <= i.upper
            BY <2>4 DEF Covers, HasValue
        <3>2. CASE i \in over
            BY <1>2, <2>1, <2>2, <3>1, <3>2 DEF merged, Covers, HasValue
        <3>3. CASE i \notin over
            BY <3>1, <3>3 DEF merged, Covers, HasValue
        <3> QED
            BY <3>2, <3>3
    <2> QED
        BY <2>3, <2>4
<1>11. \A v \in Int : Covers(merged, v) => Covers(Limited(merged), v)
    <2> SUFFICES ASSUME NEW v \in Int, NEW i \in merged, i.lower <= v, v <= i.upper
                 PROVE  Covers(Limited(merged), v)
        BY DEF Covers, HasValue
    <2>1. PICK j \in Limited(merged) : j.lower <= i.lower /\ i.upper <= j.upper
        BY <1>9
    <2>2. /\ i.lower \in Int /\ i.upper \in Int /\ j.lower \in Int /\ j.upper \in Int
        BY <1>8, <1>9, <2>1 DEF IsRange, Interval
    <2>3. j.lower <= v /\ v <= j.upper
        BY <2>1, <2>2
    <2> QED
        BY <2>3 DEF Covers, HasValue
<1> QED
    BY <1>4, <1>9, <1>10, <1>11

-----------------------------------------------------------------------------
(* Scaling, adding and applying *)

\* A scaled interval has the scaled values: a negative weight swaps the bounds.
LEMMA ScaledCovers ==
    ASSUME NEW i \in Interval, NEW w \in Int
    PROVE  /\ Scaled(i, w) \in Interval
           /\ \A v \in Int : HasValue(i, v) => HasValue(Scaled(i, w), v * w)
<1>1. i.lower \in Int /\ i.upper \in Int /\ i.lower <= i.upper
    BY DEF Interval
<1>2. CASE w >= 0
    <2> DEFINE times(a) == a * w
    <2>1. \A a, b \in Int : a <= b => times(a) \in Int /\ times(b) \in Int /\ times(a) <= times(b)
        BY <1>2
    <2>2. Scaled(i, w) = [lower |-> times(i.lower), upper |-> times(i.upper)]
        BY <1>2 DEF Scaled, Between
    <2> HIDE DEF times
    <2>3. /\ Scaled(i, w) \in Interval
          /\ \A v \in Int : HasValue(i, v) => HasValue(Scaled(i, w), times(v))
        BY <1>1, <2>1, <2>2 DEF Interval, HasValue
    <2> QED
        BY <2>3 DEF times
<1>3. CASE ~(w >= 0)
    <2> DEFINE times(a) == a * w
    <2>1. \A a, b \in Int : a <= b => times(a) \in Int /\ times(b) \in Int /\ times(b) <= times(a)
        BY <1>3
    <2>2. Scaled(i, w) = [lower |-> times(i.upper), upper |-> times(i.lower)]
        BY <1>3 DEF Scaled, Between
    <2> HIDE DEF times
    <2>3. /\ Scaled(i, w) \in Interval
          /\ \A v \in Int : HasValue(i, v) => HasValue(Scaled(i, w), times(v))
        BY <1>1, <2>1, <2>2 DEF Interval, HasValue
    <2> QED
        BY <2>3 DEF times
<1> QED
    BY <1>2, <1>3

\* The sum of two intervals has the sums of their values.
LEMMA AddedCovers ==
    ASSUME NEW i \in Interval, NEW j \in Interval
    PROVE  /\ Added(i, j) \in Interval
           /\ \A u, v \in Int : HasValue(i, u) /\ HasValue(j, v) => HasValue(Added(i, j), u + v)
BY DEF Added, Between, Interval, HasValue

\* What a function makes of an interval has what it makes of the values.
LEMMA AppliedCovers ==
    ASSUME NEW fn \in ActivationFns, NEW i \in Interval, ~IsBeyond(fn, i)
    PROVE  /\ AppliedInterval(fn, i) \subseteq Interval
           /\ \A v \in Int : HasValue(i, v) => /\ Applied(fn, v) \in Int
                                               /\ Covers(AppliedInterval(fn, i), Applied(fn, v))
<1>1. i.lower \in Int /\ i.upper \in Int /\ i.lower <= i.upper
    BY DEF Interval
<1>2. fn.least \in {-1, 0} /\ fn.type \in {"Linear", "LinearBounded", "Threshold"}
    BY DEF ActivationFns
<1>3. \A v \in Int : Applied(fn, v) \in Int
    BY <1>2 DEF Applied, Clipped, Stepped
<1>4. \A v \in Int : Single(v) \in Interval /\ HasValue(Single(v), v)
    BY DEF Single, Between, Interval, HasValue
<1>5. CASE i.lower = i.upper
    <2>1. AppliedInterval(fn, i) = {Single(Applied(fn, i.lower))}
        BY <1>5 DEF AppliedInterval
    <2>2. \A v \in Int : HasValue(i, v) => v = i.lower
        BY <1>1, <1>5 DEF HasValue
    <2> QED
        BY <1>1, <1>3, <1>4, <2>1, <2>2 DEF Covers
<1>6. CASE i.lower # i.upper /\ fn.type = "Linear"
    <2>1. AppliedInterval(fn, i) = {i} /\ \A v : Applied(fn, v) = v
        BY <1>6 DEF AppliedInterval, Applied
    <2> QED
        BY <2>1 DEF Covers
<1>7. CASE i.lower # i.upper /\ fn.type = "LinearBounded"
    <2> DEFINE l == IF i.lower < fn.least THEN fn.least ELSE i.lower
               u == IF i.upper > 1 THEN 1 ELSE i.upper
    <2>1. AppliedInterval(fn, i) = {Between(l, u)} /\ \A v : Applied(fn, v) = Clipped(fn, v)
        BY <1>7 DEF AppliedInterval, Applied
    <2>2. i.lower <= 1 /\ fn.least <= i.upper
        BY <1>1, <1>2, <1>7 DEF IsBeyond
    <2>3. l \in Int /\ u \in Int /\ l <= u
        BY <1>1, <1>2, <2>2
    <2>4. Between(l, u) \in Interval
        BY <2>3 DEF Between, Interval
    <2>5. \A v \in Int : i.lower <= v /\ v <= i.upper => l <= Clipped(fn, v) /\ Clipped(fn, v) <= u
        BY <1>1, <1>2, <2>2 DEF Clipped
    <2> HIDE DEF l, u
    <2> QED
        BY <1>3, <2>1, <2>4, <2>5 DEF Covers, HasValue, Between
<1>8. CASE i.lower # i.upper /\ fn.type = "Threshold"
    <2> DEFINE a == IF i.lower <= 0 THEN fn.least ELSE 1
               b == IF i.upper > 0 THEN 1 ELSE fn.least
    <2>1. AppliedInterval(fn, i) = {Single(a), Single(b)} /\ \A v : Applied(fn, v) = Stepped(fn, v)
        BY <1>8 DEF AppliedInterval, Applied
    <2>2. a \in Int /\ b \in Int
        BY <1>2
    <2>3. \A v \in Int : HasValue(i, v) => Stepped(fn, v) \in {a, b}
        BY <1>1, <1>2 DEF Stepped, HasValue
    <2> HIDE DEF a, b
    <2> QED
        BY <1>3, <1>4, <2>1, <2>2, <2>3 DEF Covers
<1> QED
    BY <1>2, <1>5, <1>6, <1>7, <1>8

-----------------------------------------------------------------------------
(* calculate_neuron_io_ranges *)

\* A range within the limit.
IsLimited(range) == IsRange(range) /\ Cardinality(range) <= Limit

RangeType ==
    /\ IsLimited(sumRange) /\ IsLimited(built)
    /\ todo \subseteq Interval
    /\ value \in Int /\ signal \in Int

\* Where the value that is sought is, in the midst of an operation: in what is
\* built already or among the intervals yet to be inserted.
ValueKept ==
    /\ phase \in {"ready", "scaling", "done"} => Covers(sumRange, value)
    /\ phase = "scaling" => Covers(built \cup todo, signal)
    /\ phase \in {"adding", "evaluating"} => Covers(built \cup todo, value)

\* ValuesCovered is not inductive: it says nothing of a range that is being built.
RangeInv == RangeType /\ ValueKept

LEMMA EmptyIsLimited == IsLimited({})
BY FS_EmptySet, RangeAssumption DEF IsLimited, IsRange, Apart

LEMMA RangeInitInv == RangeInit => RangeInv
<1> SUFFICES ASSUME RangeInit PROVE RangeInv
    OBVIOUS
<1>1. Single(0) \in Interval /\ HasValue(Single(0), 0)
    BY DEF Single, Between, Interval, HasValue
<1>2. IsFiniteSet({Single(0)}) /\ Cardinality({Single(0)}) = 1
    BY FS_Singleton
<1>3. IsLimited({Single(0)})
    BY <1>1, <1>2, RangeAssumption DEF IsLimited, IsRange, Apart
<1> QED
    BY <1>1, <1>3, EmptyIsLimited DEF RangeInit, RangeInv, RangeType, ValueKept, Covers

\* The scaled signal is among the scaled intervals.
LEMMA AddSignalInv ==
    ASSUME RangeInv, NEW source \in SignalRanges, NEW w \in Weights, NEW v \in Signals,
           AddSignal(source, w, v)
    PROVE  RangeInv'
<1>1. source \subseteq Interval /\ w \in Int /\ v \in Int
    BY RangeAssumption DEF SignalRanges, SignalIntervals
<1>2. \A i \in source : Scaled(i, w) \in Interval
    BY <1>1, ScaledCovers
<1>3. Covers({Scaled(i, w) : i \in source}, v * w)
    BY <1>1, ScaledCovers DEF AddSignal, Covers
<1>4. v * w \in Int
    BY <1>1
<1> QED
    BY <1>2, <1>3, <1>4, EmptyIsLimited
    DEF AddSignal, Build, RangeInv, RangeType, ValueKept, Covers

\* Nothing is lost with an insertion.
LEMMA InsertInv ==
    ASSUME RangeInv, NEW itv \in todo, Insert(itv)
    PROVE  RangeInv'
<1>1. itv \in Interval /\ value \in Int /\ signal \in Int /\ IsLimited(built)
    BY DEF RangeInv, RangeType
<1>2. IsLimited(built') /\ todo' = todo \ {itv}
    BY <1>1, InsertedIsRange DEF Insert, IsLimited
<1>3. \A v \in Int : Covers(built, v) \/ HasValue(itv, v) => Covers(built', v)
    BY <1>1, InsertedIsRange DEF Insert, IsLimited
<1>4. \A v \in Int : Covers(built \cup todo, v) => Covers(built' \cup todo', v)
    BY <1>2, <1>3 DEF Covers
<1> QED
    BY <1>1, <1>2, <1>4 DEF Insert, RangeInv, RangeType, ValueKept

\* The sum with the signal is among the sums of the intervals.
LEMMA AddScaledInv ==
    ASSUME RangeInv, AddScaled
    PROVE  RangeInv'
<1>1. sumRange \subseteq Interval /\ built \subseteq Interval /\ value \in Int /\ signal \in Int
    BY DEF RangeInv, RangeType, IsLimited, IsRange
<1> DEFINE sums == {Added(i, j) : i \in sumRange, j \in built}
<1>2. sums \subseteq Interval
    BY <1>1, AddedCovers
<1>3. Covers(sumRange, value) /\ Covers(built, signal)
    BY DEF RangeInv, ValueKept, AddScaled
<1>4. PICK i \in sumRange, j \in built : HasValue(i, value) /\ HasValue(j, signal)
    BY <1>3 DEF Covers
<1>5. HasValue(Added(i, j), value + signal)
    BY <1>1, <1>4, AddedCovers
<1>6. Covers(sums, value + signal)
    BY <1>5 DEF Covers
<1>7. value + signal \in Int
    BY <1>1
<1>8. built' = {} /\ todo' = sums /\ phase' = "adding" /\ value' = value + signal
      /\ UNCHANGED <<sumRange, signal>>
    BY DEF AddScaled, Build
<1> HIDE DEF sums
<1> QED
    BY <1>1, <1>2, <1>6, <1>7, <1>8, EmptyIsLimited
    DEF RangeInv, RangeType, ValueKept, Covers

\* What the function makes of the sum is among what it makes of the intervals.
LEMMA ApplyInv ==
    ASSUME RangeInv, NEW fn \in ActivationFns, Apply(fn)
    PROVE  RangeInv'
<1>1. sumRange \subseteq Interval /\ value \in Int /\ signal \in Int
    BY DEF RangeInv, RangeType, IsLimited, IsRange
<1> DEFINE outputs == UNION {AppliedInterval(fn, i) : i \in sumRange}
<1>2. \A i \in sumRange : ~IsBeyond(fn, i)
    BY DEF Apply
<1>3. outputs \subseteq Interval
    BY <1>1, <1>2, AppliedCovers
<1>4. PICK i \in sumRange : HasValue(i, value)
    BY DEF RangeInv, ValueKept, Apply, Covers
<1>5. Applied(fn, value) \in Int /\ Covers(AppliedInterval(fn, i), Applied(fn, value))
    BY <1>1, <1>2, <1>4, AppliedCovers
<1>6. Covers(outputs, Applied(fn, value))
    BY <1>5 DEF Covers
<1>7. built' = {} /\ todo' = outputs /\ phase' = "evaluating" /\ value' = Applied(fn, value)
      /\ UNCHANGED <<sumRange, signal>>
    BY DEF Apply, Build
<1> HIDE DEF outputs
<1> QED
    BY <1>1, <1>3, <1>5, <1>6, <1>7, EmptyIsLimited
    DEF RangeInv, RangeType, ValueKept, Covers

LEMMA RangeNextInv == RangeInv /\ [RangeNext]_rangeVars => RangeInv'
<1> SUFFICES ASSUME RangeInv, [RangeNext]_rangeVars PROVE RangeInv'
    OBVIOUS
<1>1. CASE \E source \in SignalRanges, w \in Weights, v \in Signals : AddSignal(source, w, v)
    BY <1>1, AddSignalInv
<1>2. CASE \E itv \in todo : Insert(itv)
    BY <1>2, InsertInv
<1>3. CASE AddScaled
    BY <1>3, AddScaledInv
<1>4. CASE SignalAdded
    BY <1>4, EmptyIsLimited DEF SignalAdded, RangeInv, RangeType, ValueKept, Covers
<1>5. CASE Output
    BY <1>5, EmptyIsLimited DEF Output, RangeInv, RangeType, ValueKept, Covers
<1>6. CASE \E fn \in ActivationFns : Apply(fn)
    BY <1>6, ApplyInv
<1>7. CASE \E fn \in ActivationFns : ApplyBeyond(fn)
    BY <1>7 DEF ApplyBeyond, RangeInv, RangeType, ValueKept
<1>8. CASE UNCHANGED rangeVars
    BY <1>8 DEF rangeVars, RangeInv, RangeType, ValueKept
<1> QED
    BY <1>1, <1>2, <1>3, <1>4, <1>5, <1>6, <1>7, <1>8 DEF RangeNext

\* The inductive invariant holds throughout.
LEMMA RangeInvariance == RangeSpec => []RangeInv
BY RangeInitInv, RangeNextInv, PTL DEF RangeSpec

\* The intervals of a range stay apart and within the limit, as insert, which finds the
\* overlapped ones by their upper bounds alone, and limited_impl suppose.
THEOREM RangesStayApart == RangeSpec => []RangesApart
<1>1. RangeInv => RangesApart
    BY DEF RangeInv, RangeType, IsLimited, IsRange, RangesApart
<1> QED
    BY <1>1, RangeInvariance, PTL

\* Whatever the signals are, what the neuron sums up and puts out is in the range that
\* calculate_neuron_io_ranges has worked out for it.
THEOREM NoValueLost == RangeSpec => []ValuesCovered
<1>1. RangeInv => ValuesCovered
    BY DEF RangeInv, ValueKept, ValuesCovered
<1> QED
    BY <1>1, RangeInvariance, PTL

-----------------------------------------------------------------------------
(* Module CommandInput *)

HistoryType == commands \in Seq(Lines) /\ historyIndex \in Nat

\* RecallInRange with the types that its arithmetic needs.
RecallInv == HistoryType /\ RecallInRange

\* A new command comes after the position.
LEMMA DispatchInv ==
    ASSUME RecallInv, NEW c \in Lines, Dispatch(c)
    PROVE  RecallInv'
<1>1. commands \in Seq(Lines) /\ historyIndex \in Nat /\ historyIndex <= Len(commands)
    BY DEF RecallInv, HistoryType, RecallInRange
<1>2. commands' = Append(commands, c) /\ historyIndex' = historyIndex /\ line' = NoLine
    BY DEF Dispatch
<1>3. commands' \in Seq(Lines) /\ Len(commands') = Len(commands) + 1 /\ Len(commands) \in Nat
    BY <1>1, <1>2
<1> QED
    BY <1>1, <1>2, <1>3 DEF RecallInv, HistoryType, RecallInRange

\* The keys move within the history.
LEMMA KeysInv ==
    ASSUME RecallInv, KeyUp \/ KeyDown
    PROVE  RecallInv'
<1>1. /\ commands \in Seq(Lines) /\ historyIndex \in Nat /\ Len(commands) \in Nat
      /\ historyIndex <= Len(commands)
    BY DEF RecallInv, HistoryType, RecallInRange
<1>2. commands' = commands
    BY DEF KeyUp, KeyDown
<1>3. CASE KeyUp
    <2>1. historyIndex > 0 /\ historyIndex' = historyIndex - 1 /\ line' = AtPosition(historyIndex')
        BY <1>3 DEF KeyUp
    <2> QED
        BY <1>1, <1>2, <2>1 DEF RecallInv, HistoryType, RecallInRange, AtPosition
<1>4. CASE KeyDown
    <2>1. /\ historyIndex < Len(commands) /\ historyIndex' = historyIndex + 1
          /\ historyIndex' # Len(commands) => line' = AtPosition(historyIndex')
          /\ historyIndex' = Len(commands) => line' = NoLine
        BY <1>4 DEF KeyDown
    <2> QED
        BY <1>1, <1>2, <2>1 DEF RecallInv, HistoryType, RecallInRange, AtPosition
<1> QED
    BY <1>3, <1>4

\* The position never leaves the history, and what is recalled is the command there.
THEOREM RecallIsRight == InputSpec => []RecallInRange
<1>1. InputInit => RecallInv
    BY DEF InputInit, RecallInv, HistoryType, RecallInRange
<1>2. ASSUME RecallInv, [InputNext]_inputVars
      PROVE  RecallInv'
    <2>1. CASE RegisterHandler \/ UNCHANGED inputVars
        BY <1>2, <2>1
        DEF RegisterHandler, inputVars, RecallInv, HistoryType, RecallInRange, AtPosition
    <2>2. CASE \E c \in Lines : Dispatch(c)
        BY <1>2, <2>2, DispatchInv
    <2>3. CASE KeyUp \/ KeyDown
        BY <1>2, <2>3, KeysInv
    <2> QED
        BY <1>2, <2>1, <2>2, <2>3 DEF InputNext
<1>3. RecallInv => RecallInRange
    BY DEF RecallInv
<1> QED
    BY <1>1, <1>2, <1>3, PTL DEF InputSpec

-----------------------------------------------------------------------------
(* Module DisplayRegistry *)

-----------------------------------------------------------------------------
(* The inductive invariant *)

OpNames ==
    {"idle", "number", "register", "add", "clear", "post", "drawers", "stop", "exit", "renew"}
OpType == [do : OpNames, id : Nat, kind : Kinds, todo : SUBSET Nat]
ActiveType ==
    [alive : BOOLEAN, era : Nat, charts : SUBSET Nat, drawers : SUBSET Nat,
     frame : Nat, complete : BOOLEAN]
RoundType ==
    [by : {"none", "session", "runner"}, at : {"update", "lock", "store", "redraw"},
     todo : SUBSET Nat, redraw : BOOLEAN, ends : BOOLEAN]
DataType == [kind : Kinds, era : Nat, page : Nat, points : Seq(Nat), reload : BOOLEAN]

DisplayType ==
    /\ terminal \in Nat
    /\ op \in [Terminals -> OpType]
    /\ activeState \in ActiveType
    /\ round \in RoundType
    /\ nextId \in Nat \ {0}
    /\ registry \in [Registered -> DataType]

\* The ids that have been given, and who is giving one: no one but the terminal that
\* commands come from, while there is no round.
Numbering ==
    /\ \A t \in Terminals : op[t].do # "idle" => t = terminal
    /\ \A id \in Registered : id \in Nat /\ id < nextId
    /\ \A t \in Terminals :
           /\ op[t].do = "number" => op[t].id = nextId
           /\ op[t].do = "register" => op[t].id = nextId - 1 /\ op[t].id \notin Registered
           /\ op[t].do = "add" => op[t].id \in Registered /\ registry[op[t].id].points = << >>
           /\ op[t].do \in {"number", "register", "add"} => round.by = "none"

\* A round goes over the charts of the active state, a reset too.
Ranging ==
    /\ activeState.charts \subseteq Registered
    /\ IF round.by = "none" THEN round.at = "update" ELSE activeState.alive
    /\ round.at = "store" => round.todo \subseteq activeState.charts
    /\ \A t \in Terminals : op[t].do \in {"clear", "post"} => op[t].todo \subseteq Registered

\* A reset has yet to clear the chart.
Unclean(id) ==
    \E t \in Terminals : /\ op[t].do \in {"clear", "post"} /\ id \in op[t].todo
                         /\ op[t].do = "post" => op[t].id # id

Ascending(points) == \A i, j \in DOMAIN points : i < j => points[i] < points[j]

\* The round has stored the point of the present frame.
HasStored(id) == round.at = "redraw" \/ (round.at = "store" /\ id \notin round.todo)

\* The frames of a chart ascend, and those of the active state's charts end before the
\* present frame unless the round has stored that.
Framing ==
    /\ \A id \in Registered : Ascending(registry[id].points) \/ Unclean(id)
    /\ \A id \in activeState.charts :
           \/ Unclean(id)
           \/ \A i \in DOMAIN registry[id].points :
                  \/ registry[id].points[i] < activeState.frame
                  \/ registry[id].points[i] = activeState.frame /\ HasStored(id)

\* RunsNotMixed is not inductive: what may be appended to a chart depends on the frame
\* count and on how far the round is.
DisplayInv == DisplayType /\ Numbering /\ Ranging /\ Framing

-----------------------------------------------------------------------------
(* Initial states *)

LEMMA NoOpType == NoOp \in OpType /\ NoOp.do = "idle" /\ NoOp.todo = {}
BY DEF NoOp, OpType, OpNames, Kinds

LEMMA NoRoundType ==
    NoRound \in RoundType /\ NoRound.by = "none" /\ NoRound.at = "update"
BY DEF NoRound, RoundType

LEMMA InactiveType ==
    ASSUME NEW n \in Nat
    PROVE  /\ Inactive(n) \in ActiveType /\ Inactive(n).charts = {}
           /\ [Inactive(n) EXCEPT !.alive = TRUE] \in ActiveType
           /\ [Inactive(n) EXCEPT !.alive = TRUE].charts = {}
BY DEF Inactive, ActiveType

LEMMA DisplayInitInv == DisplayInit => DisplayInv
<1> SUFFICES ASSUME DisplayInit PROVE DisplayInv
    OBVIOUS
<1>1. Registered = {} /\ registry \in [Registered -> DataType]
    BY DEF DisplayInit, Registered
<1>2. \A t \in Terminals : op[t] = NoOp
    BY DEF DisplayInit
<1>3. DisplayType
    <2>1. op \in [Terminals -> OpType]
        BY NoOpType DEF DisplayInit
    <2>2. activeState \in ActiveType /\ round \in RoundType
        BY NoRoundType, InactiveType DEF DisplayInit
    <2> QED
        BY <1>1, <2>1, <2>2 DEF DisplayInit, DisplayType
<1>4. Numbering
    BY <1>1, <1>2, NoOpType DEF Numbering
<1>5. Ranging /\ Framing
    BY <1>1, <1>2, NoOpType, NoRoundType, InactiveType DEF DisplayInit, Ranging, Framing
<1> QED
    BY <1>3, <1>4, <1>5 DEF DisplayInv

-----------------------------------------------------------------------------
(* Steps that leave the invariant's variables alone *)

LEMMA KeptInv ==
    ASSUME DisplayInv, UNCHANGED <<terminal, op, activeState, round, nextId, registry>>
    PROVE  DisplayInv'
BY DEF DisplayInv, DisplayType, Numbering, Ranging, Framing, Registered, Ascending, Unclean, HasStored

\* A page that is opened is noted with the display.
LEMMA OpenPageInv ==
    ASSUME DisplayInv, NEW s \in Pages, NEW id \in 1..MaxDisplays, OpenPage(s, id)
    PROVE  DisplayInv'
<1>1. /\ id \in Registered /\ registry' = [registry EXCEPT ![id].page = s]
      /\ UNCHANGED <<terminal, op, activeState, round, nextId>>
    BY DEF OpenPage, runVars
<1>2. s \in Nat
    BY DisplayAssumption DEF Pages
<1>3. registry \in [Registered -> DataType]
    BY DEF DisplayInv, DisplayType
<1>4. Registered' = Registered /\ registry' \in [Registered -> DataType]
    BY <1>1, <1>2, <1>3 DEF Registered, DataType
<1>5. \A d \in Registered : registry'[d].points = registry[d].points
    BY <1>1, <1>3 DEF DataType
<1> QED
    BY <1>1, <1>4, <1>5
    DEF DisplayInv, DisplayType, Numbering, Ranging, Framing, Ascending, Unclean, HasStored

-----------------------------------------------------------------------------
(* Commands *)

\* The commands that only say what is to be left: a run that is on is interrupted.
LEMMA LeaveInv ==
    ASSUME DisplayInv, NEW t \in Terminals, NEW next \in {"stop", "exit", "renew"},
           Leave(t, next), t = terminal, op[t].do \in {"idle", "drawers"},
           UNCHANGED <<terminal, activeState, round, nextId, registry>>
    PROVE  DisplayInv'
<1>1. op \in [Terminals -> OpType]
    BY DEF DisplayInv, DisplayType
<1> DEFINE left == [NoOp EXCEPT !.do = next]
<1>2. op' = [op EXCEPT ![t] = left]
    BY DEF Leave
<1>3. left \in OpType /\ left.do = next
    BY DEF NoOp, OpType, OpNames, Kinds
<1> HIDE DEF left
<1>4. /\ op' \in [Terminals -> OpType] /\ op'[t].do = next
      /\ \A u \in Terminals : u # t => op'[u] = op[u]
    BY <1>1, <1>2, <1>3
<1>5. Registered' = Registered
    BY DEF Registered
<1>6. \A id : Unclean(id)' <=> Unclean(id)
    BY <1>4 DEF Unclean
<1>7. DisplayType' /\ Numbering' /\ Ranging'
    BY <1>4, <1>5 DEF DisplayInv, DisplayType, Numbering, Ranging
<1>8. Framing'
    BY <1>5, <1>6 DEF DisplayInv, Framing, Ascending, HasStored
<1> QED
    BY <1>7, <1>8 DEF DisplayInv

\* A step or a run begins between two commands.
LEMMA RunInv ==
    ASSUME DisplayInv, NEW t \in Terminals, StepCmd(t) \/ RunCmd(t)
    PROVE  DisplayInv'
<1>1. /\ op[t] = NoOp /\ t = terminal /\ round.by = "none" /\ activeState.alive
      /\ UNCHANGED <<terminal, op, activeState, nextId, registry>>
    BY DEF StepCmd, RunCmd, Accepts, MayCommand, MayRun, Paused, lockVars
<1>2. /\ round' \in RoundType /\ round'.by # "none" /\ round'.at = "update"
    <2>1. CASE StepCmd(t)
        BY <2>1 DEF StepCmd, NoRound, RoundType
    <2>2. CASE RunCmd(t)
        BY <2>2 DEF RunCmd, NoRound, RoundType
    <2> QED
        BY <2>1, <2>2
<1>3. round.at = "update"
    BY <1>1 DEF DisplayInv, Ranging
<1>4. \A u \in Terminals : op[u].do = "idle"
    BY <1>1, NoOpType DEF DisplayInv, Numbering
<1>5. Registered' = Registered
    BY <1>1 DEF Registered
<1>6. DisplayType' /\ Numbering' /\ Ranging'
    BY <1>1, <1>2, <1>4, <1>5 DEF DisplayInv, DisplayType, Numbering, Ranging
<1>7. Framing'
    BY <1>1, <1>2, <1>3, <1>5 DEF DisplayInv, Framing, Ascending, Unclean, HasStored
<1> QED
    BY <1>6, <1>7 DEF DisplayInv

\* A new active state has no charts.
LEMMA ActivateInv ==
    ASSUME DisplayInv, NEW t \in Terminals, Activate(t)
    PROVE  DisplayInv'
<1>1. activeState.era + 1 \in Nat
    BY DEF DisplayInv, DisplayType, ActiveType
<1>2. activeState' \in ActiveType /\ activeState'.charts = {}
    BY <1>1, InactiveType DEF Activate, Activated
<1>3. UNCHANGED <<terminal, op, round, nextId, registry>>
    BY DEF Activate, runVars
<1>4. Registered' = Registered
    BY <1>3 DEF Registered
<1>5. DisplayType' /\ Numbering'
    BY <1>2, <1>3, <1>4 DEF DisplayInv, DisplayType, Numbering
<1>6. Ranging'
    <2>1. round.at = "update" /\ round.by = "none"
        BY DEF Activate, DisplayInv, Ranging
    <2> QED
        BY <1>2, <1>3, <1>4, <2>1 DEF DisplayInv, Ranging
<1>7. Framing'
    BY <1>2, <1>3, <1>4 DEF DisplayInv, Framing, Ascending, Unclean
<1> QED
    BY <1>5, <1>6, <1>7 DEF DisplayInv

\* A display gets the next id.
LEMMA CreateInv ==
    ASSUME DisplayInv, NEW t \in Terminals, NEW kind \in Kinds, Create(t, kind)
    PROVE  DisplayInv'
<1>1. op \in [Terminals -> OpType] /\ nextId \in Nat \ {0}
    BY DEF DisplayInv, DisplayType
<1>2. /\ op[t] = NoOp /\ t = terminal /\ round.by = "none"
      /\ UNCHANGED <<terminal, activeState, round, nextId, registry>>
    BY DEF Create, Accepts, MayCommand, Paused, runVars
<1> DEFINE new == [NoOp EXCEPT !.do = "number", !.id = nextId, !.kind = kind]
<1>3. op' = [op EXCEPT ![t] = new]
    BY DEF Create
<1>4. new \in OpType /\ new.do = "number" /\ new.id = nextId
    BY <1>1 DEF NoOp, OpType, OpNames
<1> HIDE DEF new
<1>5. /\ op' \in [Terminals -> OpType] /\ op'[t].do = "number" /\ op'[t].id = nextId
      /\ \A u \in Terminals : u # t => op'[u] = op[u]
    BY <1>1, <1>3, <1>4
<1>6. Registered' = Registered
    BY <1>2 DEF Registered
<1>7. \A id : Unclean(id)' <=> Unclean(id)
    BY <1>2, <1>5, NoOpType DEF Unclean
<1>8. DisplayType' /\ Numbering' /\ Ranging'
    BY <1>2, <1>5, <1>6 DEF DisplayInv, DisplayType, Numbering, Ranging
<1>9. Framing'
    BY <1>2, <1>6, <1>7 DEF DisplayInv, Framing, Ascending, HasStored
<1> QED
    BY <1>8, <1>9 DEF DisplayInv

\* The id is taken.
LEMMA NumberInv ==
    ASSUME DisplayInv, NEW t \in Terminals, NumberDisplay(t)
    PROVE  DisplayInv'
<1>1. op \in [Terminals -> OpType] /\ nextId \in Nat \ {0}
    BY DEF DisplayInv, DisplayType
<1>2. /\ op[t].do = "number" /\ op[t].id = nextId /\ t = terminal /\ round.by = "none"
      /\ nextId' = nextId + 1
      /\ UNCHANGED <<terminal, activeState, round, registry>>
    BY DEF NumberDisplay, runVars, DisplayInv, Numbering
<1>3. /\ op' \in [Terminals -> OpType] /\ op'[t].do = "register" /\ op'[t].id = nextId
      /\ \A u \in Terminals : u # t => op'[u] = op[u]
    BY <1>1, <1>2 DEF NumberDisplay, OpType, OpNames
<1>4. \A u \in Terminals : u # t => op[u].do = "idle"
    BY <1>2 DEF DisplayInv, Numbering
<1>5. Registered' = Registered /\ \A id \in Registered : id \in Nat /\ id < nextId
    BY <1>2 DEF Registered, DisplayInv, Numbering
<1>6. \A id : Unclean(id)' <=> Unclean(id)
    BY <1>2, <1>3 DEF Unclean
<1>7. DisplayType'
    BY <1>1, <1>2, <1>3, <1>5 DEF DisplayInv, DisplayType
<1>8. Numbering'
    BY <1>1, <1>2, <1>3, <1>4, <1>5 DEF Numbering
<1>9. Ranging'
    BY <1>2, <1>3, <1>5 DEF DisplayInv, Ranging
<1>10. Framing'
    BY <1>2, <1>5, <1>6 DEF DisplayInv, Framing, Ascending, HasStored
<1> QED
    BY <1>7, <1>8, <1>9, <1>10 DEF DisplayInv

\* The display is there, without points.
LEMMA RegisterInv ==
    ASSUME DisplayInv, NEW t \in Terminals, RegisterDisplay(t)
    PROVE  DisplayInv'
<1>1. /\ op \in [Terminals -> OpType] /\ nextId \in Nat \ {0} /\ activeState \in ActiveType
      /\ registry \in [Registered -> DataType]
    BY DEF DisplayInv, DisplayType
<1> DEFINE id == op[t].id
<1>2. /\ op[t].do = "register" /\ id = nextId - 1 /\ id \notin Registered
      /\ t = terminal /\ round.by = "none"
      /\ UNCHANGED <<terminal, activeState, round, nextId>>
    BY DEF RegisterDisplay, runVars, DisplayInv, Numbering
<1>3. /\ op' \in [Terminals -> OpType] /\ op'[t].do = "add" /\ op'[t].id = id
      /\ \A u \in Terminals : u # t => op'[u] = op[u]
    BY <1>1 DEF RegisterDisplay, OpType, OpNames
<1>4. \A u \in Terminals : u # t => op[u].do = "idle"
    BY <1>2 DEF DisplayInv, Numbering
<1> DEFINE empty == [kind |-> op[t].kind, era |-> activeState.era, page |-> 0,
                     points |-> << >>, reload |-> FALSE]
<1>5. registry' = [i \in Registered \cup {id} |-> IF i = id THEN empty ELSE registry[i]]
    BY DEF RegisterDisplay, NewDisplay
<1>6. empty \in DataType /\ empty.points = << >>
    BY <1>1 DEF OpType, ActiveType, DataType
<1> HIDE DEF empty, id
<1>7. Registered' = Registered \cup {id}
    BY <1>5 DEF Registered
<1>8. /\ registry' \in [Registered' -> DataType] /\ registry'[id].points = << >>
      /\ \A i \in Registered : registry'[i] = registry[i]
    BY <1>1, <1>2, <1>5, <1>6, <1>7
<1>9. \A d : Unclean(d)' <=> Unclean(d)
    BY <1>2, <1>3 DEF Unclean
<1>10. DisplayType'
    BY <1>1, <1>2, <1>3, <1>8 DEF DisplayInv, DisplayType
<1>11. Numbering'
    <2>1. \A i \in Registered' : i \in Nat /\ i < nextId
        BY <1>1, <1>2, <1>7 DEF DisplayInv, Numbering
    <2> QED
        BY <1>2, <1>3, <1>4, <1>7, <1>8, <2>1 DEF Numbering
<1>12. Ranging'
    BY <1>2, <1>3, <1>4, <1>7 DEF DisplayInv, Ranging
<1>13. Framing'
    <2>1. Ascending(<< >>)
        BY DEF Ascending
    <2>2. \A i \in Registered' : Ascending(registry'[i].points) \/ Unclean(i)'
        BY <1>7, <1>8, <1>9, <2>1 DEF DisplayInv, Framing
    <2>3. activeState.charts \subseteq Registered
        BY DEF DisplayInv, Ranging
    <2> QED
        BY <1>2, <1>8, <1>9, <2>2, <2>3 DEF DisplayInv, Framing, HasStored, Ascending
<1> QED
    BY <1>10, <1>11, <1>12, <1>13 DEF DisplayInv

\* The active state has one more display, of no points.
LEMMA AddInv ==
    ASSUME DisplayInv, NEW t \in Terminals, AddDisplay(t)
    PROVE  DisplayInv'
<1>1. op \in [Terminals -> OpType] /\ activeState \in ActiveType
    BY DEF DisplayInv, DisplayType
<1> DEFINE id == op[t].id
<1>2. /\ op[t].do = "add" /\ id \in Registered /\ id \in Nat /\ registry[id].points = << >>
      /\ t = terminal /\ round.by = "none" /\ round.at = "update"
      /\ UNCHANGED <<terminal, round, nextId, registry>>
    BY DEF AddDisplay, lockVars, runVars, DisplayInv, Numbering, Ranging
<1>3. /\ op' \in [Terminals -> OpType] /\ op'[t].do = "idle"
      /\ \A u \in Terminals : u # t => op'[u] = op[u]
    BY <1>1, NoOpType DEF AddDisplay
<1>4. Registered' = Registered
    BY <1>2 DEF Registered
<1>5. \A d : Unclean(d)' <=> Unclean(d)
    BY <1>2, <1>3 DEF Unclean
<1> HIDE DEF id
<1>6. /\ activeState' \in ActiveType
      /\ activeState'.charts \subseteq activeState.charts \cup {id}
      /\ activeState'.frame = activeState.frame /\ activeState'.alive = activeState.alive
    <2>1. CASE op[t].kind = "chart"
        BY <1>1, <1>2, <2>1 DEF AddDisplay, ActiveType, id
    <2>2. CASE op[t].kind # "chart"
        BY <1>1, <1>2, <2>2 DEF AddDisplay, ActiveType, id
    <2> QED
        BY <2>1, <2>2
<1>7. DisplayType' /\ Numbering'
    BY <1>2, <1>3, <1>4, <1>6 DEF DisplayInv, DisplayType, Numbering
<1>8. Ranging'
    BY <1>2, <1>3, <1>4, <1>6 DEF DisplayInv, Ranging
<1>9. Framing'
    <2>1. \A i \in Registered' : Ascending(registry'[i].points) \/ Unclean(i)'
        BY <1>2, <1>4, <1>5 DEF DisplayInv, Framing
    <2>2. DOMAIN registry[id].points = {}
        BY <1>2
    <2>3. \A d \in activeState'.charts :
              \/ Unclean(d)'
              \/ \A i \in DOMAIN registry[d].points :
                     \/ registry[d].points[i] < activeState'.frame
                     \/ registry[d].points[i] = activeState'.frame /\ HasStored(d)
        BY <1>5, <1>6, <2>2 DEF DisplayInv, Framing
    <2> QED
        BY <1>2, <2>1, <2>3 DEF Framing, HasStored, Ascending
<1> QED
    BY <1>7, <1>8, <1>9 DEF DisplayInv

\* A reset has every chart of the active state yet to clear.
LEMMA ResetInv ==
    ASSUME DisplayInv, NEW t \in Terminals, ResetCmd(t)
    PROVE  DisplayInv'
<1>1. op \in [Terminals -> OpType] /\ activeState \in ActiveType
    BY DEF DisplayInv, DisplayType
<1>2. /\ op[t] = NoOp /\ t = terminal
      /\ UNCHANGED <<terminal, round, nextId, registry>>
    BY DEF ResetCmd, Accepts, MayCommand, runVars
<1> DEFINE new == [NoOp EXCEPT !.do = "clear", !.todo = activeState.charts]
<1>3. new \in OpType /\ new.do = "clear" /\ new.todo = activeState.charts
    BY <1>1 DEF NoOp, OpType, OpNames, ActiveType, Kinds
<1>4. op' = [op EXCEPT ![t] = new]
    BY DEF ResetCmd
<1> HIDE DEF new
<1>5. /\ op' \in [Terminals -> OpType] /\ op'[t].do = "clear" /\ op'[t].todo = activeState.charts
      /\ \A u \in Terminals : u # t => op'[u] = op[u]
    BY <1>1, <1>3, <1>4
<1>6. /\ activeState' \in ActiveType
      /\ activeState'.charts = activeState.charts /\ activeState'.alive = activeState.alive
    BY <1>1 DEF ResetCmd, ActiveType
<1>7. Registered' = Registered
    BY <1>2 DEF Registered
<1>8. DisplayType' /\ Numbering'
    BY <1>2, <1>5, <1>6, <1>7 DEF DisplayInv, DisplayType, Numbering
<1>9. Ranging'
    BY <1>2, <1>5, <1>6, <1>7 DEF DisplayInv, Ranging
<1>10. Framing'
    <2>1. \A d : Unclean(d) => Unclean(d)'
        BY <1>2, <1>5, NoOpType DEF Unclean
    <2>2. \A d \in activeState.charts : Unclean(d)'
        BY <1>5 DEF Unclean
    <2> QED
        BY <1>2, <1>6, <1>7, <2>1, <2>2 DEF DisplayInv, Framing, Ascending
<1> QED
    BY <1>8, <1>9, <1>10 DEF DisplayInv

\* A set of registered displays has a first one.
LEMMA FirstDisplay ==
    ASSUME DisplayInv, NEW S, S \subseteq Registered, S # {}
    PROVE  Min(S) \in S
<1>1. nextId \in Nat /\ \A id \in Registered : id \in Nat /\ id < nextId
    BY DEF DisplayInv, DisplayType, Numbering
<1>2. S \in SUBSET Nat /\ \A id \in S : id <= nextId
    BY <1>1
<1>3. IsFiniteSet(S)
    BY <1>1, <1>2, FS_BoundedSetOfNaturals
<1> DEFINE f == [id \in S |-> id]
<1>4. f \in [S -> Int]
    BY <1>2
<1>5. \E x \in S : \A y \in S : f[x] <= f[y]
    BY <1>3, <1>4, LeastExists
<1>6. \E x \in S : \A y \in S : x <= y
    BY <1>5
<1> QED
    BY <1>6 DEF Min

\* A chart is cleared: it has no points.
LEMMA ClearInv ==
    ASSUME DisplayInv, NEW t \in Terminals, ClearChart(t)
    PROVE  DisplayInv'
<1>1. op \in [Terminals -> OpType] /\ registry \in [Registered -> DataType]
    BY DEF DisplayInv, DisplayType
<1>2. /\ op[t].do = "clear" /\ op[t].todo # {} /\ op[t].todo \subseteq Registered
      /\ t = terminal
      /\ UNCHANGED <<terminal, activeState, round, nextId>>
    BY DEF ClearChart, runVars, DisplayInv, Numbering, Ranging
<1>3. PICK id \in op[t].todo : id = Min(op[t].todo) /\ id \in Registered /\ id \in Nat
    BY <1>2, FirstDisplay DEF DisplayInv, Numbering
<1>4. registry' = [registry EXCEPT ![id].points = << >>, ![id].reload = TRUE]
    BY <1>3 DEF ClearChart, Cleared
<1>5. op' = [op EXCEPT ![t] = [op[t] EXCEPT !.do = "post", !.id = id]]
    BY <1>3 DEF ClearChart
<1>6. [op[t] EXCEPT !.do = "post", !.id = id] \in OpType
    BY <1>1, <1>3 DEF OpType, OpNames
<1>7. /\ op' \in [Terminals -> OpType]
      /\ op'[t].do = "post" /\ op'[t].id = id /\ op'[t].todo = op[t].todo
      /\ \A u \in Terminals : u # t => op'[u] = op[u]
    BY <1>1, <1>5, <1>6 DEF OpType
<1>8. Registered' = Registered
    BY <1>4 DEF Registered
<1>9. /\ registry' \in [Registered' -> DataType] /\ registry'[id].points = << >>
      /\ \A d \in Registered : d # id => registry'[d] = registry[d]
    <2>1. [registry[id] EXCEPT !.points = << >>, !.reload = TRUE] \in DataType
        <3> DEFINE d == registry[id]
        <3>1. d \in DataType
            BY <1>1, <1>3
        <3> DEFINE no == << >>
        <3>2. no \in Seq(Nat)
            OBVIOUS
        <3> HIDE DEF d, no
        <3>3. [d EXCEPT !.points = no] \in DataType
            BY <3>1, <3>2 DEF DataType
        <3>4. [[d EXCEPT !.points = no] EXCEPT !.reload = TRUE] \in DataType
            BY <3>3 DEF DataType
        <3> QED
            BY <3>4 DEF d, no
    <2>2. registry' = [registry EXCEPT ![id] = [registry[id] EXCEPT !.points = << >>, !.reload = TRUE]]
        BY <1>1, <1>3, <1>4
    <2>3. [registry[id] EXCEPT !.points = << >>, !.reload = TRUE].points = << >>
        BY <1>1, <1>3 DEF DataType
    <2> QED
        BY <1>1, <1>3, <1>8, <2>1, <2>2, <2>3
<1>10. \A d : d # id /\ Unclean(d) => Unclean(d)'
    BY <1>2, <1>7 DEF Unclean
<1>11. \A u \in Terminals : u # t => op[u].do = "idle"
    BY <1>2 DEF DisplayInv, Numbering
<1>12. DisplayType'
    BY <1>2, <1>7, <1>9 DEF DisplayInv, DisplayType
<1>13. Numbering'
    BY <1>2, <1>7, <1>8, <1>11 DEF DisplayInv, Numbering
<1>14. Ranging'
    BY <1>2, <1>7, <1>8 DEF DisplayInv, Ranging
<1>15. Framing'
    <2>1. DOMAIN registry'[id].points = {}
        BY <1>9
    <2>2. Ascending(registry'[id].points)
        BY <2>1 DEF Ascending
    <2>3. \A d \in Registered : Ascending(registry'[d].points) \/ Unclean(d)'
        BY <1>9, <1>10, <2>2 DEF DisplayInv, Framing
    <2>4. activeState.charts \subseteq Registered
        BY DEF DisplayInv, Ranging
    <2>5. \A d \in activeState.charts :
              \/ Unclean(d)'
              \/ \A i \in DOMAIN registry'[d].points :
                     \/ registry'[d].points[i] < activeState.frame
                     \/ registry'[d].points[i] = activeState.frame /\ HasStored(d)
        BY <1>9, <1>10, <2>1, <2>4 DEF DisplayInv, Framing
    <2> QED
        BY <1>2, <1>8, <2>3, <2>5 DEF Framing, HasStored
<1> QED
    BY <1>12, <1>13, <1>14, <1>15 DEF DisplayInv

\* The page of the chart is told, ...
LEMMA PostClearedInv ==
    ASSUME DisplayInv, NEW t \in Terminals, PostCleared(t)
    PROVE  DisplayInv'
<1>1. op \in [Terminals -> OpType]
    BY DEF DisplayInv, DisplayType
<1>2. /\ op[t].do = "post" /\ t = terminal
      /\ UNCHANGED <<terminal, activeState, round, nextId, registry>>
    BY DEF PostCleared, runVars, DisplayInv, Numbering
<1>3. /\ op' \in [Terminals -> OpType]
      /\ op'[t].do = "clear" /\ op'[t].todo = op[t].todo \ {op[t].id}
      /\ \A u \in Terminals : u # t => op'[u] = op[u]
    <2> DEFINE rest == op[t].todo \ {op[t].id}
               new == [[op[t] EXCEPT !.do = "clear"] EXCEPT !.todo = rest]
    <2>1. op' = [op EXCEPT ![t] = new]
        BY <1>1 DEF PostCleared, OpType
    <2>2. op[t] \in OpType /\ rest \in SUBSET Nat
        BY <1>1 DEF OpType
    <2> HIDE DEF rest
    <2>3. new \in OpType /\ new.do = "clear" /\ new.todo = rest
        BY <2>2 DEF OpType, OpNames
    <2> HIDE DEF new
    <2> QED
        BY <1>1, <2>1, <2>3 DEF rest
<1>4. Registered' = Registered
    BY <1>2 DEF Registered
<1>5. \A d : Unclean(d)' <=> Unclean(d)
    BY <1>2, <1>3 DEF Unclean
<1>6. DisplayType' /\ Numbering' /\ Ranging'
    BY <1>2, <1>3, <1>4 DEF DisplayInv, DisplayType, Numbering, Ranging
<1>7. Framing'
    BY <1>2, <1>4, <1>5 DEF DisplayInv, Framing, Ascending, HasStored
<1> QED
    BY <1>6, <1>7 DEF DisplayInv

\* ... and when all are cleared, the pages of the drawers.
LEMMA DrawersInv ==
    ASSUME DisplayInv, NEW t \in Terminals, ChartsCleared(t) \/ PostDrawer(t)
    PROVE  DisplayInv'
<1>1. op \in [Terminals -> OpType] /\ activeState \in ActiveType
    BY DEF DisplayInv, DisplayType
<1>2. /\ op[t].do = "drawers" \/ (op[t].do = "clear" /\ op[t].todo = {})
      /\ t = terminal
      /\ UNCHANGED <<terminal, activeState, round, nextId, registry>>
    BY DEF ChartsCleared, PostDrawer, lockVars, runVars, DisplayInv, Numbering
<1>3. /\ op' \in [Terminals -> OpType] /\ op'[t].do = "drawers"
      /\ \A u \in Terminals : u # t => op'[u] = op[u]
    <2>1. CASE ChartsCleared(t)
        <3> DEFINE new == [op[t] EXCEPT !.do = "drawers", !.todo = activeState.drawers]
        <3>1. new \in OpType /\ new.do = "drawers"
            BY <1>1 DEF OpType, OpNames, ActiveType
        <3>2. op' = [op EXCEPT ![t] = new]
            BY <2>1 DEF ChartsCleared
        <3> HIDE DEF new
        <3> QED
            BY <1>1, <3>1, <3>2
    <2>2. CASE PostDrawer(t)
        <3> DEFINE rest == op[t].todo \ {Min(op[t].todo)}  new == [op[t] EXCEPT !.todo = rest]
        <3>1. rest \in SUBSET Nat /\ op[t].do = "drawers"
            BY <1>1, <2>2 DEF OpType, PostDrawer
        <3>2. op' = [op EXCEPT ![t] = new]
            BY <2>2 DEF PostDrawer
        <3> HIDE DEF rest
        <3>3. new \in OpType /\ new.do = "drawers"
            BY <1>1, <3>1 DEF OpType
        <3> HIDE DEF new
        <3> QED
            BY <1>1, <3>2, <3>3
    <2> QED
        BY <2>1, <2>2
<1>4. Registered' = Registered
    BY <1>2 DEF Registered
<1>5. \A d : Unclean(d)' <=> Unclean(d)
    BY <1>2, <1>3 DEF Unclean
<1>6. DisplayType' /\ Numbering' /\ Ranging'
    BY <1>2, <1>3, <1>4 DEF DisplayInv, DisplayType, Numbering, Ranging
<1>7. Framing'
    BY <1>2, <1>4, <1>5 DEF DisplayInv, Framing, Ascending, HasStored
<1> QED
    BY <1>6, <1>7 DEF DisplayInv

\* What the machine leaves has no charts any more.
LEMMA JoinedInv ==
    ASSUME DisplayInv, NEW t \in Terminals, Joined(t)
    PROVE  DisplayInv'
<1>1. op \in [Terminals -> OpType] /\ activeState \in ActiveType /\ activeState.era \in Nat
    BY DEF DisplayInv, DisplayType, ActiveType
<1>2. /\ op[t].do \in {"stop", "exit", "renew"} /\ t = terminal
      /\ round.by = "none" /\ round.at = "update"
      /\ UNCHANGED <<terminal, round, nextId, registry>>
    BY DEF Joined, runVars, DisplayInv, Numbering, Ranging
<1>3. /\ op' \in [Terminals -> OpType] /\ op'[t].do = "idle"
      /\ \A u \in Terminals : u # t => op'[u] = op[u]
    BY <1>1, NoOpType DEF Joined
<1>4. activeState' = activeState \/ (activeState' \in ActiveType /\ activeState'.charts = {})
    <2>1. CASE op[t].do = "stop"
        BY <2>1 DEF Joined
    <2>2. CASE op[t].do = "exit"
        BY <1>1, <2>2, InactiveType DEF Joined
    <2>3. CASE op[t].do = "renew"
        <3>1. activeState' = Activated
            BY <2>3 DEF Joined
        <3>2. activeState.era + 1 \in Nat
            BY <1>1
        <3> QED
            BY <3>1, <3>2, InactiveType DEF Activated
    <2> QED
        BY <1>2, <2>1, <2>2, <2>3
<1>5. Registered' = Registered
    BY <1>2 DEF Registered
<1>6. \A d : Unclean(d)' <=> Unclean(d)
    BY <1>2, <1>3 DEF Unclean
<1>7. DisplayType' /\ Numbering'
    BY <1>1, <1>2, <1>3, <1>4, <1>5 DEF DisplayInv, DisplayType, Numbering
<1>8. Ranging'
    BY <1>2, <1>3, <1>4, <1>5 DEF DisplayInv, Ranging
<1>9. Framing'
    BY <1>2, <1>4, <1>5, <1>6 DEF DisplayInv, Framing, Ascending, HasStored
<1> QED
    BY <1>7, <1>8, <1>9 DEF DisplayInv

-----------------------------------------------------------------------------
(* Rounds *)

\* The system is advanced, and then the charts are gone over.
LEMMA AdvanceInv ==
    ASSUME DisplayInv, AdvanceSystem \/ LockSystem
    PROVE  DisplayInv'
<1>1. round \in RoundType /\ activeState \in ActiveType
    BY DEF DisplayInv, DisplayType
<1>2. round.by # "none" /\ UNCHANGED <<terminal, op, activeState, nextId, registry>>
    BY DEF AdvanceSystem, LockSystem, DisplayInv, Ranging
<1>3. /\ round' \in RoundType /\ round'.by = round.by
      /\ \/ round'.at = "lock" /\ round.at = "update"
         \/ round'.at = "store" /\ round.at = "lock" /\ round'.todo = activeState.charts
    <2>1. CASE AdvanceSystem
        <3>1. PICK ends \in BOOLEAN : round' = [round EXCEPT !.at = "lock", !.ends = ends]
            BY <2>1 DEF AdvanceSystem
        <3> QED
            BY <1>1, <2>1, <3>1 DEF AdvanceSystem, RoundType
    <2>2. CASE LockSystem
        BY <1>1, <2>2 DEF LockSystem, RoundType, ActiveType
    <2> QED
        BY <2>1, <2>2
<1>4. Registered' = Registered
    BY <1>2 DEF Registered
<1>5. DisplayType' /\ Numbering' /\ Ranging'
    BY <1>2, <1>3, <1>4 DEF DisplayInv, DisplayType, Numbering, Ranging
<1>6. Framing'
    BY <1>2, <1>3, <1>4 DEF DisplayInv, Framing, Ascending, Unclean, HasStored
<1> QED
    BY <1>5, <1>6 DEF DisplayInv

\* A chart gets the point of the present frame.
LEMMA StoreInv ==
    ASSUME DisplayInv, StoreChart
    PROVE  DisplayInv'
<1>1. /\ round \in RoundType /\ activeState.frame \in Nat
      /\ registry \in [Registered -> DataType]
    BY DEF DisplayInv, DisplayType, ActiveType
<1>2. /\ round.at = "store" /\ round.by # "none" /\ round.todo # {}
      /\ round.todo \subseteq activeState.charts /\ activeState.charts \subseteq Registered
      /\ UNCHANGED <<terminal, op, activeState, nextId>>
    BY DEF StoreChart, DisplayInv, Ranging
<1>3. PICK id \in round.todo : id = Min(round.todo) /\ id \in activeState.charts /\ id \in Registered
    BY <1>2, FirstDisplay
<1>4. round' = [round EXCEPT !.todo = @ \ {id}]
    BY <1>3 DEF StoreChart
<1>5. registry' = [registry EXCEPT ![id].points = Append(@, activeState.frame)]
    BY <1>3 DEF StoreChart, Stored
<1>6. /\ round' \in RoundType /\ round'.by = round.by /\ round'.at = "store"
      /\ round'.todo = round.todo \ {id}
    BY <1>1, <1>2, <1>4 DEF RoundType
<1> DEFINE points == registry[id].points  more == Append(points, activeState.frame)
<1>7. points \in Seq(Nat) /\ more \in Seq(Nat)
    BY <1>1, <1>3 DEF DataType
<1>8. Registered' = Registered
    BY <1>5 DEF Registered
<1>9. /\ registry' \in [Registered' -> DataType] /\ registry'[id].points = more
      /\ \A d \in Registered : d # id => registry'[d] = registry[d]
    <2>1. registry' = [registry EXCEPT ![id] = [registry[id] EXCEPT !.points = more]]
        BY <1>3, <1>5
    <2> DEFINE d == registry[id]
    <2>2. d \in DataType
        BY <1>1, <1>3
    <2> HIDE DEF d, points, more
    <2>3. [d EXCEPT !.points = more] \in DataType /\ [d EXCEPT !.points = more].points = more
        BY <1>7, <2>2 DEF DataType
    <2> QED
        BY <1>1, <1>3, <1>8, <2>1, <2>3 DEF d
<1>10. \A d : Unclean(d)' <=> Unclean(d)
    BY <1>2 DEF Unclean
<1>11. Ascending(more) \/ Unclean(id)
    <2>1. Ascending(points) \/ Unclean(id)
        BY <1>3 DEF DisplayInv, Framing
    <2>2. Unclean(id) \/ \A i \in DOMAIN points : points[i] < activeState.frame
        BY <1>2, <1>3 DEF DisplayInv, Framing, HasStored
    <2> HIDE DEF points
    <2>3. /\ DOMAIN more = 1..(Len(points) + 1) /\ more[Len(points) + 1] = activeState.frame
          /\ \A i \in 1..Len(points) : more[i] = points[i]
          /\ DOMAIN points = 1..Len(points) /\ Len(points) \in Nat
        BY <1>1, <1>7
    <2>4. Ascending(points) /\ (\A i \in DOMAIN points : points[i] < activeState.frame)
              => Ascending(more)
        <3> HIDE DEF more
        <3> QED
            BY <2>3 DEF Ascending
    <2> QED
        BY <2>1, <2>2, <2>4
<1>12. Unclean(id) \/ \A i \in DOMAIN more : more[i] < activeState.frame \/ more[i] = activeState.frame
    <2>1. Unclean(id) \/ \A i \in DOMAIN points : points[i] < activeState.frame
        BY <1>2, <1>3 DEF DisplayInv, Framing, HasStored
    <2> HIDE DEF points
    <2>2. /\ DOMAIN more = 1..(Len(points) + 1) /\ more[Len(points) + 1] = activeState.frame
          /\ \A i \in 1..Len(points) : more[i] = points[i]
          /\ DOMAIN points = 1..Len(points) /\ Len(points) \in Nat
        BY <1>1, <1>7
    <2> HIDE DEF more
    <2> QED
        BY <2>1, <2>2
<1> HIDE DEF points, more
<1>13. DisplayType'
    BY <1>2, <1>6, <1>9 DEF DisplayInv, DisplayType
<1>14. Numbering' /\ Ranging'
    BY <1>2, <1>6, <1>8, <1>9 DEF DisplayInv, Numbering, Ranging
<1>15. Framing'
    <2>1. \A d \in Registered : Ascending(registry'[d].points) \/ Unclean(d)
        BY <1>9, <1>11 DEF DisplayInv, Framing
    <2>2. HasStored(id)' /\ \A d : HasStored(d) => HasStored(d)'
        BY <1>2, <1>6 DEF HasStored
    <2>3. ASSUME NEW d \in activeState.charts
          PROVE  \/ Unclean(d)
                 \/ \A i \in DOMAIN registry'[d].points :
                        \/ registry'[d].points[i] < activeState.frame
                        \/ registry'[d].points[i] = activeState.frame /\ HasStored(d)'
        <3>1. CASE d = id
            BY <1>9, <1>12, <2>2, <3>1
        <3>2. CASE d # id
            BY <1>2, <1>9, <2>2, <3>2 DEF DisplayInv, Framing
        <3> QED
            BY <3>1, <3>2
    <2> QED
        BY <1>2, <1>8, <1>10, <2>1, <2>3 DEF Framing
<1> QED
    BY <1>13, <1>14, <1>15 DEF DisplayInv

\* All charts have their points, and then the pages are told.
LEMMA RedrawInv ==
    ASSUME DisplayInv, UnlockSystem \/ Redraw
    PROVE  DisplayInv'
<1>1. round \in RoundType /\ activeState \in ActiveType
    BY DEF DisplayInv, DisplayType
<1>2. UNCHANGED <<terminal, op, activeState, nextId, registry>>
    BY DEF UnlockSystem, Redraw, lockVars
<1>3. round.at = "redraw" \/ (round.at = "store" /\ round.todo = {})
    BY DEF UnlockSystem, Redraw
<1>4. \E left : round' = [round EXCEPT !.at = "redraw", !.todo = left]
    <2>1. CASE UnlockSystem
        BY <2>1 DEF UnlockSystem
    <2>2. CASE Redraw
        <3>1. round.at = "redraw"
            BY <2>2 DEF Redraw
        <3> DEFINE rest == round.todo \ {Min(round.todo)}
        <3>2. round' = [round EXCEPT !.todo = rest]
            BY <2>2 DEF Redraw
        <3> HIDE DEF rest
        <3>3. [round EXCEPT !.todo = rest] = [round EXCEPT !.at = "redraw", !.todo = rest]
            BY <1>1, <3>1 DEF RoundType
        <3> QED
            BY <3>2, <3>3
    <2> QED
        BY <2>1, <2>2
<1>5. /\ round'.by = round.by /\ round'.at = "redraw"
      /\ round'.todo \in SUBSET Nat => round' \in RoundType
    <2>1. PICK left : round' = [round EXCEPT !.at = "redraw", !.todo = left]
        BY <1>4
    <2> QED
        BY <1>1, <2>1 DEF RoundType
<1>6. round'.todo \in SUBSET Nat
    <2>1. CASE UnlockSystem
        <3>1. round'.todo = IF round.redraw THEN activeState.charts \cup activeState.drawers ELSE {}
            BY <1>1, <2>1 DEF UnlockSystem, RoundType
        <3> QED
            BY <1>1, <3>1 DEF ActiveType
    <2>2. CASE Redraw
        BY <1>1, <2>2 DEF Redraw, RoundType
    <2> QED
        BY <2>1, <2>2
<1>7. Registered' = Registered
    BY <1>2 DEF Registered
<1>8. DisplayType' /\ Numbering'
    BY <1>2, <1>5, <1>6, <1>7 DEF DisplayInv, DisplayType, Numbering
<1>9. Ranging'
    <2>1. round.by # "none"
        BY <1>3 DEF DisplayInv, Ranging
    <2> QED
        BY <1>2, <1>5, <1>7, <2>1 DEF DisplayInv, Ranging
<1>10. Framing'
    BY <1>2, <1>5, <1>7 DEF DisplayInv, Framing, Ascending, Unclean, HasStored
<1> QED
    BY <1>8, <1>9, <1>10 DEF DisplayInv

\* The frame is counted: every chart ends before it.
LEMMA EndRoundInv ==
    ASSUME DisplayInv, EndRound
    PROVE  DisplayInv'
<1>1. /\ round \in RoundType /\ activeState \in ActiveType /\ activeState.frame \in Nat
      /\ registry \in [Registered -> DataType]
    BY DEF DisplayInv, DisplayType, ActiveType
<1>2. /\ round.at = "redraw" /\ round.by # "none" /\ activeState.alive
      /\ UNCHANGED <<terminal, op, nextId, registry>>
    BY DEF EndRound, lockVars, DisplayInv, Ranging
<1>3. /\ round' \in RoundType /\ round'.at = "update"
      /\ round'.by = "none" \/ round'.by = round.by
    <2>1. round' = [round EXCEPT !.at = "update"] \/ round' = NoRound
        BY DEF EndRound
    <2> QED
        BY <1>1, <2>1, NoRoundType DEF RoundType
<1>4. /\ activeState' \in ActiveType /\ activeState'.charts = activeState.charts
      /\ activeState'.alive /\ activeState'.frame = activeState.frame + 1
    <2> DEFINE complete == activeState.complete \/ round.ends
               next == activeState.frame + 1
               counted == [activeState EXCEPT !.frame = next]
    <2>1. activeState' = [counted EXCEPT !.complete = complete]
        BY <1>1 DEF EndRound, ActiveType
    <2>2. complete \in BOOLEAN /\ next \in Nat
        BY <1>1 DEF ActiveType, RoundType
    <2> HIDE DEF complete, next
    <2>3. /\ counted \in ActiveType /\ counted.frame = next
          /\ counted.charts = activeState.charts /\ counted.alive = activeState.alive
        BY <1>1, <2>2 DEF ActiveType
    <2> HIDE DEF counted
    <2>4. /\ activeState' \in ActiveType
          /\ activeState'.frame = counted.frame /\ activeState'.charts = counted.charts
        BY <2>1, <2>2, <2>3 DEF ActiveType
    <2>5. activeState'.alive = counted.alive
        BY <2>1, <2>2, <2>3 DEF ActiveType
    <2> QED
        BY <1>2, <2>3, <2>4, <2>5 DEF next
<1>5. Registered' = Registered
    BY <1>2 DEF Registered
<1>6. \A t \in Terminals : op[t].do \notin {"number", "register", "add"}
    BY <1>2 DEF DisplayInv, Numbering
<1>7. DisplayType' /\ Numbering' /\ Ranging'
    BY <1>2, <1>3, <1>4, <1>5, <1>6 DEF DisplayInv, DisplayType, Numbering, Ranging
<1>8. ASSUME NEW id \in activeState.charts
      PROVE  \/ Unclean(id)
             \/ \A i \in DOMAIN registry[id].points : registry[id].points[i] < activeState.frame + 1
    <2>1. \/ Unclean(id)
          \/ \A i \in DOMAIN registry[id].points :
                 \/ registry[id].points[i] < activeState.frame
                 \/ registry[id].points[i] = activeState.frame
        BY DEF DisplayInv, Framing
    <2>2. registry[id].points \in Seq(Nat)
        BY <1>1 DEF DisplayInv, Ranging, DataType
    <2>3. \A i \in DOMAIN registry[id].points : registry[id].points[i] \in Nat
        BY <2>2
    <2> QED
        BY <1>1, <2>1, <2>3
<1>9. Framing'
    BY <1>2, <1>4, <1>5, <1>8 DEF DisplayInv, Framing, Ascending, Unclean
<1> QED
    BY <1>7, <1>9 DEF DisplayInv

-----------------------------------------------------------------------------
(* The specification *)

\* Before the first terminal is opened no command is on.
LEMMA OpenTerminalInv ==
    ASSUME DisplayInv, OpenTerminal
    PROVE  DisplayInv'
<1>1. /\ terminal = 0 /\ terminal' = 1
      /\ UNCHANGED <<op, activeState, round, nextId, registry>>
    BY DEF OpenTerminal, runVars
<1>2. \A t \in Terminals : t # 0
    BY DisplayAssumption DEF Terminals
<1>3. \A t \in Terminals : op[t].do = "idle"
    BY <1>1, <1>2 DEF DisplayInv, Numbering
<1>4. Registered' = Registered
    BY <1>1 DEF Registered
<1>5. DisplayType' /\ Numbering' /\ Ranging'
    BY <1>1, <1>3, <1>4 DEF DisplayInv, DisplayType, Numbering, Ranging
<1>6. Framing'
    BY <1>1, <1>4 DEF DisplayInv, Framing, Ascending, Unclean, HasStored
<1> QED
    BY <1>5, <1>6 DEF DisplayInv

LEMMA CommandStartsInv ==
    ASSUME DisplayInv, NEW t \in Terminals, CommandStarts(t)
    PROVE  DisplayInv'
<1>1. CASE Activate(t)
    BY <1>1, ActivateInv
<1>2. CASE \E kind \in Kinds : Create(t, kind)
    BY <1>2, CreateInv
<1>3. CASE StepCmd(t) \/ RunCmd(t)
    BY <1>3, RunInv
<1>4. CASE StopCmd(t)
    <2>1. op[t].do = "idle" /\ t = terminal
        BY <1>4, NoOpType DEF StopCmd, Accepts, MayCommand
    <2> QED
        BY <1>4, <2>1, LeaveInv DEF StopCmd
<1>5. CASE ExitCmd(t)
    <2>1. op[t].do = "idle" /\ t = terminal
        BY <1>5, NoOpType DEF ExitCmd, Accepts, MayCommand
    <2> QED
        BY <1>5, <2>1, LeaveInv DEF ExitCmd
<1>6. CASE ResetCmd(t)
    BY <1>6, ResetInv
<1> QED
    BY <1>1, <1>2, <1>3, <1>4, <1>5, <1>6 DEF CommandStarts

LEMMA CommandGoesOnInv ==
    ASSUME DisplayInv, NEW t \in Terminals, CommandGoesOn(t)
    PROVE  DisplayInv'
<1>1. CASE NumberDisplay(t)
    BY <1>1, NumberInv
<1>2. CASE RegisterDisplay(t)
    BY <1>2, RegisterInv
<1>3. CASE AddDisplay(t)
    BY <1>3, AddInv
<1>4. CASE ClearChart(t)
    BY <1>4, ClearInv
<1>5. CASE PostCleared(t)
    BY <1>5, PostClearedInv
<1>6. CASE ChartsCleared(t) \/ PostDrawer(t)
    BY <1>6, DrawersInv
<1>7. CASE DrawersPosted(t)
    <2>1. op[t].do = "drawers"
        BY <1>7 DEF DrawersPosted
    <2>2. t = terminal
        BY <2>1 DEF DisplayInv, Numbering
    <2> QED
        BY <1>7, <2>1, <2>2, LeaveInv DEF DrawersPosted
<1>8. CASE Joined(t)
    BY <1>8, JoinedInv
<1> QED
    BY <1>1, <1>2, <1>3, <1>4, <1>5, <1>6, <1>7, <1>8 DEF CommandGoesOn

LEMMA PageEventInv ==
    ASSUME DisplayInv, NEW s \in Pages, PageEvent(s)
    PROVE  DisplayInv'
<1>1. CASE \E id \in 1..MaxDisplays : OpenPage(s, id)
    BY <1>1, OpenPageInv
<1>2. CASE ClosePage(s) \/ RunPosted(s) \/ BeginPaint(s)
    <2>1. UNCHANGED <<terminal, op, activeState, round, nextId, registry>>
        BY <1>2 DEF ClosePage, RunPosted, BeginPaint, runVars
    <2> QED
        BY <2>1, KeptInv
<1> QED
    BY <1>1, <1>2 DEF PageEvent

\* Every behaviour of the displays keeps the invariant.
THEOREM DisplayInvariance == DisplaySpec => []DisplayInv
<1>1. ASSUME DisplayInv, [DisplayNext]_displayVars
      PROVE  DisplayInv'
    <2>1. CASE OpenTerminal
        BY <1>1, <2>1, OpenTerminalInv
    <2>2. CASE \E t \in Terminals : CommandStarts(t) \/ CommandGoesOn(t)
        BY <1>1, <2>2, CommandStartsInv, CommandGoesOnInv
    <2>3. CASE RoundGoesOn
        BY <1>1, <2>3, AdvanceInv, StoreInv, RedrawInv, EndRoundInv DEF RoundGoesOn
    <2>4. CASE \E s \in Pages : PageEvent(s)
        BY <1>1, <2>4, PageEventInv
    <2>5. CASE EndPaint
        BY <1>1, <2>5, KeptInv DEF EndPaint, runVars
    <2>6. CASE UNCHANGED displayVars
        BY <1>1, <2>6, KeptInv DEF displayVars
    <2> QED
        BY <1>1, <2>1, <2>2, <2>3, <2>4, <2>5, <2>6 DEF DisplayNext
<1> QED
    BY <1>1, DisplayInitInv, PTL DEF DisplaySpec

\* The points of a chart are of one run, but while a reset has yet to clear them.
THEOREM RunsStayApart == DisplaySpec => []RunsNotMixed
<1>1. DisplayInv => RunsNotMixed
    <2> SUFFICES ASSUME DisplayInv, NEW id \in Registered
                 PROVE  \/ Ascending(registry[id].points)
                        \/ \E t \in Terminals : op[t].do \in {"clear", "post"} /\ id \in op[t].todo
        BY DEF RunsNotMixed, Ascending
    <2> QED
        BY DEF DisplayInv, Framing, Unclean
<1> QED
    BY <1>1, DisplayInvariance, PTL

\* No display gets the id of another, although next_id is counted without a lock.
THEOREM IdsAreFresh == DisplaySpec => []IdsFresh
<1>1. DisplayInv => IdsFresh
    <2> SUFFICES ASSUME DisplayInv, NEW t \in Terminals, op[t].do \in {"number", "register"}
                 PROVE  /\ op[t].id \notin Registered
                        /\ \A u \in Terminals \ {t} : op[u].do \notin {"number", "register"}
        BY DEF IdsFresh
    <2>1. nextId \in Nat
        BY DEF DisplayInv, DisplayType
    <2>2. op[t].id \notin Registered
        BY <2>1 DEF DisplayInv, Numbering
    <2>3. \A u \in Terminals \ {t} : op[u].do = "idle"
        BY DEF DisplayInv, Numbering
    <2> QED
        BY <2>2, <2>3
<1> QED
    BY <1>1, DisplayInvariance, PTL

-----------------------------------------------------------------------------
(* What the pages show *)

PageType == [id : Nat, open : BOOLEAN, rows : Seq(Nat), pending : Nat, dirty : BOOLEAN]

\* The update of a chart's page is on its way to that very page.
Due(id) ==
    \/ pages[registry[id].page].pending > 0
    \/ \E t \in Terminals : op[t].do = "post" /\ op[t].id = id

\* What an open page of a chart shows.  Once cleared, a chart always has its rows reloaded.
Showing(id) ==
    LET d == registry[id]
        shown == IsPrefix(pages[d.page].rows, d.points)
    IN d.kind = "chart" /\ d.page # 0 /\ pages[d.page].open =>
           (shown \/ Due(id)) /\ (shown \/ d.reload)

\* The pages of the registry and those of the browser name each other.
Paging ==
    /\ pages \in [Pages -> PageType]
    /\ \A id \in Registered : id # 0
    /\ \A t \in Terminals : op[t].do \in {"number", "register"} => op[t].id # 0
    /\ \A id \in Registered :
           registry[id].page # 0 => registry[id].page \in Pages /\ pages[registry[id].page].id = id
    /\ \A s \in Pages :
           /\ pages[s].open \/ pages[s].pending > 0 => pages[s].id # 0
           /\ pages[s].id # 0 => pages[s].id \in Registered /\ registry[pages[s].id].page # 0

\* ShownIsStored is not inductive: an update on its way to a page that was closed or
\* replaced helps nobody.
ShownInv == Paging /\ \A id \in Registered : Showing(id)

LEMMA PrefixMeans ==
    ASSUME NEW r \in Seq(Nat), NEW p \in Seq(Nat)
    PROVE  IsPrefix(r, p) <=> Len(r) <= Len(p) /\ \A i \in 1..Len(r) : r[i] = p[i]
<1>1. IsPrefix(r, p) <=> Len(r) <= Len(p) /\ SubSeq(r, 1, Len(r)) = SubSeq(p, 1, Len(r))
    BY DEF IsPrefix
<1>2. SubSeq(r, 1, Len(r)) = r
    OBVIOUS
<1>3. ASSUME Len(r) <= Len(p)
      PROVE  /\ SubSeq(p, 1, Len(r)) \in Seq(Nat) /\ Len(SubSeq(p, 1, Len(r))) = Len(r)
             /\ \A i \in 1..Len(r) : SubSeq(p, 1, Len(r))[i] = p[i]
    BY <1>3
<1>4. ASSUME NEW q \in Seq(Nat), Len(q) = Len(r)
      PROVE  r = q <=> \A i \in 1..Len(r) : r[i] = q[i]
    <2>1. r = [i \in 1..Len(r) |-> r[i]] /\ q = [i \in 1..Len(q) |-> q[i]]
        OBVIOUS
    <2> QED
        BY <1>4, <2>1, Zenon
<1>5. CASE Len(r) <= Len(p)
    <2> DEFINE q == SubSeq(p, 1, Len(r))
    <2>1. q \in Seq(Nat) /\ Len(q) = Len(r) /\ \A i \in 1..Len(r) : q[i] = p[i]
        BY <1>3, <1>5
    <2>2. IsPrefix(r, p) <=> r = q
        BY <1>1, <1>2, <1>5
    <2> HIDE DEF q
    <2>3. r = q <=> \A i \in 1..Len(r) : r[i] = q[i]
        BY <1>4, <2>1
    <2> QED
        BY <1>5, <2>1, <2>2, <2>3
<1>6. CASE ~(Len(r) <= Len(p))
    BY <1>1, <1>6
<1> QED
    BY <1>5, <1>6

\* A page that shows an initial part still does when a point is added, and when it is
\* updated; one that is to be reloaded shows everything after an update.
LEMMA PrefixOfMore ==
    ASSUME NEW r \in Seq(Nat), NEW p \in Seq(Nat), NEW x \in Nat, IsPrefix(r, p)
    PROVE  IsPrefix(r, Append(p, x))
<1>1. Append(p, x) \in Seq(Nat) /\ Len(Append(p, x)) = Len(p) + 1
      /\ \A i \in 1..Len(p) : Append(p, x)[i] = p[i]
    OBVIOUS
<1>2. Len(r) <= Len(p) /\ \A i \in 1..Len(r) : r[i] = p[i]
    BY PrefixMeans
<1>3. Len(r) \in Nat /\ Len(p) \in Nat
    OBVIOUS
<1> HIDE DEF IsPrefix
<1>4. Len(r) <= Len(Append(p, x)) /\ \A i \in 1..Len(r) : r[i] = Append(p, x)[i]
    BY <1>1, <1>2, <1>3
<1> QED
    BY <1>1, <1>4, PrefixMeans

LEMMA NothingIsPrefix == ASSUME NEW p \in Seq(Nat) PROVE IsPrefix(<< >>, p)
<1> DEFINE e == << >>
<1>1. e \in Seq(Nat) /\ Len(e) = 0 /\ Len(p) \in Nat
    OBVIOUS
<1> HIDE DEF e
<1>2. Len(e) <= Len(p) /\ \A i \in 1..Len(e) : e[i] = p[i]
    BY <1>1
<1>3. IsPrefix(e, p)
    BY <1>1, <1>2, PrefixMeans
<1> QED
    BY <1>3 DEF e

LEMMA UpdatedIsPrefix ==
    ASSUME NEW r \in Seq(Nat), NEW d \in DataType, IsPrefix(r, d.points) \/ d.reload
    PROVE  Rows(r, d) \in Seq(Nat) /\ IsPrefix(Rows(r, d), d.points)
<1> DEFINE p == d.points  e == IF d.reload THEN << >> ELSE r
           more == SubSeq(p, Len(e) + 1, Len(p))
<1>1. p \in Seq(Nat) /\ d.reload \in BOOLEAN
    BY DEF DataType
<1>2. e \in Seq(Nat)
    OBVIOUS
<1>3. IsPrefix(e, p)
    BY <1>1, NothingIsPrefix
<1>4. Rows(r, d) = e \o more
    BY DEF Rows
<1> HIDE DEF e, p
<1>5. Len(e) <= Len(p) /\ \A i \in 1..Len(e) : e[i] = p[i]
    BY <1>1, <1>2, <1>3, PrefixMeans
<1>6. /\ more \in Seq(Nat) /\ Len(more) = Len(p) - Len(e)
      /\ \A i \in 1..Len(more) : more[i] = p[Len(e) + i]
    BY <1>1, <1>2, <1>5
<1> HIDE DEF more
<1>7. e \o more \in Seq(Nat) /\ Len(e \o more) = Len(p)
    BY <1>1, <1>2, <1>5, <1>6
<1>8. \A i \in 1..Len(p) : (e \o more)[i] = p[i]
    <2> SUFFICES ASSUME NEW i \in 1..Len(p) PROVE (e \o more)[i] = p[i]
        OBVIOUS
    <2>1. CASE i <= Len(e)
        BY <1>1, <1>2, <1>5, <1>6, <2>1
    <2>2. CASE i > Len(e)
        <3>1. (e \o more)[i] = more[i - Len(e)]
            BY <1>1, <1>2, <1>6, <2>2
        <3>2. i - Len(e) \in 1..Len(more) /\ Len(e) + (i - Len(e)) = i
            BY <1>1, <1>2, <1>6, <2>2
        <3> QED
            BY <1>6, <3>1, <3>2
    <2>3. i \in Nat /\ Len(e) \in Nat
        BY <1>2
    <2>4. i <= Len(e) \/ i > Len(e)
        BY <2>3
    <2> QED
        BY <2>1, <2>2, <2>4
<1> DEFINE upd == e \o more
<1>9. upd \in Seq(Nat) /\ Len(upd) = Len(p) /\ \A i \in 1..Len(p) : upd[i] = p[i]
    BY <1>7, <1>8
<1>10. Rows(r, d) = upd
    BY <1>4
<1> HIDE DEF upd
<1>11. Len(upd) <= Len(p) /\ \A i \in 1..Len(upd) : upd[i] = p[i]
    BY <1>1, <1>9
<1>12. IsPrefix(upd, p)
    BY <1>1, <1>9, <1>11, PrefixMeans
<1> QED
    BY <1>9, <1>10, <1>12 DEF p

\* update_display touches nothing but what an open page has yet to run.
LEMMA PostedFacts ==
    ASSUME pages \in [Pages -> PageType], NEW id
    PROVE  /\ Posted(id) \in [Pages -> PageType]
           /\ \A s \in Pages :
                  /\ Posted(id)[s].id = pages[s].id /\ Posted(id)[s].open = pages[s].open
                  /\ Posted(id)[s].rows = pages[s].rows
                  /\ pages[s].pending > 0 => Posted(id)[s].pending > 0
                  /\ Posted(id)[s].pending > 0 => pages[s].pending > 0 \/ pages[s].open
                  /\ s = registry[id].page /\ pages[s].open => Posted(id)[s].pending > 0
<1>1. ASSUME NEW s \in Pages
      PROVE  /\ Posted(id)[s] \in PageType
             /\ Posted(id)[s].id = pages[s].id /\ Posted(id)[s].open = pages[s].open
             /\ Posted(id)[s].rows = pages[s].rows
             /\ pages[s].pending > 0 => Posted(id)[s].pending > 0
             /\ Posted(id)[s].pending > 0 => pages[s].pending > 0 \/ pages[s].open
             /\ s = registry[id].page /\ pages[s].open => Posted(id)[s].pending > 0
    <2>1. pages[s] \in PageType
        OBVIOUS
    <2>2. CASE s = registry[id].page /\ pages[s].open
        <3> DEFINE p == pages[s]  m == p.pending + 1  q == [p EXCEPT !.pending = m]
        <3>1. Posted(id)[s] = q
            BY <2>2 DEF Posted
        <3>2. p \in PageType /\ m \in Nat /\ m > 0
            BY <2>1 DEF PageType
        <3> HIDE DEF p, m
        <3>3. q \in PageType /\ q.pending = m
            BY <3>2 DEF PageType
        <3>4. q.id = p.id /\ q.open = p.open /\ q.rows = p.rows /\ q.pending > 0
            BY <3>2, <3>3 DEF PageType
        <3> HIDE DEF q
        <3> QED
            BY <2>2, <3>1, <3>3, <3>4 DEF p
    <2>3. CASE ~(s = registry[id].page /\ pages[s].open)
        <3>1. Posted(id)[s] = pages[s]
            BY <2>3 DEF Posted
        <3> QED
            BY <2>1, <2>3, <3>1
    <2> QED
        BY <2>2, <2>3
<1>2. Posted(id) \in [Pages -> PageType]
    <2>1. Posted(id) = [s \in Pages |-> Posted(id)[s]]
        BY DEF Posted
    <2> QED
        BY <1>1, <2>1
<1> QED
    BY <1>1, <1>2

\* A step that shows nothing else and keeps the updates on their way, or takes them to
\* where they go, keeps the invariant.
LEMMA ShownKept ==
    ASSUME ShownInv, registry' = registry, pages' \in [Pages -> PageType],
           \A s \in Pages : /\ pages'[s].id = pages[s].id /\ pages'[s].open = pages[s].open
                            /\ pages'[s].rows = pages[s].rows
                            /\ pages[s].pending > 0 => pages'[s].pending > 0
                            /\ pages'[s].pending > 0 => pages[s].pending > 0 \/ pages[s].open,
           \A t \in Terminals : op'[t].do \in {"number", "register"} => op'[t].id # 0,
           \A t \in Terminals : op[t].do = "post" =>
               \/ op'[t] = op[t]
               \/ LET w == registry[op[t].id].page
                  IN w \in Pages /\ pages[w].open => pages'[w].pending > 0
    PROVE  ShownInv'
<1>1. Registered' = Registered
    BY DEF Registered
<1>2. Paging'
    BY <1>1 DEF ShownInv, Paging
<1>3. ASSUME NEW id \in Registered, Showing(id) PROVE Showing(id)'
    <2> DEFINE d == registry[id]  w == d.page
    <2>1. registry'[id] = d
        OBVIOUS
    <2>2. CASE d.kind = "chart" /\ w # 0 /\ pages'[w].open
        <3>1. w \in Pages
            BY <2>2 DEF ShownInv, Paging
        <3>2. /\ pages[w].open /\ pages'[w].rows = pages[w].rows
              /\ pages[w].pending > 0 => pages'[w].pending > 0
            BY <2>2, <3>1
        <3>3. Due(id) => Due(id)'
            <4>1. CASE pages[w].pending > 0
                BY <2>1, <3>2, <4>1 DEF Due
            <4>2. ASSUME NEW t \in Terminals, op[t].do = "post" /\ op[t].id = id
                  PROVE  Due(id)'
                BY <2>1, <3>1, <3>2, <4>2 DEF Due
            <4> QED
                BY <4>1, <4>2 DEF Due
        <3>4. IsPrefix(pages[w].rows, d.points) \/ Due(id)
            BY <1>3, <2>2, <3>2 DEF Showing
        <3>5. IsPrefix(pages[w].rows, d.points) \/ d.reload
            BY <1>3, <2>2, <3>2 DEF Showing
        <3> QED
            BY <2>1, <3>2, <3>3, <3>4, <3>5 DEF Showing
    <2>3. CASE ~(d.kind = "chart" /\ w # 0 /\ pages'[w].open)
        BY <2>1, <2>3 DEF Showing
    <2> QED
        BY <2>2, <2>3
<1>4. \A id \in Registered : Showing(id)'
    BY <1>3 DEF ShownInv
<1> QED
    BY <1>1, <1>2, <1>4 DEF ShownInv

\* A command that is not just posting for a cleared chart, and may post for something else.
LEMMA CommandShown ==
    ASSUME ShownInv, registry' = registry, pages' = pages \/ \E id : pages' = Posted(id),
           NEW t \in Terminals, \A u \in Terminals \ {t} : op'[u] = op[u], op[t].do # "post",
           op'[t].do \in {"number", "register"} => op'[t].id # 0
    PROVE  ShownInv'
<1>1. pages \in [Pages -> PageType]
    BY DEF ShownInv, Paging
<1>2. /\ pages' \in [Pages -> PageType]
      /\ \A s \in Pages : /\ pages'[s].id = pages[s].id /\ pages'[s].open = pages[s].open
                          /\ pages'[s].rows = pages[s].rows
                          /\ pages[s].pending > 0 => pages'[s].pending > 0
                          /\ pages'[s].pending > 0 => pages[s].pending > 0 \/ pages[s].open
    <2>1. CASE pages' = pages
        BY <1>1, <2>1
    <2>2. ASSUME NEW id, pages' = Posted(id)
          PROVE  /\ pages' \in [Pages -> PageType]
                 /\ \A s \in Pages : /\ pages'[s].id = pages[s].id /\ pages'[s].open = pages[s].open
                                     /\ pages'[s].rows = pages[s].rows
                                     /\ pages[s].pending > 0 => pages'[s].pending > 0
                                     /\ pages'[s].pending > 0 => pages[s].pending > 0 \/ pages[s].open
        BY <1>1, <2>2, PostedFacts
    <2> QED
        BY <2>1, <2>2
<1>3. \A u \in Terminals : op'[u].do \in {"number", "register"} => op'[u].id # 0
    BY DEF ShownInv, Paging
<1>4. \A u \in Terminals : op[u].do = "post" => op'[u] = op[u]
    OBVIOUS
<1> QED
    BY <1>2, <1>3, <1>4, ShownKept

\* The round posts, or does what pages do not show.
LEMMA RoundShown ==
    ASSUME ShownInv, UNCHANGED <<op, registry>>, pages' = pages \/ \E id : pages' = Posted(id)
    PROVE  ShownInv'
<1>1. pages \in [Pages -> PageType]
    BY DEF ShownInv, Paging
<1>2. /\ pages' \in [Pages -> PageType]
      /\ \A s \in Pages : /\ pages'[s].id = pages[s].id /\ pages'[s].open = pages[s].open
                          /\ pages'[s].rows = pages[s].rows
                          /\ pages[s].pending > 0 => pages'[s].pending > 0
                          /\ pages'[s].pending > 0 => pages[s].pending > 0 \/ pages[s].open
    <2>1. CASE pages' = pages
        BY <1>1, <2>1
    <2>2. ASSUME NEW id, pages' = Posted(id)
          PROVE  /\ pages' \in [Pages -> PageType]
                 /\ \A s \in Pages : /\ pages'[s].id = pages[s].id /\ pages'[s].open = pages[s].open
                                     /\ pages'[s].rows = pages[s].rows
                                     /\ pages[s].pending > 0 => pages'[s].pending > 0
                                     /\ pages'[s].pending > 0 => pages[s].pending > 0 \/ pages[s].open
        BY <1>1, <2>2, PostedFacts
    <2> QED
        BY <2>1, <2>2
<1>3. \A u \in Terminals : op'[u].do \in {"number", "register"} => op'[u].id # 0
    BY DEF ShownInv, Paging
<1>4. \A u \in Terminals : op[u].do = "post" => op'[u] = op[u]
    OBVIOUS
<1> QED
    BY <1>2, <1>3, <1>4, ShownKept

LEMMA CommandStartsShown ==
    ASSUME DisplayInv, ShownInv, NEW t \in Terminals, CommandStarts(t)
    PROVE  ShownInv'
<1>1. op \in [Terminals -> OpType] /\ nextId # 0
    BY DEF DisplayInv, DisplayType
<1>2. op[t] = NoOp /\ registry' = registry /\ pages' = pages
    BY DEF CommandStarts, Activate, Create, StepCmd, RunCmd, StopCmd, ExitCmd, ResetCmd, Accepts
<1>3. /\ \A u \in Terminals \ {t} : op'[u] = op[u]
      /\ op'[t].do \in {"number", "register"} => op'[t].id # 0
    <2>1. CASE Activate(t) \/ StepCmd(t) \/ RunCmd(t)
        BY <1>2, <2>1, NoOpType DEF Activate, StepCmd, RunCmd
    <2>2. ASSUME NEW kind \in Kinds, Create(t, kind)
          PROVE  /\ \A u \in Terminals \ {t} : op'[u] = op[u]
                 /\ op'[t].do \in {"number", "register"} => op'[t].id # 0
        BY <1>1, <2>2 DEF Create, NoOp
    <2>3. CASE StopCmd(t) \/ ExitCmd(t)
        BY <1>1, <2>3 DEF StopCmd, ExitCmd, Leave, NoOp
    <2>4. CASE ResetCmd(t)
        BY <1>1, <2>4 DEF ResetCmd, NoOp
    <2> QED
        BY <2>1, <2>2, <2>3, <2>4 DEF CommandStarts
<1>4. op[t].do # "post"
    BY <1>2, NoOpType
<1> QED
    BY <1>2, <1>3, <1>4, CommandShown

\* A display that is registered has no page yet.
LEMMA RegisterShown ==
    ASSUME DisplayInv, ShownInv, NEW t \in Terminals, RegisterDisplay(t)
    PROVE  ShownInv'
<1> PICK id : id = op[t].id
    OBVIOUS
<1>1. /\ op \in [Terminals -> OpType]
      /\ id \notin Registered /\ id # 0 /\ op[t].do = "register" /\ pages' = pages
    BY DEF RegisterDisplay, DisplayInv, DisplayType, Numbering, ShownInv, Paging
<1>2. op'[t].do = "add" /\ \A u \in Terminals \ {t} : op'[u] = op[u]
    BY <1>1 DEF RegisterDisplay, OpType
<1>3. /\ Registered' = Registered \cup {id} /\ registry'[id].page = 0
      /\ \A i \in Registered : registry'[i] = registry[i]
    BY <1>1 DEF RegisterDisplay, NewDisplay, Registered
<1>4. Paging'
    <2>1. \A i \in Registered' : i # 0
        BY <1>1, <1>3 DEF ShownInv, Paging
    <2>2. \A u \in Terminals : op'[u].do \in {"number", "register"} => op'[u].id # 0
        BY <1>2 DEF ShownInv, Paging
    <2>3. \A i \in Registered' : registry'[i].page # 0 =>
              registry'[i].page \in Pages /\ pages'[registry'[i].page].id = i
        BY <1>1, <1>3 DEF ShownInv, Paging
    <2>4. \A s \in Pages :
              /\ pages'[s].open \/ pages'[s].pending > 0 => pages'[s].id # 0
              /\ pages'[s].id # 0 => pages'[s].id \in Registered' /\ registry'[pages'[s].id].page # 0
        BY <1>1, <1>3 DEF ShownInv, Paging
    <2>5. pages' \in [Pages -> PageType]
        BY <1>1 DEF ShownInv, Paging
    <2> QED
        BY <2>1, <2>2, <2>3, <2>4, <2>5 DEF Paging
<1>5. Showing(id)'
    BY <1>3 DEF Showing
<1>6. ASSUME NEW i \in Registered PROVE Showing(i)'
    <2>1. Due(i) => Due(i)'
        BY <1>1, <1>2, <1>3, <1>6 DEF Due
    <2>2. Showing(i)
        BY DEF ShownInv
    <2> QED
        BY <1>1, <1>3, <2>1, <2>2 DEF Showing
<1> QED
    BY <1>3, <1>4, <1>5, <1>6 DEF ShownInv

\* A step that changes the points of a chart and leaves its page: what the page shows
\* stays an initial part, or the chart is to be reloaded and an update is due.
LEMMA PointsShown ==
    ASSUME DisplayInv, ShownInv, NEW id \in Registered, pages' = pages,
           Registered' = Registered, \A i \in Registered \ {id} : registry'[i] = registry[i],
           registry'[id].page = registry[id].page, registry'[id].kind = registry[id].kind,
           registry[id].reload => registry'[id].reload,
           \A t \in Terminals : op[t].do = "post" => op'[t] = op[t],
           \A t \in Terminals : op'[t].do \in {"number", "register"} => op'[t].id # 0,
           \/ \A r \in Seq(Nat) : IsPrefix(r, registry[id].points) => IsPrefix(r, registry'[id].points)
           \/ registry'[id].reload /\ \E t \in Terminals : op'[t].do = "post" /\ op'[t].id = id
    PROVE  ShownInv'
<1>1. \A i \in Registered : registry'[i].page = registry[i].page
    OBVIOUS
<1>2. Paging'
    BY <1>1 DEF ShownInv, Paging
<1>3. ASSUME NEW i \in Registered PROVE Due(i) => Due(i)'
    BY <1>1 DEF Due
<1>4. ASSUME NEW i \in Registered \ {id} PROVE Showing(i)'
    <2>1. Showing(i) /\ (Due(i) => Due(i)')
        BY <1>3 DEF ShownInv
    <2> QED
        BY <2>1 DEF Showing
<1>5. Showing(id)'
    <2> DEFINE d == registry[id]  w == d.page
    <2>1. Showing(id) /\ (Due(id) => Due(id)')
        BY <1>3 DEF ShownInv
    <2>2. CASE d.kind = "chart" /\ w # 0 /\ pages[w].open
        <3>1. w \in Pages /\ pages[w].rows \in Seq(Nat)
            BY <2>2 DEF ShownInv, Paging, PageType
        <3>2. \/ IsPrefix(pages[w].rows, d.points) => IsPrefix(pages[w].rows, registry'[id].points)
              \/ registry'[id].reload /\ Due(id)'
            BY <3>1 DEF Due
        <3> QED
            BY <1>1, <2>1, <2>2, <3>2 DEF Showing
    <2>3. CASE ~(d.kind = "chart" /\ w # 0 /\ pages[w].open)
        BY <2>3 DEF Showing
    <2> QED
        BY <2>2, <2>3
<1> QED
    BY <1>2, <1>4, <1>5 DEF ShownInv

LEMMA StoreShown == DisplayInv /\ ShownInv /\ StoreChart => ShownInv'
<1> SUFFICES ASSUME DisplayInv, ShownInv, StoreChart PROVE ShownInv'
    OBVIOUS
<1>1. /\ registry \in [Registered -> DataType] /\ activeState.frame \in Nat
      /\ round.at = "store" /\ round.todo # {} /\ round.todo \subseteq Registered
    BY DEF StoreChart, DisplayInv, DisplayType, ActiveType, Ranging
<1>2. PICK id \in round.todo : id = Min(round.todo) /\ id \in Registered
    BY <1>1, FirstDisplay
<1>3. registry' = [registry EXCEPT ![id].points = Append(@, activeState.frame)]
      /\ op' = op /\ pages' = pages
    BY <1>2 DEF StoreChart, Stored
<1>4. registry[id] \in DataType /\ registry[id].points \in Seq(Nat)
    BY <1>1, <1>2 DEF DataType
<1>5. /\ Registered' = Registered
      /\ \A i \in Registered \ {id} : registry'[i] = registry[i]
      /\ registry'[id].page = registry[id].page /\ registry'[id].kind = registry[id].kind
      /\ registry'[id].reload = registry[id].reload
      /\ registry'[id].points = Append(registry[id].points, activeState.frame)
    BY <1>1, <1>2, <1>3, <1>4 DEF Registered, DataType
<1>6. \A r \in Seq(Nat) : IsPrefix(r, registry[id].points) => IsPrefix(r, registry'[id].points)
    BY <1>1, <1>4, <1>5, PrefixOfMore
<1>7. /\ \A t \in Terminals : op[t].do = "post" => op'[t] = op[t]
      /\ \A t \in Terminals : op'[t].do \in {"number", "register"} => op'[t].id # 0
    BY <1>3 DEF ShownInv, Paging
<1> QED
    BY <1>2, <1>3, <1>5, <1>6, <1>7, PointsShown

LEMMA ClearShown ==
    ASSUME DisplayInv, ShownInv, NEW t \in Terminals, ClearChart(t)
    PROVE  ShownInv'
<1>1. /\ op \in [Terminals -> OpType] /\ registry \in [Registered -> DataType]
      /\ op[t].do = "clear" /\ op[t].todo # {} /\ op[t].todo \subseteq Registered
    BY DEF ClearChart, DisplayInv, DisplayType, Ranging
<1>2. PICK id \in op[t].todo : id = Min(op[t].todo) /\ id \in Registered
    BY <1>1, FirstDisplay
<1>3. /\ registry' = [registry EXCEPT ![id].points = << >>, ![id].reload = TRUE]
      /\ op' = [op EXCEPT ![t] = [op[t] EXCEPT !.do = "post", !.id = id]]
      /\ pages' = pages
    BY <1>2 DEF ClearChart, Cleared
<1>4. registry[id] \in DataType /\ op[t] \in OpType
    BY <1>1, <1>2
<1>5. /\ Registered' = Registered
      /\ \A i \in Registered \ {id} : registry'[i] = registry[i]
      /\ registry'[id].page = registry[id].page /\ registry'[id].kind = registry[id].kind
      /\ registry'[id].reload
    BY <1>1, <1>2, <1>3, <1>4 DEF Registered, DataType
<1>6. /\ op'[t].do = "post" /\ op'[t].id = id /\ \A u \in Terminals \ {t} : op'[u] = op[u]
    BY <1>1, <1>3, <1>4 DEF OpType
<1>7. /\ \A u \in Terminals : op[u].do = "post" => op'[u] = op[u]
      /\ \A u \in Terminals : op'[u].do \in {"number", "register"} => op'[u].id # 0
    BY <1>1, <1>6 DEF ShownInv, Paging
<1> QED
    BY <1>2, <1>3, <1>5, <1>6, <1>7, PointsShown

\* The update is posted to the page it is for, if that is open.
LEMMA PostClearedShown ==
    ASSUME DisplayInv, ShownInv, NEW t \in Terminals, PostCleared(t)
    PROVE  ShownInv'
<1>1. /\ op \in [Terminals -> OpType] /\ pages \in [Pages -> PageType]
      /\ registry' = registry /\ pages' = Posted(op[t].id)
    BY DEF PostCleared, DisplayInv, DisplayType, ShownInv, Paging
<1>2. op'[t].do = "clear" /\ \A u \in Terminals \ {t} : op'[u] = op[u]
    <2> DEFINE new == [[op[t] EXCEPT !.do = "clear"] EXCEPT !.todo = op[t].todo \ {op[t].id}]
    <2>1. op' = [op EXCEPT ![t] = new]
        BY <1>1 DEF PostCleared, OpType
    <2>2. op[t] \in OpType
        BY <1>1
    <2>3. new.do = "clear"
        BY <2>2 DEF OpType
    <2> HIDE DEF new
    <2> QED
        BY <1>1, <2>1, <2>3
<1>3. /\ pages' \in [Pages -> PageType]
      /\ \A s \in Pages : /\ pages'[s].id = pages[s].id /\ pages'[s].open = pages[s].open
                          /\ pages'[s].rows = pages[s].rows
                          /\ pages[s].pending > 0 => pages'[s].pending > 0
                          /\ pages'[s].pending > 0 => pages[s].pending > 0 \/ pages[s].open
    BY <1>1, PostedFacts
<1>4. \A u \in Terminals : op'[u].do \in {"number", "register"} => op'[u].id # 0
    BY <1>2 DEF ShownInv, Paging
<1>5. \A u \in Terminals : op[u].do = "post" =>
          \/ op'[u] = op[u]
          \/ LET w == registry[op[u].id].page
             IN w \in Pages /\ pages[w].open => pages'[w].pending > 0
    BY <1>1, <1>2, PostedFacts
<1> QED
    BY <1>1, <1>3, <1>4, <1>5, ShownKept

LEMMA CommandGoesOnShown ==
    ASSUME DisplayInv, ShownInv, NEW t \in Terminals, CommandGoesOn(t)
    PROVE  ShownInv'
<1>1. op \in [Terminals -> OpType] /\ op[t] \in OpType
    BY DEF DisplayInv, DisplayType
<1>2. CASE NumberDisplay(t)
    <2>1. op[t].do = "number" /\ op[t].id # 0 /\ registry' = registry /\ pages' = pages
        BY <1>2 DEF NumberDisplay, ShownInv, Paging
    <2>2. op'[t].id = op[t].id /\ \A u \in Terminals \ {t} : op'[u] = op[u]
        BY <1>1, <1>2 DEF NumberDisplay, OpType
    <2> QED
        BY <2>1, <2>2, CommandShown
<1>3. CASE AddDisplay(t) \/ DrawersPosted(t) \/ Joined(t)
    <2>1. op[t].do # "post" /\ registry' = registry /\ pages' = pages
        BY <1>3 DEF AddDisplay, DrawersPosted, Joined
    <2>2. op'[t].do \in {"idle", "renew"} /\ \A u \in Terminals \ {t} : op'[u] = op[u]
        BY <1>1, <1>3 DEF AddDisplay, DrawersPosted, Joined, Leave, NoOp
    <2> QED
        BY <2>1, <2>2, CommandShown
<1>4. CASE ChartsCleared(t)
    <2>1. op[t].do # "post" /\ registry' = registry /\ pages' = pages
        BY <1>4 DEF ChartsCleared
    <2>2. op'[t].do = "drawers" /\ \A u \in Terminals \ {t} : op'[u] = op[u]
        BY <1>1, <1>4 DEF ChartsCleared, OpType
    <2> QED
        BY <2>1, <2>2, CommandShown
<1>5. CASE PostDrawer(t)
    <2>1. op[t].do = "drawers" /\ registry' = registry /\ \E id : pages' = Posted(id)
        BY <1>5 DEF PostDrawer
    <2>2. op'[t].do = "drawers" /\ \A u \in Terminals \ {t} : op'[u] = op[u]
        BY <1>1, <1>5, <2>1 DEF PostDrawer, OpType
    <2> QED
        BY <2>1, <2>2, CommandShown
<1> QED
    BY <1>2, <1>3, <1>4, <1>5, RegisterShown, ClearShown, PostClearedShown DEF CommandGoesOn

\* A page that opens shows nothing, and is not the page of any other display.
LEMMA OpenPageShown ==
    ASSUME DisplayInv, ShownInv, NEW s \in Pages, NEW id \in 1..MaxDisplays, OpenPage(s, id)
    PROVE  ShownInv'
<1>1. /\ registry \in [Registered -> DataType] /\ pages \in [Pages -> PageType]
      /\ id \in Registered /\ id \in Nat /\ id # 0 /\ pages[s] = NoPage /\ s # 0
      /\ registry' = [registry EXCEPT ![id].page = s] /\ op' = op
    BY DEF OpenPage, DisplayInv, DisplayType, ShownInv, Paging, Numbering, Pages
<1>2. pages[s].id = 0 /\ pages[s].pending = 0
    BY <1>1 DEF NoPage
<1> DEFINE opened == [NoPage EXCEPT !.id = id, !.open = TRUE, !.dirty = registry[id].kind = "drawer"]
<1>3. /\ pages' = [pages EXCEPT ![s] = opened]
      /\ opened \in PageType /\ opened.id = id /\ opened.rows = << >>
    BY <1>1 DEF OpenPage, NoPage, PageType
<1> HIDE DEF opened
<1>4. /\ pages' \in [Pages -> PageType] /\ pages'[s].id = id /\ pages'[s].rows = << >>
      /\ \A r \in Pages \ {s} : pages'[r] = pages[r]
    BY <1>1, <1>3
<1>5. registry[id] \in DataType
    BY <1>1
<1>6. /\ Registered' = Registered /\ \A i \in Registered \ {id} : registry'[i] = registry[i]
      /\ registry'[id].page = s /\ registry'[id].kind = registry[id].kind
      /\ registry'[id].points = registry[id].points /\ registry'[id].points \in Seq(Nat)
    BY <1>1, <1>5 DEF Registered, DataType
<1>7. \A i \in Registered \ {id} : registry[i].page # s
    BY <1>1, <1>2 DEF ShownInv, Paging
<1>8. Paging'
    <2>1. \A i \in Registered' : registry'[i].page # 0 =>
              registry'[i].page \in Pages /\ pages'[registry'[i].page].id = i
        BY <1>4, <1>6, <1>7 DEF ShownInv, Paging
    <2>2. \A r \in Pages :
              /\ pages'[r].open \/ pages'[r].pending > 0 => pages'[r].id # 0
              /\ pages'[r].id # 0 => pages'[r].id \in Registered' /\ registry'[pages'[r].id].page # 0
        BY <1>1, <1>4, <1>6 DEF ShownInv, Paging
    <2> QED
        BY <1>1, <1>4, <1>6, <2>1, <2>2 DEF ShownInv, Paging
<1>9. Showing(id)'
    <2>1. IsPrefix(pages'[s].rows, registry'[id].points)
        BY <1>4, <1>6, NothingIsPrefix
    <2> QED
        BY <1>6, <2>1 DEF Showing
<1>10. ASSUME NEW i \in Registered \ {id} PROVE Showing(i)'
    <2>1. Showing(i)
        BY DEF ShownInv
    <2>2. registry'[i] = registry[i]
        BY <1>6
    <2>3. registry[i].page # 0 => pages'[registry[i].page] = pages[registry[i].page]
        BY <1>4, <1>7 DEF ShownInv, Paging
    <2>4. registry[i].page # 0 /\ Due(i) => Due(i)'
        BY <1>1, <2>2, <2>3 DEF Due
    <2> QED
        BY <2>1, <2>2, <2>3, <2>4 DEF Showing
<1> QED
    BY <1>6, <1>8, <1>9, <1>10 DEF ShownInv

LEMMA ClosePageShown ==
    ASSUME DisplayInv, ShownInv, NEW s \in Pages, ClosePage(s)
    PROVE  ShownInv'
<1>1. /\ registry' = registry /\ op' = op /\ pages \in [Pages -> PageType]
      /\ Registered' = Registered
    BY DEF ClosePage, ShownInv, Paging, Registered
<1> DEFINE closed == [NoPage EXCEPT !.id = pages[s].id]
<1>2. /\ pages' = [pages EXCEPT ![s] = closed]
      /\ closed \in PageType /\ closed.id = pages[s].id /\ ~closed.open /\ closed.pending = 0
    <2> DEFINE id == pages[s].id
    <2>1. id \in Nat
        BY <1>1 DEF PageType
    <2>2. NoPage \in PageType /\ ~NoPage.open /\ NoPage.pending = 0
        BY DEF NoPage, PageType
    <2>3. ASSUME NEW i \in Nat, NEW p, p = [NoPage EXCEPT !.id = i]
          PROVE  p \in PageType /\ p.id = i /\ ~p.open /\ p.pending = 0
        BY <2>2, <2>3 DEF PageType
    <2>4. pages' = [pages EXCEPT ![s] = closed]
        BY DEF ClosePage
    <2> QED
        BY <2>1, <2>3, <2>4
<1> HIDE DEF closed
<1>3. /\ pages' \in [Pages -> PageType]
      /\ pages'[s].id = pages[s].id /\ ~pages'[s].open /\ pages'[s].pending = 0
      /\ \A r \in Pages \ {s} : pages'[r] = pages[r]
    BY <1>1, <1>2
<1>4. Paging'
    BY <1>1, <1>3 DEF ShownInv, Paging
<1>5. ASSUME NEW i \in Registered PROVE Showing(i)'
    <2>1. Showing(i)
        BY DEF ShownInv
    <2>2. CASE registry[i].page = s
        BY <1>1, <1>3, <2>2 DEF Showing
    <2>3. CASE registry[i].page # s
        <3>1. registry[i].page # 0 => pages'[registry[i].page] = pages[registry[i].page]
            BY <1>3, <2>3 DEF ShownInv, Paging
        <3>2. registry[i].page # 0 /\ Due(i) => Due(i)'
            BY <1>1, <3>1 DEF Due
        <3> QED
            BY <1>1, <2>1, <3>1, <3>2 DEF Showing
    <2> QED
        BY <2>2, <2>3
<1> QED
    BY <1>1, <1>4, <1>5 DEF ShownInv

\* Whichever session runs an update, the page that the registry has by then is updated.
LEMMA RunPostedShown ==
    ASSUME DisplayInv, ShownInv, NEW s \in Pages, RunPosted(s)
    PROVE  ShownInv'
<1> PICK id : id = pages[s].id
    OBVIOUS
<1> PICK w : w = registry[id].page
    OBVIOUS
<1>1. /\ registry' = registry /\ op' = op /\ pages \in [Pages -> PageType]
      /\ registry \in [Registered -> DataType] /\ Registered' = Registered
      /\ pages[s].pending > 0
    BY DEF RunPosted, ShownInv, Paging, DisplayInv, DisplayType, Registered
<1>2. id \in Registered /\ w \in Pages /\ w # 0 /\ pages[w].id = id
    BY <1>1 DEF ShownInv, Paging
<1> DEFINE d == registry[id]  less == [pages[s] EXCEPT !.pending = @ - 1]
           served == [pages EXCEPT ![s] = less]
<1>4. d \in DataType
    BY <1>1, <1>2
<1>5. /\ less \in PageType /\ less.id = pages[s].id /\ less.open = pages[s].open
      /\ less.rows = pages[s].rows
    <2> DEFINE p == pages[s]  m == p.pending - 1
    <2>1. p \in PageType /\ m \in Nat /\ less = [p EXCEPT !.pending = m]
        BY <1>1 DEF PageType
    <2> HIDE DEF p, m, less
    <2>2. less \in PageType
        BY <2>1 DEF PageType
    <2>3. less.id = p.id /\ less.open = p.open /\ less.rows = p.rows
        BY <2>1 DEF PageType
    <2> QED
        BY <2>2, <2>3 DEF p
<1>6. /\ ~pages[w].open => pages' = served
      /\ pages[w].open => pages' = IF d.kind = "chart" THEN [served EXCEPT ![w].rows = Rows(@, d)]
                                   ELSE [served EXCEPT ![w].dirty = TRUE]
    BY <1>1 DEF RunPosted
<1> HIDE DEF less
<1>7. /\ served \in [Pages -> PageType]
      /\ \A r \in Pages : /\ served[r].id = pages[r].id /\ served[r].open = pages[r].open
                          /\ served[r].rows = pages[r].rows
      /\ \A r \in Pages \ {s} : served[r] = pages[r]
    BY <1>1, <1>5
<1>8. CASE pages[w].open /\ d.kind = "chart"
    <2>1. served[w] \in PageType /\ pages[w].rows \in Seq(Nat)
        BY <1>1, <1>2, <1>7 DEF PageType
    <2>2. IsPrefix(pages[w].rows, d.points) \/ d.reload
        BY <1>2, <1>8 DEF ShownInv, Showing
    <2> DEFINE rows == Rows(pages[w].rows, d)  new == [served[w] EXCEPT !.rows = rows]
    <2>3. rows \in Seq(Nat) /\ IsPrefix(rows, d.points)
        BY <1>4, <2>1, <2>2, UpdatedIsPrefix
    <2>4. pages' = [served EXCEPT ![w] = new]
        BY <1>2, <1>6, <1>7, <1>8
    <2> HIDE DEF d, served, rows
    <2>5. /\ new \in PageType /\ new.id = served[w].id /\ new.open = served[w].open
          /\ new.pending = served[w].pending /\ new.rows = rows
        BY <2>1, <2>3 DEF PageType
    <2> HIDE DEF new
    <2>6. /\ pages' \in [Pages -> PageType] /\ pages'[w].rows = rows
          /\ \A r \in Pages : /\ pages'[r].id = pages[r].id /\ pages'[r].open = pages[r].open
                              /\ pages'[r].pending = served[r].pending
          /\ \A r \in Pages \ {w} : pages'[r].rows = pages[r].rows
        <3>1. pages' \in [Pages -> PageType]
            BY <1>7, <2>4, <2>5
        <3>2. pages'[w] = new /\ \A r \in Pages \ {w} : pages'[r] = served[r]
            BY <1>2, <1>7, <2>4
        <3>3. \A r \in Pages \ {w} :
                 /\ pages'[r].id = pages[r].id /\ pages'[r].open = pages[r].open
                 /\ pages'[r].pending = served[r].pending /\ pages'[r].rows = pages[r].rows
            BY <1>7, <3>2
        <3>4. /\ pages'[w].id = pages[w].id /\ pages'[w].open = pages[w].open
              /\ pages'[w].pending = served[w].pending /\ pages'[w].rows = rows
            BY <1>2, <1>7, <2>5, <3>2
        <3> QED
            BY <3>1, <3>3, <3>4
    <2>7. Paging'
        <3>1. \A r \in Pages : pages'[r].pending > 0 => pages'[r].id # 0
            BY <1>1, <1>2, <1>7, <2>6 DEF ShownInv, Paging
        <3> QED
            BY <1>1, <2>6, <3>1 DEF ShownInv, Paging
    <2>8. Showing(id)'
        <3>1. IsPrefix(pages'[w].rows, registry'[id].points)
            BY <1>1, <2>3, <2>6 DEF d
        <3> QED
            BY <1>1, <3>1 DEF Showing
    <2>9. ASSUME NEW i \in Registered \ {id} PROVE Showing(i)'
        <3>1. Showing(i)
            BY DEF ShownInv
        <3>2. CASE registry[i].page = 0
            BY <1>1, <3>2 DEF Showing
        <3>3. CASE registry[i].page # 0
            <4> PICK v : v = registry[i].page
                OBVIOUS
            <4>1. v \in Pages /\ v # w /\ v # s
                BY <1>2, <3>3 DEF ShownInv, Paging
            <4>2. pages'[v].open = pages[v].open /\ pages'[v].rows = pages[v].rows
                  /\ pages'[v].pending = pages[v].pending
                BY <1>7, <2>6, <4>1
            <4>3. Due(i) => Due(i)'
                BY <1>1, <4>2 DEF Due
            <4> QED
                BY <1>1, <3>1, <4>2, <4>3 DEF Showing
        <3> QED
            BY <3>2, <3>3
    <2> QED
        BY <1>1, <2>7, <2>8, <2>9 DEF ShownInv
<1>9. CASE pages[w].open /\ d.kind # "chart"
    <2> DEFINE new == [served[w] EXCEPT !.dirty = TRUE]
    <2>1. served[w] \in PageType
        BY <1>2, <1>7
    <2>2. pages' = [served EXCEPT ![w] = new]
        BY <1>2, <1>6, <1>7, <1>9
    <2> HIDE DEF served
    <2>3. /\ new \in PageType /\ new.id = served[w].id /\ new.open = served[w].open
          /\ new.pending = served[w].pending /\ new.rows = served[w].rows
        BY <2>1 DEF PageType
    <2> HIDE DEF new
    <2>4. /\ pages' \in [Pages -> PageType]
          /\ \A r \in Pages : /\ pages'[r].id = pages[r].id /\ pages'[r].open = pages[r].open
                              /\ pages'[r].pending = served[r].pending
                              /\ pages'[r].rows = pages[r].rows
        <3>1. pages' \in [Pages -> PageType]
            BY <1>7, <2>2, <2>3
        <3>2. pages'[w] = new /\ \A r \in Pages \ {w} : pages'[r] = served[r]
            BY <1>2, <1>7, <2>2
        <3>3. \A r \in Pages \ {w} :
                 /\ pages'[r].id = pages[r].id /\ pages'[r].open = pages[r].open
                 /\ pages'[r].pending = served[r].pending /\ pages'[r].rows = pages[r].rows
            BY <1>7, <3>2
        <3>4. /\ pages'[w].id = pages[w].id /\ pages'[w].open = pages[w].open
              /\ pages'[w].pending = served[w].pending /\ pages'[w].rows = pages[w].rows
            BY <1>2, <1>7, <2>3, <3>2
        <3> QED
            BY <3>1, <3>3, <3>4
    <2>5. Paging'
        <3>1. \A r \in Pages : pages'[r].pending > 0 => pages'[r].id # 0
            BY <1>1, <1>2, <1>7, <2>4 DEF ShownInv, Paging
        <3> QED
            BY <1>1, <2>4, <3>1 DEF ShownInv, Paging
    <2>6. Showing(id)'
        BY <1>1, <1>9 DEF Showing
    <2>7. ASSUME NEW i \in Registered \ {id} PROVE Showing(i)'
        <3>1. Showing(i)
            BY DEF ShownInv
        <3>2. CASE registry[i].page = 0
            BY <1>1, <3>2 DEF Showing
        <3>3. CASE registry[i].page # 0
            <4> PICK v : v = registry[i].page
                OBVIOUS
            <4>1. v \in Pages /\ v # s
                BY <1>2, <3>3 DEF ShownInv, Paging
            <4>2. pages'[v].open = pages[v].open /\ pages'[v].rows = pages[v].rows
                  /\ pages'[v].pending = pages[v].pending
                BY <1>7, <2>4, <4>1
            <4>3. Due(i) => Due(i)'
                BY <1>1, <4>2 DEF Due
            <4> QED
                BY <1>1, <3>1, <4>2, <4>3 DEF Showing
        <3> QED
            BY <3>2, <3>3
    <2> QED
        BY <1>1, <2>5, <2>6, <2>7 DEF ShownInv
\* The page has been closed, and its display's widget deleted.
<1>10. CASE ~pages[w].open
    <2> HIDE DEF served
    <2>1. /\ pages' \in [Pages -> PageType]
          /\ \A r \in Pages : /\ pages'[r].id = pages[r].id /\ pages'[r].open = pages[r].open
                              /\ pages'[r].rows = pages[r].rows
          /\ \A r \in Pages \ {s} : pages'[r] = pages[r]
        BY <1>6, <1>7, <1>10
    <2>2. Paging'
        <3>1. \A r \in Pages : pages'[r].pending > 0 => pages'[r].id # 0
            BY <1>1, <1>2, <2>1 DEF ShownInv, Paging
        <3> QED
            BY <1>1, <2>1, <3>1 DEF ShownInv, Paging
    <2>3. Showing(id)'
        BY <1>1, <1>2, <1>10, <2>1 DEF Showing
    <2>4. ASSUME NEW i \in Registered \ {id} PROVE Showing(i)'
        <3>1. Showing(i)
            BY DEF ShownInv
        <3>2. CASE registry[i].page = 0
            BY <1>1, <3>2 DEF Showing
        <3>3. CASE registry[i].page # 0
            <4> PICK v : v = registry[i].page
                OBVIOUS
            <4>1. v \in Pages /\ v # s
                BY <1>2, <3>3 DEF ShownInv, Paging
            <4>2. pages'[v] = pages[v]
                BY <2>1, <4>1
            <4>3. Due(i) => Due(i)'
                BY <1>1, <4>2 DEF Due
            <4> QED
                BY <1>1, <3>1, <4>2, <4>3 DEF Showing
        <3> QED
            BY <3>2, <3>3
    <2> QED
        BY <1>1, <2>2, <2>3, <2>4 DEF ShownInv
<1> QED
    BY <1>8, <1>9, <1>10

LEMMA PageEventShown ==
    ASSUME DisplayInv, ShownInv, NEW s \in Pages, PageEvent(s)
    PROVE  ShownInv'
<1>1. CASE BeginPaint(s)
    <2>1. /\ registry' = registry /\ op' = op /\ pages \in [Pages -> PageType]
          /\ pages' = [pages EXCEPT ![s].dirty = FALSE]
        BY <1>1 DEF BeginPaint, ShownInv, Paging
    <2> DEFINE new == [pages[s] EXCEPT !.dirty = FALSE]
    <2>2. pages' = [pages EXCEPT ![s] = new] /\ pages[s] \in PageType
        BY <2>1
    <2>3. /\ new \in PageType /\ new.id = pages[s].id /\ new.open = pages[s].open
          /\ new.pending = pages[s].pending /\ new.rows = pages[s].rows
        BY <2>2 DEF PageType
    <2> HIDE DEF new
    <2>4. /\ pages' \in [Pages -> PageType]
          /\ \A r \in Pages : /\ pages'[r].id = pages[r].id /\ pages'[r].open = pages[r].open
                              /\ pages'[r].rows = pages[r].rows
                              /\ pages'[r].pending = pages[r].pending
        BY <2>1, <2>2, <2>3
    <2>5. /\ \A u \in Terminals : op'[u].do \in {"number", "register"} => op'[u].id # 0
          /\ \A u \in Terminals : op[u].do = "post" => op'[u] = op[u]
        BY <2>1 DEF ShownInv, Paging
    <2> QED
        BY <2>1, <2>4, <2>5, ShownKept
<1> QED
    BY <1>1, OpenPageShown, ClosePageShown, RunPostedShown DEF PageEvent

LEMMA ShownInitInv == DisplayInit => ShownInv
<1> SUFFICES ASSUME DisplayInit PROVE ShownInv
    OBVIOUS
<1>1. Registered = {}
    BY DEF DisplayInit, Registered
<1>2. NoPage \in PageType /\ ~NoPage.open /\ NoPage.pending = 0 /\ NoPage.id = 0
    BY DEF NoPage, PageType
<1>3. pages = [s \in Pages |-> NoPage] /\ \A t \in Terminals : op[t].do = "idle"
    BY NoOpType DEF DisplayInit
<1>4. Paging
    BY <1>1, <1>2, <1>3 DEF Paging
<1> QED
    BY <1>1, <1>4 DEF ShownInv

LEMMA ShownInvariance == DisplaySpec => []ShownInv
<1>1. ASSUME DisplayInv, ShownInv, [DisplayNext]_displayVars
      PROVE  ShownInv'
    <2>1. CASE OpenTerminal \/ EndPaint \/ UNCHANGED displayVars
        <3>1. UNCHANGED <<op, registry, pages>>
            BY <2>1 DEF OpenTerminal, EndPaint, displayVars
        <3> QED
            BY <1>1, <3>1, RoundShown
    <2>2. CASE \E t \in Terminals : CommandStarts(t) \/ CommandGoesOn(t)
        BY <1>1, <2>2, CommandStartsShown, CommandGoesOnShown
    <2>3. CASE RoundGoesOn
        <3>1. CASE StoreChart
            BY <1>1, <3>1, StoreShown
        <3>2. CASE AdvanceSystem \/ LockSystem \/ UnlockSystem \/ EndRound
            <4>1. UNCHANGED <<op, registry, pages>>
                BY <3>2 DEF AdvanceSystem, LockSystem, UnlockSystem, EndRound
            <4> QED
                BY <1>1, <4>1, RoundShown
        <3>3. CASE Redraw
            <4>1. UNCHANGED <<op, registry>> /\ \E id : pages' = Posted(id)
                BY <3>3 DEF Redraw
            <4> QED
                BY <1>1, <4>1, RoundShown
        <3> QED
            BY <2>3, <3>1, <3>2, <3>3 DEF RoundGoesOn
    <2>4. CASE \E s \in Pages : PageEvent(s)
        BY <1>1, <2>4, PageEventShown
    <2> QED
        BY <1>1, <2>1, <2>2, <2>3, <2>4 DEF DisplayNext
<1> QED
    BY <1>1, ShownInitInv, DisplayInvariance, PTL DEF DisplaySpec

\* A page shows an initial part of its chart's data, or an update that makes it show that
\* is on its way, whichever threads clear, store, post, open and close meanwhile.
THEOREM PagesCatchUp == DisplaySpec => []ShownIsStored
<1>1. ASSUME ShownInv PROVE ShownIsStored
    <2> SUFFICES ASSUME NEW id \in Registered, registry[id].kind = "chart",
                        registry[id].page # 0, pages[registry[id].page].open
                 PROVE  \/ IsPrefix(pages[registry[id].page].rows, registry[id].points)
                        \/ UpdateOnItsWay(id)
        BY DEF ShownIsStored
    <2>1. \/ IsPrefix(pages[registry[id].page].rows, registry[id].points)
          \/ Due(id)
        BY <1>1 DEF ShownInv, Showing
    <2>2. registry[id].page \in Pages /\ pages[registry[id].page].id = id
        BY <1>1 DEF ShownInv, Paging
    <2> QED
        BY <2>1, <2>2 DEF Due, UpdateOnItsWay
<1> QED
    BY <1>1, ShownInvariance, PTL

-----------------------------------------------------------------------------
(* Module Elevator *)

-----------------------------------------------------------------------------
(* The inductive invariant *)

\* The types, without the totals of times, which are sums over sets.
FlowType ==
    /\ location \in Floors
    /\ pressed \in [Calls -> BOOLEAN]
    /\ pressedTime \in [Calls -> Nat]
    /\ queues \in [Calls -> SUBSET Person]
    /\ passengers \in [Floors -> SUBSET Person]
    /\ counts \in [Floors -> Nat]
    /\ occupancy \in Nat
    /\ now \in Nat
    /\ {history.arrived, history.boarded, history.delivered, history.maxQueuing} \subseteq Nat
    /\ {abandoned.waiting, abandoned.aboard} \subseteq Nat

\* Everybody is where they should be, and in one place.
InPlace ==
    /\ \A c \in Calls : \A p \in queues[c] : Asks(p) = c
    /\ \A f \in Floors : \A p \in passengers[f] : p.to = f
    /\ Waiting \cap Aboard = {}
    /\ IsFiniteSet(Waiting) /\ IsFiniteSet(Aboard)

\* People are numbered as they arrive.
Numbered ==
    /\ \A p \in Waiting \cup Aboard : p.nr <= history.arrived /\ p.since <= now
    /\ \A p, q \in Waiting : p.nr <= q.nr => p.since <= q.since

\* PeopleConserved and OccupancyRight are not inductive: that a stop takes out of the
\* numbers whom it takes out of the lists depends on who is on which list.
ElevatorInv ==
    /\ FlowType /\ InPlace /\ Numbered
    /\ PeopleConserved /\ OccupancyRight /\ ButtonsTellQueues

\* Nobody is anywhere: what the sets of people are after initialize.
LEMMA NobodyThere ==
    ASSUME queues = [c \in Calls |-> {}], passengers = [f \in Floors |-> {}]
    PROVE  /\ Waiting = {} /\ Aboard = {}
           /\ IsFiniteSet({}) /\ Cardinality({}) = 0
BY FS_EmptySet DEF Waiting, Aboard

LEMMA ElevatorInitInv == ElevatorInit => ElevatorInv
<1> SUFFICES ASSUME ElevatorInit PROVE ElevatorInv
    OBVIOUS
<1>1. /\ Waiting = {} /\ Aboard = {}
      /\ IsFiniteSet({}) /\ Cardinality({}) = 0
    BY NobodyThere DEF ElevatorInit
<1>2. FlowType
    BY ElevatorAssumption DEF ElevatorInit, FlowType, Floors, NoHistory, NothingAbandoned
<1>3. InPlace /\ Numbered
    BY <1>1 DEF ElevatorInit, InPlace, Numbered
<1>4. PeopleConserved /\ OccupancyRight
    BY <1>1 DEF ElevatorInit, PeopleConserved, OccupancyRight, NoHistory, NothingAbandoned
<1>5. ButtonsTellQueues
    BY DEF ElevatorInit, ButtonsTellQueues
<1> QED
    BY <1>2, <1>3, <1>4, <1>5 DEF ElevatorInv

\* Whoever is in the system when it is initialized again is abandoned.
LEMMA InitializeInv == ElevatorInv /\ Initialize => ElevatorInv'
<1> SUFFICES ASSUME ElevatorInv, Initialize PROVE ElevatorInv'
    OBVIOUS
<1>1. /\ Waiting' = {} /\ Aboard' = {}
      /\ IsFiniteSet({}) /\ Cardinality({}) = 0
    BY FS_EmptySet DEF Initialize, Waiting, Aboard
<1>2. Cardinality(Waiting) \in Nat /\ Cardinality(Aboard) \in Nat
    BY FS_CardinalityType DEF ElevatorInv, InPlace
<1>3. /\ abandoned'.waiting = abandoned.waiting + Cardinality(Waiting)
      /\ abandoned'.aboard = abandoned.aboard + Cardinality(Aboard)
      /\ history' = history /\ occupancy' = 0
    BY DEF Initialize
<1>4. FlowType'
    <2>1. 0 \in Floors
        BY ElevatorAssumption DEF Floors
    <2>2. {history'.arrived, history'.boarded, history'.delivered, history'.maxQueuing} \subseteq Nat
        BY <1>3 DEF ElevatorInv, FlowType
    <2>3. {abandoned'.waiting, abandoned'.aboard} \subseteq Nat
        BY <1>2, <1>3 DEF ElevatorInv, FlowType
    <2>4. /\ location' = 0 /\ pressed' = [c \in Calls |-> FALSE]
          /\ pressedTime' = [c \in Calls |-> 0] /\ queues' = [c \in Calls |-> {}]
          /\ passengers' = [f \in Floors |-> {}] /\ counts' = [f \in Floors |-> 0]
          /\ occupancy' = 0 /\ now' = 0
        BY DEF Initialize
    <2> QED
        BY <2>1, <2>2, <2>3, <2>4 DEF FlowType
<1>5. InPlace' /\ Numbered'
    BY <1>1 DEF Initialize, InPlace, Numbered
<1>6. PeopleConserved'
    BY <1>1, <1>2, <1>3 DEF ElevatorInv, FlowType, PeopleConserved, OccupancyRight
<1>7. OccupancyRight' /\ ButtonsTellQueues'
    BY <1>1 DEF Initialize, OccupancyRight, ButtonsTellQueues
<1> QED
    BY <1>4, <1>5, <1>6, <1>7 DEF ElevatorInv

-----------------------------------------------------------------------------
(* An update *)

\* As many people arrive as are drawn, numbered after those before them.
LEMMA ArrivingFacts ==
    ASSUME FlowType, NEW n \in Nat, NEW who \in [1..n -> Draws]
    PROVE  /\ Arriving(who) \subseteq Person
           /\ IsFiniteSet(Arriving(who)) /\ Cardinality(Arriving(who)) = n
           /\ \A p \in Arriving(who) : /\ p.nr > history.arrived /\ p.nr <= history.arrived + n
                                       /\ p.since = now
<1> DEFINE someone(i) == [nr |-> history.arrived + i, from |-> who[i][1],
                          to |-> Destination(who[i][1], who[i][2]), since |-> now]
           f == [i \in 1..n |-> someone(i)]
<1>1. Arriving(who) = {someone(i) : i \in 1..n}
    BY DEF Arriving
<1>2. history.arrived \in Nat /\ now \in Nat
    BY DEF FlowType
<1>3. \A i \in 1..n : who[i][1] \in Floors /\ Destination(who[i][1], who[i][2]) \in Floors
    <2>1. \A i \in 1..n : who[i] \in Floors \X (0..(NumFloors - 2))
        BY DEF Draws
    <2>2. NumFloors \in Nat /\ NumFloors > 1
        BY ElevatorAssumption
    <2> QED
        BY <2>1, <2>2 DEF Destination, Floors
<1>4. \A i \in 1..n : someone(i) \in Person
    BY <1>2, <1>3 DEF Person
<1>5. f \in Bijection(1..n, Arriving(who))
    <2>1. f \in [1..n -> Arriving(who)]
        BY <1>1
    <2>2. \A i, j \in 1..n : f[i] = f[j] => i = j
        <3> SUFFICES ASSUME NEW i \in 1..n, NEW j \in 1..n, f[i] = f[j] PROVE i = j
            OBVIOUS
        <3>1. f[i].nr = history.arrived + i /\ f[j].nr = history.arrived + j
            OBVIOUS
        <3> QED
            BY <1>2, <3>1
    <2>3. \A p \in Arriving(who) : \E i \in 1..n : f[i] = p
        BY <1>1
    <2> QED
        BY <2>1, <2>2, <2>3 DEF Bijection, Injection, Surjection, IsInjective
<1>6. IsFiniteSet(1..n) /\ Cardinality(1..n) = n
    BY FS_Interval
<1>7. IsFiniteSet(Arriving(who)) /\ Cardinality(Arriving(who)) = n
    BY <1>5, <1>6, FS_Bijection DEF ExistsBijection
<1> HIDE DEF f
<1>8. \A i \in 1..n : /\ someone(i).nr > history.arrived /\ someone(i).nr <= history.arrived + n
                      /\ someone(i).since = now
    BY <1>2
<1> QED
    BY <1>1, <1>4, <1>7, <1>8

\* The queue of the call that is served boards, whoever has just joined it included;
\* everybody else who waits or arrives waits on.
LEMMA WaitingFacts ==
    ASSUME ElevatorInv, NEW n \in Nat, NEW who \in [1..n -> Draws], NEW dec \in Decisions,
           UpdateSystem(who, dec)
    PROVE  /\ Boarding(who, dec) \subseteq Waiting \cup Arriving(who)
           /\ Waiting' = (Waiting \cup Arriving(who)) \ Boarding(who, dec)
           /\ \A c \in Calls : queues'[c] = IF Served(dec, c) THEN {} ELSE Queue(who, c)
           /\ \A c \in Calls : Queue(who, c) \subseteq Person /\ \A p \in Queue(who, c) : Asks(p) = c
<1>1. /\ queues \in [Calls -> SUBSET Person] /\ location \in Floors
      /\ \A c \in Calls : \A p \in queues[c] : Asks(p) = c
    BY DEF ElevatorInv, FlowType, InPlace
<1>2. Arriving(who) \subseteq Person
    BY ArrivingFacts DEF ElevatorInv
<1>3. \A p \in Person : Asks(p) \in Calls
    BY DEF Person, Asks, Calls, GetDirection
<1>4. \A c \in Calls : queues'[c] = IF Served(dec, c) THEN {} ELSE Queue(who, c)
    BY DEF UpdateSystem, ServeCalls
<1>5. \A c \in Calls : /\ Queue(who, c) \subseteq Person
                       /\ \A p \in Queue(who, c) : Asks(p) = c
                       /\ Queue(who, c) = queues[c] \cup {p \in Arriving(who) : Asks(p) = c}
    BY <1>1, <1>2 DEF Queue, Callers
<1> DEFINE stop == <<location, Heading(dec)>>
<1>6. Heading(dec) # "none" => stop \in Calls
    <2>1. Heading(dec) \in {"up", "down", "none"}
        BY DEF Heading, Decisions, Directions
    <2> QED
        BY <1>1, <2>1 DEF Calls
<1>7. CASE dec.stop /\ Heading(dec) # "none"
    <2>1. Boarding(who, dec) = Queue(who, stop)
        BY <1>7 DEF Boarding
    <2>2. \A c \in Calls : queues'[c] = IF c = stop THEN {} ELSE Queue(who, c)
        BY <1>4, <1>7 DEF Served
    <2> HIDE DEF stop
    <2>3. Boarding(who, dec) \subseteq Waiting \cup Arriving(who)
        BY <1>5, <1>6, <1>7, <2>1 DEF Waiting
    <2>4. ASSUME NEW p PROVE p \in Waiting' <=> p \in (Waiting \cup Arriving(who)) \ Boarding(who, dec)
        <3>1. p \in Waiting' <=> \E c \in Calls : c # stop /\ p \in Queue(who, c)
            BY <2>2 DEF Waiting
        <3>2. p \in Waiting \cup Arriving(who) <=> \E c \in Calls : p \in Queue(who, c)
            BY <1>2, <1>3, <1>5 DEF Waiting
        <3>3. p \in Boarding(who, dec) <=> p \in Queue(who, stop)
            BY <2>1
        <3> QED
            BY <1>5, <1>6, <1>7, <3>1, <3>2, <3>3
    <2>5. Waiting' = (Waiting \cup Arriving(who)) \ Boarding(who, dec)
        BY <2>4
    <2> QED
        BY <1>4, <1>5, <2>3, <2>5
<1>8. CASE ~(dec.stop /\ Heading(dec) # "none")
    <2>1. Boarding(who, dec) = {}
        BY <1>8 DEF Boarding
    <2>2. \A c \in Calls : ~Served(dec, c)
        BY <1>8 DEF Served, Calls
    <2>3. ASSUME NEW p PROVE p \in Waiting' <=> p \in Waiting \cup Arriving(who)
        <3>1. p \in Waiting' <=> \E c \in Calls : p \in Queue(who, c)
            BY <1>4, <2>2 DEF Waiting
        <3>2. p \in Waiting \cup Arriving(who) <=> \E c \in Calls : p \in Queue(who, c)
            BY <1>2, <1>3, <1>5 DEF Waiting
        <3> QED
            BY <3>1, <3>2
    <2>4. Waiting' = (Waiting \cup Arriving(who)) \ Boarding(who, dec)
        BY <2>1, <2>3
    <2> QED
        BY <1>4, <1>5, <2>1, <2>4
<1> QED
    BY <1>7, <1>8

\* Those who board join those who stay on board.
LEMMA AboardFacts ==
    ASSUME ElevatorInv, NEW n \in Nat, NEW who \in [1..n -> Draws], NEW dec \in Decisions,
           UpdateSystem(who, dec)
    PROVE  /\ GettingOff(dec) \subseteq Aboard
           /\ Aboard' = (Aboard \ GettingOff(dec)) \cup Boarding(who, dec)
           /\ \A f \in Floors : passengers'[f] =
                  (IF dec.stop /\ f = location THEN {} ELSE passengers[f])
                      \cup {p \in Boarding(who, dec) : p.to = f}
<1>1. /\ passengers \in [Floors -> SUBSET Person] /\ location \in Floors
      /\ \A f \in Floors : \A p \in passengers[f] : p.to = f
    BY DEF ElevatorInv, FlowType, InPlace
<1>2. \A f \in Floors : passengers'[f] = (passengers[f] \ GettingOff(dec))
                                             \cup {p \in Boarding(who, dec) : p.to = f}
    BY DEF UpdateSystem, ServePassengers
<1>3. \A p \in Boarding(who, dec) : p.to \in Floors
    <2>1. Boarding(who, dec) \subseteq Person
        <3>1. Boarding(who, dec) \subseteq Waiting \cup Arriving(who)
            BY WaitingFacts
        <3>2. Waiting \subseteq Person
            BY DEF ElevatorInv, FlowType, Waiting
        <3>3. Arriving(who) \subseteq Person
            BY ArrivingFacts DEF ElevatorInv
        <3> QED
            BY <3>1, <3>2, <3>3
    <2> QED
        BY <2>1 DEF Person
<1>4. GettingOff(dec) \subseteq Aboard
    BY <1>1 DEF GettingOff, Aboard
<1>5. Aboard' = (Aboard \ GettingOff(dec)) \cup Boarding(who, dec)
    <2> SUFFICES ASSUME NEW p
                 PROVE  p \in Aboard' <=> p \in (Aboard \ GettingOff(dec)) \cup Boarding(who, dec)
        OBVIOUS
    <2>1. p \in Aboard' <=> \E f \in Floors : p \in passengers'[f]
        BY DEF Aboard
    <2>2. p \in Aboard <=> \E f \in Floors : p \in passengers[f]
        BY DEF Aboard
    <2> QED
        BY <1>2, <1>3, <2>1, <2>2
<1>6. \A f \in Floors : passengers[f] \ GettingOff(dec) =
                            IF dec.stop /\ f = location THEN {} ELSE passengers[f]
    BY <1>1 DEF GettingOff
<1> QED
    BY <1>2, <1>4, <1>5, <1>6

\* What the lists say of everybody holds on: who boards is not among the passengers yet.
LEMMA UpdateInPlace ==
    ASSUME ElevatorInv, NEW n \in Nat, NEW who \in [1..n -> Draws], NEW dec \in Decisions,
           UpdateSystem(who, dec)
    PROVE  InPlace' /\ Boarding(who, dec) \cap Aboard = {} /\ Arriving(who) \cap Waiting = {}
           /\ Arriving(who) \cap Aboard = {} /\ IsFiniteSet(Boarding(who, dec))
<1>1. /\ Boarding(who, dec) \subseteq Waiting \cup Arriving(who)
      /\ Waiting' = (Waiting \cup Arriving(who)) \ Boarding(who, dec)
      /\ \A c \in Calls : queues'[c] = IF Served(dec, c) THEN {} ELSE Queue(who, c)
      /\ \A c \in Calls : \A p \in Queue(who, c) : Asks(p) = c
    BY WaitingFacts
<1>2. /\ Aboard' = (Aboard \ GettingOff(dec)) \cup Boarding(who, dec)
      /\ \A f \in Floors : passengers'[f] =
             (IF dec.stop /\ f = location THEN {} ELSE passengers[f])
                 \cup {p \in Boarding(who, dec) : p.to = f}
    BY AboardFacts
<1>3. /\ IsFiniteSet(Arriving(who))
      /\ \A p \in Arriving(who) : p.nr > history.arrived
      /\ Arriving(who) \subseteq Person
    BY ArrivingFacts DEF ElevatorInv
<1>4. Arriving(who) \cap (Waiting \cup Aboard) = {}
    <2>1. \A p \in Waiting \cup Aboard : p.nr <= history.arrived
        BY DEF ElevatorInv, Numbered
    <2>2. history.arrived \in Nat /\ \A p \in Arriving(who) : p.nr \in Nat
        BY <1>3 DEF ElevatorInv, FlowType, Person
    <2> QED
        BY <1>3, <2>1, <2>2
<1>5. Waiting \cap Aboard = {} /\ IsFiniteSet(Waiting) /\ IsFiniteSet(Aboard)
    BY DEF ElevatorInv, InPlace
<1>6. IsFiniteSet(Waiting \cup Arriving(who))
    BY <1>3, <1>5, FS_Union
<1>7. IsFiniteSet(Waiting') /\ IsFiniteSet(Boarding(who, dec))
    BY <1>1, <1>6, FS_Subset
<1>8. IsFiniteSet(Aboard \ GettingOff(dec))
    BY <1>5, FS_Subset
<1>9. IsFiniteSet(Aboard')
    BY <1>2, <1>7, <1>8, FS_Union
<1>10. Boarding(who, dec) \cap Aboard = {} /\ Waiting' \cap Aboard' = {}
    BY <1>1, <1>2, <1>4, <1>5
<1>11. \A c \in Calls : \A p \in queues'[c] : Asks(p) = c
    BY <1>1
<1>12. \A f \in Floors : \A p \in passengers'[f] : p.to = f
    BY <1>2 DEF ElevatorInv, InPlace
<1> QED
    BY <1>4, <1>7, <1>9, <1>10, <1>11, <1>12 DEF InPlace, Asks

\* What an update adds to the numbers of people.
LEMMA UpdateNumbers ==
    ASSUME ElevatorInv, NEW n \in Nat, NEW who \in [1..n -> Draws], NEW dec \in Decisions,
           UpdateSystem(who, dec)
    PROVE  /\ NumOn(who, dec) \in Nat /\ NumOff(dec) \in Nat
           /\ NumOff(dec) = Cardinality(GettingOff(dec)) /\ NumOff(dec) <= occupancy
           /\ Cardinality(Waiting') = Cardinality(Waiting) + n - NumOn(who, dec)
           /\ Cardinality(Aboard') = Cardinality(Aboard) - NumOff(dec) + NumOn(who, dec)
           /\ Cardinality(Waiting) \in Nat /\ Cardinality(Aboard) \in Nat
<1> DEFINE off == GettingOff(dec)  on == Boarding(who, dec)  arr == Arriving(who)
<1>1. /\ on \subseteq Waiting \cup arr /\ Waiting' = (Waiting \cup arr) \ on
      /\ off \subseteq Aboard /\ Aboard' = (Aboard \ off) \cup on
    BY WaitingFacts, AboardFacts
<1>2. on \cap Aboard = {} /\ arr \cap Waiting = {} /\ IsFiniteSet(on)
    BY UpdateInPlace
<1>3. IsFiniteSet(arr) /\ Cardinality(arr) = n
    BY ArrivingFacts DEF ElevatorInv
<1>4. IsFiniteSet(Waiting) /\ IsFiniteSet(Aboard)
    BY DEF ElevatorInv, InPlace
<1>5. NumOn(who, dec) = Cardinality(on)
    BY DEF NumOn
<1>6. NumOff(dec) = Cardinality(off)
    <2>1. \A f \in Floors : counts[f] = Cardinality(passengers[f])
        BY DEF ElevatorInv, OccupancyRight
    <2>2. location \in Floors
        BY DEF ElevatorInv, FlowType
    <2> QED
        BY <2>1, <2>2, FS_EmptySet DEF NumOff, GettingOff
<1>7. occupancy = Cardinality(Aboard)
    BY DEF ElevatorInv, OccupancyRight
<1> HIDE DEF off, on, arr
<1>8. /\ Cardinality(Waiting) \in Nat
      /\ Cardinality(Waiting \cup arr) = Cardinality(Waiting) + n /\ IsFiniteSet(Waiting \cup arr)
    <2>1. Waiting \cap arr = {}
        BY <1>2
    <2> QED
        BY <1>3, <1>4, <2>1, DisjointUnion
<1>9. /\ Cardinality(on) \in Nat
      /\ Cardinality((Waiting \cup arr) \ on) = Cardinality(Waiting) + n - Cardinality(on)
    <2> DEFINE there == Waiting \cup arr
    <2>1. on \subseteq there /\ IsFiniteSet(there) /\ Cardinality(there) = Cardinality(Waiting) + n
        BY <1>1, <1>8
    <2> HIDE DEF there
    <2>2. Cardinality(on) \in Nat /\ Cardinality(there \ on) = Cardinality(there) - Cardinality(on)
        BY <2>1, PartRemoved
    <2>3. Cardinality(there \ on) = Cardinality(Waiting) + n - Cardinality(on)
        BY <1>8, <2>1, <2>2
    <2> QED
        BY <2>2, <2>3 DEF there
<1>10. /\ Cardinality(Aboard) \in Nat /\ Cardinality(off) \in Nat
       /\ Cardinality(off) <= Cardinality(Aboard)
       /\ IsFiniteSet(Aboard \ off) /\ Cardinality(Aboard \ off) = Cardinality(Aboard) - Cardinality(off)
    BY <1>1, <1>4, PartRemoved
<1>11. Cardinality((Aboard \ off) \cup on) = Cardinality(Aboard) - Cardinality(off) + Cardinality(on)
    <2>1. (Aboard \ off) \cap on = {}
        BY <1>2
    <2> QED
        BY <1>2, <1>10, <2>1, DisjointUnion
<1>12. /\ Cardinality(Waiting') = Cardinality(Waiting) + n - Cardinality(on)
       /\ Cardinality(Aboard') = Cardinality(Aboard) - Cardinality(off) + Cardinality(on)
    BY <1>1, <1>9, <1>11
<1>13. NumOff(dec) = Cardinality(GettingOff(dec))
    BY <1>6 DEF off
<1> QED
    BY <1>5, <1>6, <1>7, <1>8, <1>9, <1>10, <1>12, <1>13

\* The numbers of each floor: those of who stays and who boards.
LEMMA UpdateOccupancy ==
    ASSUME ElevatorInv, NEW n \in Nat, NEW who \in [1..n -> Draws], NEW dec \in Decisions,
           UpdateSystem(who, dec)
    PROVE  OccupancyRight' /\ counts' \in [Floors -> Nat] /\ occupancy' \in Nat
<1> DEFINE on == Boarding(who, dec)
           kept(f) == IF dec.stop /\ f = location THEN {} ELSE passengers[f]
           to(f) == {p \in on : p.to = f}
<1>1. \A f \in Floors : passengers'[f] = kept(f) \cup to(f)
    BY AboardFacts
<1>2. on \cap Aboard = {} /\ IsFiniteSet(on) /\ IsFiniteSet(Aboard)
    BY UpdateInPlace DEF ElevatorInv, InPlace
<1>3. counts' = [f \in Floors |-> Count(who, dec, f)] /\ occupancy' = occupancy - NumOff(dec) + NumOn(who, dec)
    BY DEF UpdateSystem, ServePassengers
<1>4. \A f \in Floors : Count(who, dec, f) = Cardinality(kept(f)) + Cardinality(to(f))
    <2>1. \A f \in Floors : counts[f] = Cardinality(passengers[f])
        BY DEF ElevatorInv, OccupancyRight
    <2>2. Cardinality({}) = 0
        BY FS_EmptySet
    <2> QED
        BY <2>1, <2>2 DEF Count
<1>5. ASSUME NEW f \in Floors
      PROVE  /\ Cardinality(kept(f)) + Cardinality(to(f)) \in Nat
             /\ Cardinality(passengers'[f]) = Cardinality(kept(f)) + Cardinality(to(f))
    <2>1. kept(f) \subseteq Aboard /\ to(f) \subseteq on
        BY DEF Aboard
    <2> DEFINE k == kept(f)  t == to(f)
    <2>2. IsFiniteSet(k) /\ IsFiniteSet(t)
        BY <1>2, <2>1, FS_Subset
    <2>3. k \cap t = {}
        BY <1>2, <2>1
    <2>4. passengers'[f] = k \cup t
        BY <1>1
    <2> HIDE DEF k, t
    <2>5. /\ Cardinality(k) \in Nat /\ Cardinality(t) \in Nat
          /\ Cardinality(k \cup t) = Cardinality(k) + Cardinality(t)
        BY <2>2, <2>3, DisjointUnion
    <2>6. Cardinality(passengers'[f]) = Cardinality(k) + Cardinality(t) /\ Cardinality(k) + Cardinality(t) \in Nat
        BY <2>4, <2>5
    <2> QED
        BY <2>6 DEF k, t
<1>6. occupancy' = Cardinality(Aboard') /\ occupancy' \in Nat
    <2>1. occupancy = Cardinality(Aboard)
        BY DEF ElevatorInv, OccupancyRight
    <2> QED
        BY <1>3, <2>1, UpdateNumbers
<1>7. \A f \in Floors : counts'[f] = Cardinality(passengers'[f]) /\ counts'[f] \in Nat
    BY <1>3, <1>4, <1>5
<1>8. counts' \in [Floors -> Nat]
    BY <1>3, <1>4, <1>5
<1> QED
    BY <1>6, <1>7, <1>8 DEF OccupancyRight

\* Everybody who has arrived is still accounted for.
LEMMA UpdateConserved ==
    ASSUME ElevatorInv, NEW n \in Nat, NEW who \in [1..n -> Draws], NEW dec \in Decisions,
           UpdateSystem(who, dec)
    PROVE  /\ PeopleConserved'
           /\ history'.arrived = history.arrived + n
           /\ {history'.arrived, history'.boarded, history'.delivered} \subseteq Nat
<1>1. /\ history'.arrived = history.arrived + Cardinality(DOMAIN who)
      /\ history'.boarded = history.boarded + NumOn(who, dec)
      /\ history'.delivered = history.delivered + NumOff(dec)
      /\ occupancy' = occupancy - NumOff(dec) + NumOn(who, dec)
      /\ abandoned' = abandoned
    BY DEF UpdateSystem, Record, ServePassengers
<1>2. Cardinality(DOMAIN who) = n
    BY FS_Interval
<1>3. /\ NumOn(who, dec) \in Nat /\ NumOff(dec) \in Nat
      /\ Cardinality(Waiting') = Cardinality(Waiting) + n - NumOn(who, dec)
      /\ Cardinality(Waiting) \in Nat
    BY UpdateNumbers
<1>4. /\ history.arrived = history.boarded + Cardinality(Waiting) + abandoned.waiting
      /\ history.boarded = history.delivered + occupancy + abandoned.aboard
    BY DEF ElevatorInv, PeopleConserved
<1>5. /\ history.arrived \in Nat /\ history.boarded \in Nat /\ history.delivered \in Nat
      /\ occupancy \in Nat /\ abandoned.waiting \in Nat /\ abandoned.aboard \in Nat
    BY DEF ElevatorInv, FlowType
<1>6. history'.arrived = history.arrived + n
    BY <1>1, <1>2
<1> DEFINE before == Cardinality(Waiting)  off == NumOff(dec)  on == NumOn(who, dec)
           arrived == history.arrived  boarded == history.boarded  delivered == history.delivered
           gone == abandoned.waiting  left == abandoned.aboard
<1>7. /\ arrived + n = (boarded + on) + (before + n - on) + gone
      /\ boarded + on = (delivered + off) + (occupancy - off + on) + left
      /\ {arrived + n, boarded + on, delivered + off} \subseteq Nat
    <2>1. /\ before \in Nat /\ off \in Nat /\ on \in Nat /\ occupancy \in Nat
          /\ arrived \in Nat /\ boarded \in Nat /\ delivered \in Nat
          /\ gone \in Nat /\ left \in Nat
        BY <1>3, <1>5
    <2>2. arrived = boarded + before + gone /\ boarded = delivered + occupancy + left
        BY <1>4
    <2> HIDE DEF before, off, on, arrived, boarded, delivered, gone, left
    <2>3. arrived + n = (boarded + on) + (before + n - on) + gone
        BY <2>1, <2>2
    <2>4. boarded + on = (delivered + off) + (occupancy - off + on) + left
        BY <2>1, <2>2
    <2>5. {arrived + n, boarded + on, delivered + off} \subseteq Nat
        BY <2>1
    <2> QED
        BY <2>3, <2>4, <2>5
<1>8. PeopleConserved'
    BY <1>1, <1>3, <1>6, <1>7, Zenon DEF PeopleConserved
<1> QED
    BY <1>1, <1>6, <1>7, <1>8, Zenon

\* Whoever comes has a higher number than all before, and comes no earlier.
LEMMA UpdateNumbered ==
    ASSUME ElevatorInv, NEW n \in Nat, NEW who \in [1..n -> Draws], NEW dec \in Decisions,
           UpdateSystem(who, dec)
    PROVE  /\ Numbered'
           /\ \A p, q \in Waiting \cup Arriving(who) : p.nr <= q.nr => p.since <= q.since
<1>1. /\ now \in Nat /\ now' = now + 1
      /\ history.arrived \in Nat /\ history'.arrived = history.arrived + n
    BY UpdateConserved DEF ElevatorInv, FlowType, UpdateSystem
<1>2. \A p \in Waiting \cup Aboard : p.nr <= history.arrived /\ p.since <= now
    BY DEF ElevatorInv, Numbered
<1>3. \A p \in Arriving(who) : /\ p.nr > history.arrived /\ p.nr <= history.arrived + n
                               /\ p.since = now
    BY ArrivingFacts DEF ElevatorInv
<1>4. \A p \in Waiting \cup Aboard \cup Arriving(who) : p.nr \in Nat /\ p.since \in Nat
    <2>1. Waiting \subseteq Person /\ Aboard \subseteq Person
        BY DEF ElevatorInv, FlowType, Waiting, Aboard
    <2>2. Arriving(who) \subseteq Person
        BY ArrivingFacts DEF ElevatorInv
    <2>3. \A p \in Person : p.nr \in Nat /\ p.since \in Nat
        BY DEF Person
    <2> QED
        BY <2>1, <2>2, <2>3
<1>5. \A p, q \in Waiting : p.nr <= q.nr => p.since <= q.since
    BY DEF ElevatorInv, Numbered
<1>6. ASSUME NEW p \in Waiting \cup Arriving(who), NEW q \in Waiting \cup Arriving(who), p.nr <= q.nr
      PROVE  p.since <= q.since
    <2>1. CASE q \in Arriving(who)
        BY <1>1, <1>2, <1>3, <1>4, <2>1
    <2>2. CASE q \in Waiting /\ p \in Waiting
        BY <1>5, <1>6, <2>2
    <2>3. CASE q \in Waiting /\ p \in Arriving(who)
        BY <1>1, <1>2, <1>3, <1>4, <1>6, <2>3
    <2> QED
        BY <2>1, <2>2, <2>3
<1>7. \A p \in Waiting \cup Aboard \cup Arriving(who) : p.nr <= history'.arrived /\ p.since <= now'
    BY <1>1, <1>2, <1>3, <1>4
<1>8. Waiting' \subseteq Waiting \cup Arriving(who)
      /\ Waiting' \cup Aboard' \subseteq Waiting \cup Aboard \cup Arriving(who)
    BY WaitingFacts, AboardFacts
<1> QED
    BY <1>6, <1>7, <1>8 DEF Numbered

\* A button is lit by the first who joins the queue, and reset with the queue.
LEMMA UpdateButtons ==
    ASSUME ElevatorInv, NEW n \in Nat, NEW who \in [1..n -> Draws], NEW dec \in Decisions,
           UpdateSystem(who, dec)
    PROVE  /\ ButtonsTellQueues'
           /\ pressed' \in [Calls -> BOOLEAN] /\ pressedTime' \in [Calls -> Nat]
<1>1. /\ pressed \in [Calls -> BOOLEAN] /\ pressedTime \in [Calls -> Nat] /\ now \in Nat
      /\ queues \in [Calls -> SUBSET Person]
    BY DEF ElevatorInv, FlowType
<1>2. /\ queues' = [c \in Calls |-> IF Served(dec, c) THEN {} ELSE Queue(who, c)]
      /\ pressed' = [c \in Calls |-> ~Served(dec, c) /\ (pressed[c] \/ Callers(who, c) # {})]
      /\ pressedTime' = [c \in Calls |-> IF Served(dec, c) THEN 0
                                         ELSE IF ~pressed[c] /\ Callers(who, c) # {} THEN now
                                         ELSE pressedTime[c]]
    BY DEF UpdateSystem, ServeCalls
<1>3. pressed' \in [Calls -> BOOLEAN]
    BY <1>2, Zenon
<1>4. pressedTime' \in [Calls -> Nat]
    BY <1>1, <1>2
<1>5. ASSUME NEW c \in Calls
      PROVE  /\ pressed'[c] <=> queues'[c] # {}
             /\ pressed'[c] => /\ \A p \in queues'[c] : pressedTime'[c] <= p.since
                               /\ \E p \in queues'[c] : pressedTime'[c] = p.since
    <2>1. /\ pressed[c] <=> queues[c] # {}
          /\ pressed[c] => /\ \A p \in queues[c] : pressedTime[c] <= p.since
                           /\ \E p \in queues[c] : pressedTime[c] = p.since
        BY DEF ElevatorInv, ButtonsTellQueues
    <2>2. \A p \in queues[c] : p.since \in Nat /\ p.since <= now
        BY <1>1 DEF ElevatorInv, Numbered, Waiting, Person
    <2>3. \A p \in Callers(who, c) : p.since = now
        BY ArrivingFacts DEF ElevatorInv, Callers
    <2>4. Queue(who, c) = queues[c] \cup Callers(who, c)
        BY DEF Queue
    <2>5. CASE Served(dec, c)
        <3>1. queues'[c] = {}
            BY <1>2, <2>5
        <3>2. ~pressed'[c]
            BY <1>2, <2>5, Zenon
        <3> QED
            BY <3>1, <3>2
    <2>6. CASE ~Served(dec, c) /\ pressed[c]
        <3>1. queues'[c] = queues[c] \cup Callers(who, c) /\ pressedTime'[c] = pressedTime[c]
            BY <1>2, <2>4, <2>6
        <3>2. pressed'[c]
            BY <1>2, <2>6, Zenon
        <3>3. PICK p \in queues[c] : pressedTime[c] = p.since
            BY <2>1, <2>6
        <3>4. pressedTime[c] <= now
            BY <2>2, <3>3
        <3>5. \A q \in queues'[c] : pressedTime'[c] <= q.since
            BY <2>1, <2>3, <2>6, <3>1, <3>4
        <3> QED
            BY <3>1, <3>2, <3>3, <3>5
    <2>7. CASE ~Served(dec, c) /\ ~pressed[c] /\ Callers(who, c) # {}
        <3>1. queues'[c] = Callers(who, c) /\ pressedTime'[c] = now
            BY <1>2, <2>1, <2>4, <2>7
        <3>2. pressed'[c]
            BY <1>2, <2>7, Zenon
        <3>3. \A q \in queues'[c] : pressedTime'[c] = q.since
            BY <2>3, <3>1
        <3> QED
            BY <1>1, <2>7, <3>1, <3>2, <3>3
    <2>8. CASE ~Served(dec, c) /\ ~pressed[c] /\ Callers(who, c) = {}
        <3>1. queues'[c] = {}
            BY <1>2, <2>1, <2>4, <2>8
        <3>2. ~pressed'[c]
            BY <1>2, <2>8, Zenon
        <3> QED
            BY <3>1, <3>2
    <2> QED
        BY <2>5, <2>6, <2>7, <2>8
<1> QED
    BY <1>3, <1>4, <1>5 DEF ButtonsTellQueues

\* The front of the queue has waited longest, because queues are in the order of arrival.
LEMMA FrontWaitedLongest ==
    ASSUME ElevatorInv, NEW n \in Nat, NEW who \in [1..n -> Draws], NEW dec \in Decisions,
           UpdateSystem(who, dec)
    PROVE  /\ history'.maxQueuing \in Nat
           /\ \A p \in Boarding(who, dec) : now - p.since <= history'.maxQueuing
<1> DEFINE on == Boarding(who, dec)  longest == LongestQueuing(who, dec)
           front == CHOOSE p \in on : \A q \in on : p.nr <= q.nr
<1>1. history'.maxQueuing = Larger(history.maxQueuing, longest)
    BY DEF UpdateSystem, Record
<1>2. history.maxQueuing \in Nat /\ now \in Nat
    BY DEF ElevatorInv, FlowType
<1>3. \A p \in on : p.nr \in Nat /\ p.since \in Nat /\ p.since <= now
    <2>1. on \subseteq Waiting \cup Arriving(who)
        BY WaitingFacts
    <2>2. \A p \in Waiting : p.nr \in Nat /\ p.since \in Nat /\ p.since <= now
        BY DEF ElevatorInv, FlowType, Numbered, Waiting, Person
    <2>3. \A p \in Arriving(who) : p.nr \in Nat /\ p.since \in Nat /\ p.since <= now
        BY <1>2, ArrivingFacts DEF ElevatorInv, Person
    <2> QED
        BY <2>1, <2>2, <2>3
<1>4. \A p, q \in on : p.nr <= q.nr => p.since <= q.since
    BY WaitingFacts, UpdateNumbered
<1>5. CASE on = {}
    BY <1>1, <1>2, <1>5 DEF LongestQueuing, Larger
<1>6. CASE on # {}
    <2>1. longest = now - front.since
        BY <1>6 DEF LongestQueuing
    <2>2. front \in on /\ \A q \in on : front.nr <= q.nr
        <3> DEFINE nr == [p \in on |-> p.nr]
        <3>1. nr \in [on -> Int] /\ IsFiniteSet(on)
            BY <1>3, UpdateInPlace
        <3>2. \E p \in on : \A q \in on : nr[p] <= nr[q]
            <4> HIDE DEF on, nr
            <4> QED
                BY <1>6, <3>1, LeastExists
        <3>3. \E p \in on : \A q \in on : p.nr <= q.nr
            BY <3>2
        <3> QED
            BY <3>3
    <2> HIDE DEF on, front, longest
    <2>3. longest \in Nat /\ \A p \in on : now - p.since <= longest
        BY <1>2, <1>3, <1>4, <2>1, <2>2
    <2>4. history'.maxQueuing \in Nat /\ longest <= history'.maxQueuing
        BY <1>1, <1>2, <2>3 DEF Larger
    <2>5. \A p \in on : now - p.since <= history'.maxQueuing
        BY <1>2, <1>3, <2>3, <2>4
    <2> QED
        BY <2>4, <2>5 DEF on
<1> QED
    BY <1>5, <1>6

LEMMA UpdateType ==
    ASSUME ElevatorInv, NEW n \in Nat, NEW who \in [1..n -> Draws], NEW dec \in Decisions,
           UpdateSystem(who, dec)
    PROVE  FlowType'
<1>1. location' \in Floors
    <2>1. location \in 0..(NumFloors - 1) /\ NumFloors \in Nat
        BY ElevatorAssumption DEF ElevatorInv, FlowType, Floors
    <2>2. /\ Heading(dec) = "up" => location # NumFloors - 1
          /\ Heading(dec) = "down" => location # 0
        BY DEF Heading
    <2>3. location' = CASE Heading(dec) = "up" -> location + 1
                        [] Heading(dec) = "down" -> location - 1
                        [] OTHER -> location
        BY DEF UpdateSystem, Move
    <2>4. CASE Heading(dec) = "up"
        BY <2>1, <2>2, <2>3, <2>4 DEF Floors
    <2>5. CASE Heading(dec) = "down"
        BY <2>1, <2>2, <2>3, <2>5 DEF Floors
    <2>6. CASE Heading(dec) \notin {"up", "down"}
        BY <2>1, <2>3, <2>6 DEF Floors
    <2> QED
        BY <2>4, <2>5, <2>6
<1>2. queues' \in [Calls -> SUBSET Person]
    <2>1. queues' = [c \in Calls |-> IF Served(dec, c) THEN {} ELSE Queue(who, c)]
        BY DEF UpdateSystem, ServeCalls
    <2>2. \A c \in Calls : Queue(who, c) \subseteq Person
        BY WaitingFacts
    <2> QED
        BY <2>1, <2>2
<1>3. passengers' \in [Floors -> SUBSET Person]
    <2>1. passengers' = [f \in Floors |-> (passengers[f] \ GettingOff(dec))
                                              \cup {p \in Boarding(who, dec) : p.to = f}]
        BY DEF UpdateSystem, ServePassengers
    <2>2. Boarding(who, dec) \subseteq Person
        <3>1. Boarding(who, dec) \subseteq Waiting \cup Arriving(who)
            BY WaitingFacts
        <3>2. \A c \in Calls : queues[c] \subseteq Person
            BY DEF ElevatorInv, FlowType
        <3>3. Waiting \subseteq Person
            BY <3>2 DEF Waiting
        <3>4. Arriving(who) \subseteq Person
            BY ArrivingFacts, Zenon DEF ElevatorInv
        <3> QED
            BY <3>1, <3>3, <3>4
    <2>3. \A f \in Floors : passengers[f] \subseteq Person
        BY DEF ElevatorInv, FlowType
    <2> QED
        BY <2>1, <2>2, <2>3
<1>4. pressed' \in [Calls -> BOOLEAN] /\ pressedTime' \in [Calls -> Nat]
    BY UpdateButtons
<1>5. counts' \in [Floors -> Nat] /\ occupancy' \in Nat
    BY UpdateOccupancy
<1>6. now' \in Nat /\ {abandoned'.waiting, abandoned'.aboard} \subseteq Nat
    BY DEF ElevatorInv, FlowType, UpdateSystem
<1>7. {history'.arrived, history'.boarded, history'.delivered, history'.maxQueuing} \subseteq Nat
    BY UpdateConserved, FrontWaitedLongest
<1> QED
    BY <1>1, <1>2, <1>3, <1>4, <1>5, <1>6, <1>7 DEF FlowType

LEMMA UpdateInv ==
    ASSUME ElevatorInv, NEW n \in Nat, NEW who \in [1..n -> Draws], NEW dec \in Decisions,
           UpdateSystem(who, dec)
    PROVE  ElevatorInv'
BY UpdateType, UpdateInPlace, UpdateNumbered, UpdateConserved, UpdateOccupancy, UpdateButtons
DEF ElevatorInv

-----------------------------------------------------------------------------
(* The times *)

\* How long the people of S have been in the system at time t, in all.
SpentBy(t, S) == SumFunctionOnSet([p \in S |-> t - p.since], S)

\* S is finite and nobody in it came after t.
CameBy(t, S) == IsFiniteSet(S) /\ S \subseteq Person /\ \A p \in S : p.since <= t

LEMMA SpentOfParts ==
    ASSUME NEW t \in Nat, NEW S, CameBy(t, S), NEW T, CameBy(t, T), S \cap T = {}
    PROVE  /\ SpentBy(t, S) \in Nat
           /\ SpentBy(t, S \cup T) = SpentBy(t, S) + SpentBy(t, T)
<1> DEFINE f == [p \in S \cup T |-> t - p.since]
           g == [p \in S |-> t - p.since]
           h == [p \in T |-> t - p.since]
<1>1. \A p \in S \cup T : f[p] \in Nat
    BY DEF CameBy, Person
<1>2. /\ \A p \in S : f[p] \in Int /\ g[p] = f[p] /\ g[p] \in Nat
      /\ \A p \in T : f[p] \in Int /\ h[p] = f[p]
    <2>1. (\A p \in S : g[p] = f[p]) /\ (\A p \in T : h[p] = f[p])
        OBVIOUS
    <2> HIDE DEF f, g, h
    <2> QED
        BY <1>1, <2>1
<1>3. IsFiniteSet(S) /\ IsFiniteSet(T)
    BY DEF CameBy
<1>4. SpentBy(t, S) = SumFunctionOnSet(g, S) /\ SpentBy(t, T) = SumFunctionOnSet(h, T)
      /\ SpentBy(t, S \cup T) = SumFunctionOnSet(f, S \cup T)
    BY DEF SpentBy
<1> HIDE DEF f, g, h
<1>5. SumFunctionOnSet(f, S \cup T) = SumFunctionOnSet(f, S) + SumFunctionOnSet(f, T)
    <2>1. \A p \in S \cup T : f[p] \in Int
        BY <1>1
    <2> QED
        BY <1>3, <2>1, SumUnion
<1>6. SumFunctionOnSet(g, S) = SumFunctionOnSet(f, S)
    BY <1>2, <1>3, SumEqual
<1>7. SumFunctionOnSet(h, T) = SumFunctionOnSet(f, T)
    BY <1>2, <1>3, SumEqual
<1>8. SumFunctionOnSet(g, S) \in Nat
    BY <1>2, <1>3, SumNat
<1> QED
    BY <1>4, <1>5, <1>6, <1>7, <1>8

\* A period later, everybody has been there for one more.
LEMMA SpentLater ==
    ASSUME NEW t \in Nat, NEW S, CameBy(t, S)
    PROVE  SpentBy(t + 1, S) = SpentBy(t, S) + Cardinality(S)
<1> DEFINE f == [p \in S |-> t - p.since]
           g == [p \in S |-> 1]
           h == [p \in S |-> (t + 1) - p.since]
<1>1. /\ \A p \in S : f[p] \in Int /\ g[p] \in Int /\ h[p] = f[p] + g[p]
      /\ \A p \in S : g[p] = 1
    BY DEF CameBy, Person
<1>2. IsFiniteSet(S)
    BY DEF CameBy
<1>3. SpentBy(t, S) = SumFunctionOnSet(f, S) /\ SpentBy(t + 1, S) = SumFunctionOnSet(h, S)
    BY DEF SpentBy
<1> HIDE DEF f, g, h
<1>4. SumFunctionOnSet(h, S) = SumFunctionOnSet(f, S) + SumFunctionOnSet(g, S)
    BY <1>1, <1>2, SumPlus
<1>5. SumFunctionOnSet(g, S) = Cardinality(S)
    BY <1>1, <1>2, SumOfOnes
<1> QED
    BY <1>3, <1>4, <1>5

\* Who has just come has spent nothing.
LEMMA SpentByNewcomers ==
    ASSUME NEW t \in Nat, NEW S, IsFiniteSet(S), \A p \in S : p.since = t
    PROVE  SpentBy(t, S) = 0
<1> DEFINE f == [p \in S |-> t - p.since]
<1>1. \A p \in S : f[p] = 0
    OBVIOUS
<1>2. SpentBy(t, S) = SumFunctionOnSet(f, S)
    BY DEF SpentBy
<1> HIDE DEF f
<1> QED
    BY <1>1, <1>2, SumZero

\* Who is in the system came by now, and nobody who arrives is there yet.
LEMMA PeopleCameBy ==
    ASSUME ElevatorInv, NEW n \in Nat, NEW who \in [1..n -> Draws]
    PROVE  /\ CameBy(now, Waiting) /\ CameBy(now, Aboard) /\ CameBy(now, Arriving(who))
           /\ SpentBy(now, Arriving(who)) = 0
<1>1. now \in Nat /\ Waiting \subseteq Person /\ Aboard \subseteq Person
    BY DEF ElevatorInv, FlowType, Waiting, Aboard
<1>2. CameBy(now, Waiting) /\ CameBy(now, Aboard)
    BY <1>1 DEF ElevatorInv, InPlace, Numbered, CameBy
<1>3. /\ Arriving(who) \subseteq Person /\ IsFiniteSet(Arriving(who))
      /\ \A p \in Arriving(who) : p.since = now
    BY ArrivingFacts DEF ElevatorInv
<1>4. CameBy(now, Arriving(who))
    BY <1>1, <1>3 DEF CameBy
<1> QED
    BY <1>1, <1>2, <1>3, <1>4, SpentByNewcomers

\* The time that those waiting have spent loses that of those who board and gains a period
\* for everybody who waits on; the same for those in the system and those who get off.
LEMMA UpdateSpent ==
    ASSUME ElevatorInv, NEW n \in Nat, NEW who \in [1..n -> Draws], NEW dec \in Decisions,
           UpdateSystem(who, dec)
    PROVE  /\ Spent(Waiting)' + Spent(Boarding(who, dec)) = Spent(Waiting) + Cardinality(Waiting')
           /\ Spent(Waiting \cup Aboard)' + Spent(GettingOff(dec)) =
                  Spent(Waiting \cup Aboard) + Cardinality(Waiting') + occupancy'
           /\ {Spent(Waiting), Spent(Boarding(who, dec)), Spent(Waiting \cup Aboard),
               Spent(GettingOff(dec)), Spent(Waiting)', Spent(Waiting \cup Aboard)',
               Cardinality(Waiting'), occupancy'} \subseteq Nat
<1> DEFINE on == Boarding(who, dec)  off == GettingOff(dec)  arr == Arriving(who)
           stay == Waiting'  all == Waiting' \cup Aboard'  t == now
<1>1. /\ on \subseteq Waiting \cup arr /\ stay = (Waiting \cup arr) \ on
      /\ off \subseteq Aboard /\ Aboard' = (Aboard \ off) \cup on
    BY WaitingFacts, AboardFacts
<1>2. /\ on \cap Aboard = {} /\ arr \cap Waiting = {} /\ arr \cap Aboard = {} /\ IsFiniteSet(on)
      /\ Waiting \cap Aboard = {} /\ Waiting' \cap Aboard' = {}
    BY UpdateInPlace DEF ElevatorInv, InPlace
<1>3. /\ CameBy(t, Waiting) /\ CameBy(t, Aboard) /\ CameBy(t, arr)
      /\ SpentBy(t, arr) = 0
    BY PeopleCameBy
<1>4. t \in Nat /\ now' = t + 1
    BY DEF ElevatorInv, FlowType, UpdateSystem
<1>5. /\ Spent(Waiting) = SpentBy(t, Waiting) /\ Spent(on) = SpentBy(t, on)
      /\ Spent(Waiting \cup Aboard) = SpentBy(t, Waiting \cup Aboard)
      /\ Spent(off) = SpentBy(t, off)
    BY DEF Spent, SpentBy
<1>6. Spent(Waiting)' = SpentBy(t + 1, stay) /\ Spent(Waiting \cup Aboard)' = SpentBy(t + 1, all)
    BY <1>4 DEF Spent, SpentBy
<1>7. /\ IsFiniteSet(stay) /\ IsFiniteSet(Aboard')
      /\ Cardinality(Aboard') = occupancy' /\ occupancy' \in Nat
    BY UpdateInPlace, UpdateOccupancy DEF InPlace, OccupancyRight
<1> HIDE DEF on, off, arr, stay, all, t
<1>8. CameBy(t, on) /\ CameBy(t, stay) /\ CameBy(t, off)
    <2>1. IsFiniteSet(Aboard)
        BY <1>3 DEF CameBy
    <2>2. IsFiniteSet(off)
        BY <1>1, <2>1, FS_Subset
    <2> QED
        BY <1>1, <1>2, <1>3, <1>7, <2>2 DEF CameBy
<1>9. /\ SpentBy(t, Waiting \cup arr) = SpentBy(t, Waiting) + SpentBy(t, arr)
      /\ SpentBy(t, Waiting) \in Nat
    <2>1. Waiting \cap arr = {}
        BY <1>2
    <2> QED
        BY <1>3, <1>4, <2>1, SpentOfParts
<1>10. /\ SpentBy(t, stay \cup on) = SpentBy(t, stay) + SpentBy(t, on)
       /\ stay \cup on = Waiting \cup arr
       /\ SpentBy(t, stay) \in Nat /\ SpentBy(t, on) \in Nat
    <2>1. stay \cap on = {} /\ on \cap stay = {} /\ stay \cup on = Waiting \cup arr
        BY <1>1
    <2> QED
        BY <1>4, <1>8, <2>1, SpentOfParts
<1>11. SpentBy(t + 1, stay) = SpentBy(t, stay) + Cardinality(stay) /\ Cardinality(stay) \in Nat
    BY <1>4, <1>7, <1>8, SpentLater, FS_CardinalityType
<1>12. SpentBy(t + 1, stay) + SpentBy(t, on) = SpentBy(t, Waiting) + Cardinality(stay)
    <2>1. SpentBy(t, Waiting) = SpentBy(t, stay) + SpentBy(t, on)
        <3>1. SpentBy(t, Waiting \cup arr) = SpentBy(t, stay) + SpentBy(t, on)
            BY <1>10
        <3>2. SpentBy(t, Waiting \cup arr) = SpentBy(t, Waiting) + 0
            BY <1>3, <1>9
        <3> QED
            BY <1>9, <3>1, <3>2
    <2> QED
        BY <1>9, <1>10, <1>11, <2>1
<1>13. CameBy(t, Waiting \cup Aboard) /\ CameBy(t, all)
    <2>1. IsFiniteSet(Waiting \cup Aboard)
        BY <1>3, FS_Union DEF CameBy
    <2>2. IsFiniteSet(stay \cup Aboard') /\ all = stay \cup Aboard'
        BY <1>7, FS_Union DEF all, stay
    <2>3. all \subseteq Waiting \cup Aboard \cup arr
        BY <1>1, <2>2
    <2> QED
        BY <1>3, <2>1, <2>2, <2>3 DEF CameBy
<1>14. /\ SpentBy(t, (Waiting \cup Aboard) \cup arr) =
              SpentBy(t, Waiting \cup Aboard) + SpentBy(t, arr)
       /\ SpentBy(t, Waiting \cup Aboard) \in Nat
    <2>1. (Waiting \cup Aboard) \cap arr = {}
        BY <1>2
    <2> QED
        BY <1>3, <1>4, <1>13, <2>1, SpentOfParts
<1>15. /\ SpentBy(t, all \cup off) = SpentBy(t, all) + SpentBy(t, off)
       /\ all \cup off = (Waiting \cup Aboard) \cup arr
       /\ SpentBy(t, all) \in Nat /\ SpentBy(t, off) \in Nat
    <2>1. all \cap off = {} /\ off \cap all = {} /\ all \cup off = (Waiting \cup Aboard) \cup arr
        BY <1>1, <1>2 DEF all, stay
    <2> QED
        BY <1>4, <1>8, <1>13, <2>1, SpentOfParts
<1>16. SpentBy(t + 1, all) = SpentBy(t, all) + Cardinality(all)
    BY <1>4, <1>13, SpentLater
<1>17. Cardinality(all) = Cardinality(stay) + occupancy'
    BY <1>2, <1>7, DisjointUnion DEF all, stay
<1>18. SpentBy(t + 1, all) + SpentBy(t, off) =
           SpentBy(t, Waiting \cup Aboard) + Cardinality(stay) + occupancy'
    <2>1. SpentBy(t, Waiting \cup Aboard) = SpentBy(t, all) + SpentBy(t, off)
        <3>1. SpentBy(t, (Waiting \cup Aboard) \cup arr) = SpentBy(t, all) + SpentBy(t, off)
            BY <1>15
        <3>2. SpentBy(t, (Waiting \cup Aboard) \cup arr) = SpentBy(t, Waiting \cup Aboard) + 0
            BY <1>3, <1>14
        <3> QED
            BY <1>14, <3>1, <3>2
    <2> QED
        BY <1>7, <1>11, <1>14, <1>15, <1>16, <1>17, <2>1
<1>19. SpentBy(t + 1, stay) \in Nat /\ SpentBy(t + 1, all) \in Nat
    BY <1>7, <1>10, <1>11, <1>15, <1>16, <1>17
<1> QED
    BY <1>5, <1>6, <1>7, <1>9, <1>10, <1>11, <1>12, <1>14, <1>15, <1>18, <1>19
       DEF on, off, stay

\* The longest delivery, found by a search through those who get off, is one of them.
LEMMA LongestDeliveryNat ==
    ASSUME NEW dec, now \in Nat, CameBy(now, GettingOff(dec))
    PROVE  LongestDelivery(dec) \in Nat
<1> DEFINE off == GettingOff(dec)  times == {p.since : p \in off}  m == Min(times)
<1>1. CASE off = {}
    BY <1>1 DEF LongestDelivery
<1>2. CASE off # {}
    <2>1. \A p \in off : p.since \in Nat /\ p.since <= now
        BY DEF CameBy, Person
    <2>2. \E p \in off : \A q \in off : p.since <= q.since
        <3> DEFINE f == [p \in off |-> p.since]
        <3>1. f \in [off -> Int] /\ IsFiniteSet(off)
            BY <2>1 DEF CameBy
        <3>2. \E p \in off : \A q \in off : f[p] <= f[q]
            <4> HIDE DEF off, f
            <4> QED
                BY <1>2, <3>1, LeastExists
        <3> QED
            BY <3>2
    <2>3. \E x \in times : \A y \in times : x <= y
        BY <2>2
    <2>4. m \in times
        BY <2>3 DEF Min
    <2>5. \A x \in times : x \in Nat /\ x <= now
        BY <2>1
    <2> HIDE DEF times
    <2>6. m \in Nat /\ m <= now
        BY <2>4, <2>5
    <2>7. LongestDelivery(dec) = now - m
        BY <1>2 DEF LongestDelivery, times
    <2> HIDE DEF m
    <2> QED
        BY <2>6, <2>7
<1> QED
    BY <1>1, <1>2

\* InclusiveTimesAgree is inductive with the invariant of the numbers of people and types.
TimesInv == ElevatorInv /\ ElevatorTypeOK /\ InclusiveTimesAgree

LEMMA NobodySpentNothing == SpentBy(now, {}) = 0
BY SumEmpty DEF SpentBy

LEMMA TimesInitInv == ElevatorInit => TimesInv
<1> SUFFICES ASSUME ElevatorInit PROVE TimesInv
    OBVIOUS
<1>1. ElevatorInv
    BY ElevatorInitInv
<1>2. Waiting = {} /\ Aboard = {} /\ Waiting \cup Aboard = {}
    BY NobodyThere DEF ElevatorInit
<1>3. Spent(Waiting) = 0 /\ Spent(Waiting \cup Aboard) = 0
    BY <1>2, NobodySpentNothing DEF Spent, SpentBy
<1>4. ElevatorTypeOK
    <2>1. history = NoHistory /\ abandoned = NothingAbandoned
          /\ direction = "none" /\ transitions = NoTransitions
        BY DEF ElevatorInit
    <2>2. \A h \in DOMAIN NoHistory : history[h] \in Nat
        BY <2>1 DEF NoHistory
    <2>3. \A a \in DOMAIN NothingAbandoned : abandoned[a] \in Nat
        BY <2>1 DEF NothingAbandoned
    <2>4. transitions \in [arrivals : [Calls -> Nat], off : Nat, on : Nat]
        BY <2>1 DEF NoTransitions
    <2> QED
        BY <1>1, <2>1, <2>2, <2>3, <2>4 DEF ElevatorInv, FlowType, ElevatorTypeOK, Directions
<1>5. InclusiveTimesAgree
    BY <1>3 DEF InclusiveTimesAgree, ElevatorInit, NoHistory, NothingAbandoned
<1> QED
    BY <1>1, <1>4, <1>5 DEF TimesInv

\* The fields of the history and of what was abandoned, one by one.
HistoryFields == {"arrived", "boarded", "delivered", "distance", "idle", "queuing", "maxQueuing",
                  "inclusiveQueuing", "delivery", "maxDelivery", "inclusiveDelivery"}
AbandonedFields == {"restarts", "waiting", "aboard", "queuing", "delivery"}

LEMMA Fields == DOMAIN NoHistory = HistoryFields /\ DOMAIN NothingAbandoned = AbandonedFields
BY DEF NoHistory, NothingAbandoned, HistoryFields, AbandonedFields

\* Those abandoned take with them the times they had spent.
LEMMA InitializeTimes == TimesInv /\ Initialize => TimesInv'
<1> SUFFICES ASSUME TimesInv, Initialize PROVE TimesInv'
    OBVIOUS
<1>1. ElevatorInv' /\ ElevatorInv
    BY InitializeInv DEF TimesInv
<1>2. Waiting' = {} /\ Aboard' = {} /\ (Waiting \cup Aboard)' = {}
    BY DEF Initialize, Waiting, Aboard
<1>3. Spent(Waiting)' = 0 /\ Spent(Waiting \cup Aboard)' = 0
    BY <1>2, SumEmpty DEF Spent
<1>4. Spent(Waiting) \in Nat /\ Spent(Waiting \cup Aboard) \in Nat
    <2>1. now \in Nat /\ Waiting \cap Aboard = {}
        BY <1>1 DEF ElevatorInv, FlowType, InPlace
    <2>2. /\ Waiting \subseteq Person /\ Aboard \subseteq Person
          /\ IsFiniteSet(Waiting) /\ IsFiniteSet(Aboard)
          /\ \A p \in Waiting \cup Aboard : p.since <= now
        BY <1>1 DEF ElevatorInv, FlowType, InPlace, Numbered, Waiting, Aboard
    <2>3. CameBy(now, Waiting) /\ CameBy(now, Aboard)
        BY <2>2 DEF CameBy
    <2>4. /\ SpentBy(now, Waiting) \in Nat /\ SpentBy(now, Aboard) \in Nat
          /\ SpentBy(now, Waiting \cup Aboard) = SpentBy(now, Waiting) + SpentBy(now, Aboard)
        <3>1. Aboard \cap Waiting = {}
            BY <2>1
        <3> QED
            BY <2>1, <2>3, <3>1, SpentOfParts
    <2>5. SpentBy(now, Waiting \cup Aboard) \in Nat
        BY <2>4
    <2> QED
        BY <2>4, <2>5 DEF Spent, SpentBy
<1>5. /\ abandoned' = [restarts |-> abandoned.restarts + 1,
                       waiting |-> abandoned.waiting + Cardinality(Waiting),
                       aboard |-> abandoned.aboard + Cardinality(Aboard),
                       queuing |-> abandoned.queuing + Spent(Waiting),
                       delivery |-> abandoned.delivery + Spent(Waiting \cup Aboard)]
      /\ history' = history /\ direction' = "none" /\ transitions' = NoTransitions
    BY DEF Initialize
<1>6. \A a \in AbandonedFields : abandoned[a] \in Nat
    BY Fields DEF TimesInv, ElevatorTypeOK
<1>7. Cardinality(Waiting) \in Nat /\ Cardinality(Aboard) \in Nat
    BY <1>1, FS_CardinalityType DEF ElevatorInv, InPlace
<1>8. \A a \in AbandonedFields : abandoned'[a] \in Nat
    <2>1. /\ abandoned.restarts \in Nat /\ abandoned.waiting \in Nat /\ abandoned.aboard \in Nat
          /\ abandoned.queuing \in Nat /\ abandoned.delivery \in Nat
        BY <1>6 DEF AbandonedFields
    <2>2. /\ abandoned.restarts + 1 \in Nat
          /\ abandoned.waiting + Cardinality(Waiting) \in Nat
          /\ abandoned.aboard + Cardinality(Aboard) \in Nat
          /\ abandoned.queuing + Spent(Waiting) \in Nat
          /\ abandoned.delivery + Spent(Waiting \cup Aboard) \in Nat
        BY <1>4, <1>7, <2>1
    <2>3. /\ abandoned'.restarts \in Nat /\ abandoned'.waiting \in Nat /\ abandoned'.aboard \in Nat
          /\ abandoned'.queuing \in Nat /\ abandoned'.delivery \in Nat
        BY <1>5, <2>2
    <2> QED
        BY <2>3 DEF AbandonedFields
<1>9. DOMAIN abandoned' = AbandonedFields
    BY <1>5 DEF AbandonedFields
<1>10. transitions' \in [arrivals : [Calls -> Nat], off : Nat, on : Nat]
    BY <1>5 DEF NoTransitions
<1>11. ElevatorTypeOK'
    <2>1. DOMAIN history' = DOMAIN NoHistory /\ \A h \in DOMAIN NoHistory : history'[h] \in Nat
        BY <1>5 DEF TimesInv, ElevatorTypeOK
    <2>2. /\ DOMAIN abandoned' = DOMAIN NothingAbandoned
          /\ \A a \in DOMAIN NothingAbandoned : abandoned'[a] \in Nat
        BY <1>8, <1>9, Fields
    <2>3. direction' \in Directions
        BY <1>5 DEF Directions
    <2> QED
        BY <1>1, <1>10, <2>1, <2>2, <2>3 DEF ElevatorInv, FlowType, ElevatorTypeOK
<1>12. InclusiveTimesAgree'
    <2>1. /\ history.inclusiveQueuing = history.queuing + Spent(Waiting) + abandoned.queuing
          /\ history.inclusiveDelivery =
                 history.delivery + Spent(Waiting \cup Aboard) + abandoned.delivery
        BY DEF TimesInv, InclusiveTimesAgree
    <2>2. /\ abandoned'.queuing = abandoned.queuing + Spent(Waiting)
          /\ abandoned'.delivery = abandoned.delivery + Spent(Waiting \cup Aboard)
        BY <1>5
    <2>3. /\ history.queuing \in Nat /\ history.delivery \in Nat
          /\ abandoned.queuing \in Nat /\ abandoned.delivery \in Nat
        BY Fields DEF TimesInv, ElevatorTypeOK, HistoryFields, AbandonedFields
    <2>4. /\ history.inclusiveQueuing = history.queuing + 0 + abandoned'.queuing
          /\ history.inclusiveDelivery = history.delivery + 0 + abandoned'.delivery
        BY <1>4, <2>1, <2>2, <2>3
    <2> QED
        BY <1>3, <1>5, <2>4 DEF InclusiveTimesAgree
<1> QED
    BY <1>1, <1>11, <1>12 DEF TimesInv

\* What update writes to the history, field by field.
LEMMA UpdateHistory ==
    ASSUME TimesInv, NEW n \in Nat, NEW who \in [1..n -> Draws], NEW dec \in Decisions,
           UpdateSystem(who, dec)
    PROVE  /\ \A h \in HistoryFields : history[h] \in Nat
           /\ DOMAIN history' = HistoryFields
           /\ \A h \in HistoryFields : history'[h] \in Nat
           /\ history'.queuing = history.queuing + Spent(Boarding(who, dec))
           /\ history'.inclusiveQueuing = history.inclusiveQueuing + Cardinality(Waiting')
           /\ history'.delivery = history.delivery + Spent(GettingOff(dec))
           /\ history'.inclusiveDelivery =
                  history.inclusiveDelivery + Cardinality(Waiting') + occupancy'
<1>1. ElevatorInv
    BY DEF TimesInv
<1>2. \A h \in HistoryFields : history[h] \in Nat
    BY Fields DEF TimesInv, ElevatorTypeOK
<1> DEFINE waiting == Cardinality(Waiting')
           moves == IF Heading(dec) = "none" THEN 0 ELSE 1
<1>3. history' =
        [arrived |-> history.arrived + Cardinality(DOMAIN who),
         boarded |-> history.boarded + NumOn(who, dec),
         delivered |-> history.delivered + NumOff(dec),
         distance |-> history.distance + moves,
         idle |-> history.idle + 1 - moves,
         queuing |-> history.queuing + Spent(Boarding(who, dec)),
         maxQueuing |-> Larger(history.maxQueuing, LongestQueuing(who, dec)),
         inclusiveQueuing |-> history.inclusiveQueuing + waiting,
         delivery |-> history.delivery + Spent(GettingOff(dec)),
         maxDelivery |-> Larger(history.maxDelivery, LongestDelivery(dec)),
         inclusiveDelivery |-> history.inclusiveDelivery + waiting + occupancy']
    BY DEF UpdateSystem, Record
<1>4. DOMAIN history' = HistoryFields
    BY <1>3 DEF HistoryFields
<1>5. /\ history'.queuing = history.queuing + Spent(Boarding(who, dec))
      /\ history'.inclusiveQueuing = history.inclusiveQueuing + waiting
      /\ history'.delivery = history.delivery + Spent(GettingOff(dec))
      /\ history'.inclusiveDelivery = history.inclusiveDelivery + waiting + occupancy'
      /\ history'.distance = history.distance + moves
      /\ history'.idle = history.idle + 1 - moves
      /\ history'.maxDelivery = Larger(history.maxDelivery, LongestDelivery(dec))
    BY <1>3
<1>6. /\ history'.arrived \in Nat /\ history'.boarded \in Nat /\ history'.delivered \in Nat
    BY <1>1, UpdateConserved
<1>7. history'.maxQueuing \in Nat
    BY <1>1, FrontWaitedLongest
<1>8. /\ waiting \in Nat /\ occupancy' \in Nat
      /\ Spent(Boarding(who, dec)) \in Nat /\ Spent(GettingOff(dec)) \in Nat
    BY <1>1, UpdateSpent
<1>9. moves \in {0, 1}
    OBVIOUS
<1>10. LongestDelivery(dec) \in Nat
    <2>1. CameBy(now, Aboard)
        BY <1>1, PeopleCameBy
    <2>2. GettingOff(dec) \subseteq Aboard
        BY <1>1, AboardFacts
    <2>3. IsFiniteSet(Aboard)
        BY <2>1 DEF CameBy
    <2>4. IsFiniteSet(GettingOff(dec))
        BY <2>2, <2>3, FS_Subset
    <2>5. CameBy(now, GettingOff(dec))
        BY <2>1, <2>2, <2>4 DEF CameBy
    <2>6. now \in Nat
        BY <1>1 DEF ElevatorInv, FlowType
    <2> QED
        BY <2>5, <2>6, LongestDeliveryNat
<1>11. /\ history.queuing \in Nat /\ history.inclusiveQueuing \in Nat /\ history.delivery \in Nat
       /\ history.inclusiveDelivery \in Nat /\ history.distance \in Nat /\ history.idle \in Nat
       /\ history.maxDelivery \in Nat
    BY <1>2 DEF HistoryFields
<1> HIDE DEF waiting, moves
<1>12. /\ history'.queuing \in Nat /\ history'.inclusiveQueuing \in Nat
       /\ history'.delivery \in Nat /\ history'.inclusiveDelivery \in Nat
       /\ history'.distance \in Nat /\ history'.idle \in Nat
    <2>1. \A a, b, c \in Nat : a + b \in Nat /\ a + b + c \in Nat
        OBVIOUS
    <2>2. /\ history.queuing + Spent(Boarding(who, dec)) \in Nat
          /\ history.inclusiveQueuing + waiting \in Nat
          /\ history.delivery + Spent(GettingOff(dec)) \in Nat
          /\ history.inclusiveDelivery + waiting + occupancy' \in Nat
        BY <1>8, <1>11, <2>1, Zenon
    <2>3. history.distance + moves \in Nat /\ history.idle + 1 - moves \in Nat
        BY <1>9, <1>11
    <2> QED
        BY <1>5, <2>2, <2>3, Zenon
<1>13. history'.maxDelivery \in Nat
    BY <1>5, <1>10, <1>11 DEF Larger
<1>14. \A h \in HistoryFields : history'[h] \in Nat
    BY <1>6, <1>7, <1>12, <1>13 DEF HistoryFields
<1> QED
    BY <1>2, <1>4, <1>5, <1>14 DEF waiting

LEMMA UpdateTimes ==
    ASSUME TimesInv, NEW n \in Nat, NEW who \in [1..n -> Draws], NEW dec \in Decisions,
           UpdateSystem(who, dec)
    PROVE  TimesInv'
<1>1. ElevatorInv
    BY DEF TimesInv
<1>2. ElevatorInv'
    BY <1>1, UpdateInv
<1>3. abandoned' = abandoned
    BY DEF UpdateSystem
<1>4. ElevatorTypeOK'
    <2>1. direction' \in Directions
        BY DEF UpdateSystem, Move, Heading, Decisions, Directions
    <2>2. transitions' \in [arrivals : [Calls -> Nat], off : Nat, on : Nat]
        <3>1. transitions' = [arrivals |-> [c \in Calls |-> Cardinality(Callers(who, c))],
                              off |-> NumOff(dec), on |-> NumOn(who, dec)]
            BY DEF UpdateSystem
        <3>2. \A c \in Calls : Cardinality(Callers(who, c)) \in Nat
            <4>1. IsFiniteSet(Arriving(who))
                BY <1>1, ArrivingFacts DEF ElevatorInv
            <4>2. \A c \in Calls : Callers(who, c) \subseteq Arriving(who)
                BY DEF Callers
            <4> QED
                BY <4>1, <4>2, PartRemoved
        <3>3. NumOff(dec) \in Nat /\ NumOn(who, dec) \in Nat
            BY <1>1, UpdateNumbers
        <3> QED
            BY <3>1, <3>2, <3>3
    <2>3. DOMAIN history' = DOMAIN NoHistory /\ \A h \in DOMAIN NoHistory : history'[h] \in Nat
        BY UpdateHistory, Fields
    <2>4. /\ DOMAIN abandoned' = DOMAIN NothingAbandoned
          /\ \A a \in DOMAIN NothingAbandoned : abandoned'[a] \in Nat
        BY <1>3 DEF TimesInv, ElevatorTypeOK
    <2> QED
        BY <1>2, <2>1, <2>2, <2>3, <2>4 DEF ElevatorInv, FlowType, ElevatorTypeOK
<1>5. InclusiveTimesAgree'
    <2> DEFINE q == Spent(Waiting)  q1 == Spent(Waiting)'  on == Spent(Boarding(who, dec))
               d == Spent(Waiting \cup Aboard)  d1 == Spent(Waiting \cup Aboard)'
               off == Spent(GettingOff(dec))  w == Cardinality(Waiting')
    <2>1. /\ q1 + on = q + w /\ d1 + off = d + w + occupancy'
          /\ q \in Nat /\ q1 \in Nat /\ on \in Nat /\ d \in Nat /\ d1 \in Nat /\ off \in Nat
          /\ w \in Nat /\ occupancy' \in Nat
        BY <1>1, UpdateSpent
    <2>2. /\ history'.queuing = history.queuing + on
          /\ history'.inclusiveQueuing = history.inclusiveQueuing + w
          /\ history'.delivery = history.delivery + off
          /\ history'.inclusiveDelivery = history.inclusiveDelivery + w + occupancy'
        BY UpdateHistory
    <2>3. /\ history.inclusiveQueuing = history.queuing + q + abandoned.queuing
          /\ history.inclusiveDelivery = history.delivery + d + abandoned.delivery
        BY DEF TimesInv, InclusiveTimesAgree
    <2>4. /\ history.queuing \in Nat /\ history.delivery \in Nat
          /\ abandoned.queuing \in Nat /\ abandoned.delivery \in Nat
        BY Fields DEF TimesInv, ElevatorTypeOK, HistoryFields, AbandonedFields
    <2> HIDE DEF q, q1, on, d, d1, off, w
    <2> DEFINE hq == history.queuing  hd == history.delivery
               aq == abandoned.queuing  ad == abandoned.delivery  o == occupancy'
    <2>5. (hq + q + aq) + w = (hq + on) + q1 + aq
        <3>1. hq \in Nat /\ aq \in Nat
            BY <2>4
        <3> HIDE DEF hq, aq
        <3> QED
            BY <2>1, <3>1
    <2>6. (hd + d + ad) + w + o = (hd + off) + d1 + ad
        <3>1. o \in Nat /\ hd \in Nat /\ ad \in Nat /\ d1 + off = d + w + o
            BY <2>1, <2>4
        <3> HIDE DEF hd, ad, o
        <3> QED
            BY <2>1, <3>1
    <2>7. history'.inclusiveQueuing = history'.queuing + q1 + abandoned.queuing
        BY <2>2, <2>3, <2>5, Zenon
    <2>8. history'.inclusiveDelivery = history'.delivery + d1 + abandoned.delivery
        BY <2>2, <2>3, <2>6, Zenon
    <2> QED
        BY <1>3, <2>7, <2>8 DEF InclusiveTimesAgree, q1, d1
<1> QED
    BY <1>2, <1>4, <1>5 DEF TimesInv

-----------------------------------------------------------------------------
(* The results *)

LEMMA ElevatorNextInv == ElevatorInv /\ [ElevatorNext]_elevatorVars => ElevatorInv'
<1> SUFFICES ASSUME ElevatorInv, [ElevatorNext]_elevatorVars PROVE ElevatorInv'
    OBVIOUS
<1>1. CASE Initialize
    BY <1>1, InitializeInv
<1>2. ASSUME NEW n \in 0..MaxArrivals, NEW who \in [1..n -> Draws], NEW dec \in Decisions,
             UpdateSystem(who, dec)
      PROVE  ElevatorInv'
    <2>1. n \in Nat
        BY ElevatorAssumption
    <2> QED
        BY <1>2, <2>1, UpdateInv
<1>3. CASE UNCHANGED elevatorVars
    BY <1>3 DEF elevatorVars, ElevatorInv, FlowType, InPlace, Numbered, PeopleConserved,
                OccupancyRight, ButtonsTellQueues, Waiting, Aboard
<1> QED
    BY <1>1, <1>2, <1>3 DEF ElevatorNext

LEMMA ElevatorInvariance == ElevatorSpec => []ElevatorInv
BY ElevatorInitInv, ElevatorNextInv, PTL DEF ElevatorSpec

\* The totals of the history account for everybody who has ever arrived, however the
\* controller decides and whenever the system is restarted.
THEOREM NobodyLost == ElevatorSpec => []PeopleConserved
<1>1. ElevatorInv => PeopleConserved
    BY DEF ElevatorInv
<1> QED
    BY <1>1, ElevatorInvariance, PTL

\* occupancy and the counts of the floors are the numbers of the people on the lists, so
\* that no stop makes the unsigned occupancy wrap.
THEOREM OccupancyIsRight == ElevatorSpec => []OccupancyRight
<1>1. ElevatorInv => OccupancyRight
    BY DEF ElevatorInv
<1> QED
    BY <1>1, ElevatorInvariance, PTL

\* A button is lit exactly while somebody waits for it, and since the first one came.
THEOREM ButtonsRight == ElevatorSpec => []ButtonsTellQueues
<1>1. ElevatorInv => ButtonsTellQueues
    BY DEF ElevatorInv
<1> QED
    BY <1>1, ElevatorInvariance, PTL

\* No one boards after a longer wait than the longest that the history has by then,
\* although process_stop looks at the front of the queue only.
THEOREM LongestWaitIsRecorded == ElevatorSpec => LongestWaitRecorded
<1> DEFINE recorded == \A p \in Waiting : p \in Aboard' => now - p.since <= history'.maxQueuing
<1>1. ASSUME ElevatorInv, ElevatorNext PROVE recorded
    <2>1. CASE Initialize
        BY <2>1, NobodyThere DEF Initialize, Aboard
    <2>2. ASSUME NEW n \in 0..MaxArrivals, NEW who \in [1..n -> Draws], NEW dec \in Decisions,
                 UpdateSystem(who, dec)
          PROVE  recorded
        <3>1. n \in Nat
            BY ElevatorAssumption
        <3>2. Aboard' = (Aboard \ GettingOff(dec)) \cup Boarding(who, dec)
            BY <1>1, <2>2, <3>1, AboardFacts
        <3>3. \A p \in Boarding(who, dec) : now - p.since <= history'.maxQueuing
            BY <1>1, <2>2, <3>1, FrontWaitedLongest
        <3>4. Waiting \cap Aboard = {}
            BY <1>1 DEF ElevatorInv, InPlace
        <3> QED
            BY <3>2, <3>3, <3>4
    <2> QED
        BY <1>1, <2>1, <2>2 DEF ElevatorNext
<1>2. ElevatorInv /\ [ElevatorNext]_elevatorVars => [recorded]_elevatorVars
    BY <1>1
<1> QED
    BY <1>2, ElevatorInvariance, PTL DEF ElevatorSpec, LongestWaitRecorded

LEMMA TimesInvariance == ElevatorSpec => []TimesInv
<1>1. ASSUME TimesInv, [ElevatorNext]_elevatorVars PROVE TimesInv'
    <2>1. CASE Initialize
        BY <1>1, <2>1, InitializeTimes
    <2>2. ASSUME NEW n \in 0..MaxArrivals, NEW who \in [1..n -> Draws], NEW dec \in Decisions,
                 UpdateSystem(who, dec)
          PROVE  TimesInv'
        <3>1. n \in Nat
            BY ElevatorAssumption
        <3> QED
            BY <1>1, <2>2, <3>1, UpdateTimes
    <2>3. CASE UNCHANGED elevatorVars
        <3>1. ElevatorInv'
            BY <1>1, <2>3, ElevatorNextInv DEF TimesInv
        <3>2. ElevatorTypeOK'
            BY <1>1, <2>3 DEF TimesInv, ElevatorTypeOK, elevatorVars
        <3>3. InclusiveTimesAgree'
            BY <1>1, <2>3 DEF TimesInv, InclusiveTimesAgree, Spent, Waiting, Aboard, elevatorVars
        <3> QED
            BY <3>1, <3>2, <3>3 DEF TimesInv
    <2> QED
        BY <1>1, <2>1, <2>2, <2>3 DEF ElevatorNext
<1> QED
    BY <1>1, TimesInitInv, PTL DEF ElevatorSpec

\* Every variable of the elevator has its type: it stays between the floors, and no number
\* or total of times, unsigned in the code, falls below zero.
THEOREM ElevatorTypeCorrect == ElevatorSpec => []ElevatorTypeOK
<1>1. TimesInv => ElevatorTypeOK
    BY DEF TimesInv
<1> QED
    BY <1>1, TimesInvariance, PTL

\* The inclusive totals of times, added up from the numbers present in each update, are the
\* times of those who boarded or arrived and what those still there have spent so far.
THEOREM TimesAgree == ElevatorSpec => []InclusiveTimesAgree
<1>1. TimesInv => InclusiveTimesAgree
    BY DEF TimesInv
<1> QED
    BY <1>1, TimesInvariance, PTL

-----------------------------------------------------------------------------
(* Module Genalg *)

\* The results of a domain.
Results == [Genomes -> [1..NumTrials -> 0..MaxResult]]

\* The trials of a genome merge to a number: there is at least one.
LEMMA MergedIsNumber ==
    ASSUME GenalgAssumption, domain \in Results, NEW g \in Genomes
    PROVE  Merged(g) \in Nat
<1> DEFINE result == domain[g]
<1>1. NumTrials \in Nat /\ NumTrials > 0 /\ MaxResult \in Nat
    BY DEF GenalgAssumption
<1>2. result \in [1..NumTrials -> 0..MaxResult]
    BY DEF Results
<1> HIDE DEF result
<1>3. \A t \in 1..NumTrials : result[t] \in Nat /\ result[t] \in Int
    BY <1>1, <1>2
<1>4. result \in [1..NumTrials -> Int] /\ DOMAIN result = 1..NumTrials
    BY <1>2, <1>3
<1>5. 1..NumTrials # {} /\ IsFiniteSet(1..NumTrials)
  <2>1. 1 \in 1..NumTrials
      BY <1>1
  <2>2. IsFiniteSet(1..NumTrials)
      BY <1>1, FS_Interval
  <2> QED
      BY <2>1, <2>2
<1>6. SumFunctionOnSet(result, 1..NumTrials) \in Nat
    BY <1>3, <1>5, SumNat
<1>7. Min(Range(result)) \in Nat
  <2>1. PICK t \in 1..NumTrials : \A u \in 1..NumTrials : result[t] <= result[u]
      BY <1>4, <1>5, LeastExists
  <2>2. \E x \in Range(result) : \A y \in Range(result) : x =< y
      BY <1>4, <1>5, <2>1 DEF Range
  <2>3. Min(Range(result)) \in Range(result)
      BY <2>2 DEF Min
  <2> QED
      BY <1>3, <1>4, <2>3 DEF Range
<1> QED
    BY <1>6, <1>7 DEF Merged, result

\* The greatest fitness of a population is that of one of its individuals.
LEMMA BestIsOfOne ==
    ASSUME GenalgAssumption, Idv # {}, NEW idvs, \A i \in Idv : idvs[i].fitness \in Nat,
           NEW best, best = Max({idvs[i].fitness : i \in Idv})
    PROVE  /\ best \in Nat /\ \E i \in Idv : best = idvs[i].fitness
           /\ \A i \in Idv : best >= idvs[i].fitness
<1> DEFINE Fitness == {idvs[i].fitness : i \in Idv}
           loss == [i \in Idv |-> -idvs[i].fitness]
<1>1. IsFiniteSet(Idv)
  <2>1. 1 \in Int /\ PopulationSize \in Int
      BY DEF GenalgAssumption
  <2> QED
      BY <2>1, FS_Interval DEF Idv
<1>2. loss \in [Idv -> Int]
    OBVIOUS
<1>3. PICK i \in Idv : \A j \in Idv : loss[i] <= loss[j]
    BY <1>1, <1>2, LeastExists
<1>4. \A j \in Idv : idvs[i].fitness >= idvs[j].fitness
    BY <1>3
<1>5. \E x \in Fitness : \A y \in Fitness : x >= y
    BY <1>4
<1>6. best \in Fitness /\ \A y \in Fitness : best >= y
    BY <1>5 DEF Max
<1> QED
    BY <1>6

\* Somebody is selected from a population that has anybody.
LEMMA SomeSurvive ==
    ASSUME GenalgAssumption, Idv # {}, NEW kept \in Survivors
    PROVE  kept # {} /\ kept \subseteq Idv
<1>1. PopulationSize \in Nat /\ PopulationSize >= 1
    BY DEF GenalgAssumption, Idv
<1>2. Min({PopulationSize, 1}) = 1
    BY <1>1 DEF Min
<1> DEFINE half == PopulationSize \div 2
<1>3. half \in Nat
    BY <1>1
<1> HIDE DEF half
<1>4. Max({half, 1}) \in {half, 1} /\ Max({half, 1}) >= 1
  <2>1. \E x \in {half, 1} : \A y \in {half, 1} : x >= y
      BY <1>3
  <2> QED
      BY <2>1 DEF Max
<1>5. NumProgenitors >= 1 /\ NumProgenitors \in Nat
    BY <1>2, <1>3, <1>4 DEF NumProgenitors, half
<1>6. kept \subseteq Idv /\ Cardinality(kept) = NumProgenitors
    BY DEF Survivors, kSubset
<1>7. kept # {}
    BY <1>5, <1>6, FS_EmptySet
<1> QED
    BY <1>6, <1>7

\* From its first epoch on a population consists of genomes assessed for the domain it
\* is in, which changes before the first run only.
GenalgInv ==
    /\ domain \in Results /\ generation \in Nat /\ resets \in Nat
    /\ resets = 0 => generation = 0
    /\ generation > 0 =>
           \A i \in Idv : population[i].gn \in Genomes /\ population[i] = Assessed(population[i].gn)

\* Before its first run an algorithm has no population, and never one if its size is 0.
PopulationIsOfRuns == resets = 0 \/ Idv = {} => population = << >>

LEMMA GenalgInvInit == ASSUME GenalgAssumption, GenalgInit PROVE GenalgInv /\ PopulationIsOfRuns
BY DEF GenalgAssumption, GenalgInit, GenalgInv, PopulationIsOfRuns, Results

LEMMA GenalgInvStep ==
    ASSUME GenalgAssumption, GenalgInv, PopulationIsOfRuns, [GenalgNext]_genalgVars
    PROVE  GenalgInv' /\ PopulationIsOfRuns'
<1>1. ASSUME Generate
      PROVE  GenalgInv' /\ PopulationIsOfRuns'
    BY <1>1 DEF Generate, GenalgInv, PopulationIsOfRuns, Results
<1>2. ASSUME Reset
      PROVE  GenalgInv' /\ PopulationIsOfRuns'
    BY <1>2 DEF Reset, GenalgInv, PopulationIsOfRuns, Results
<1>3. ASSUME Epoch
      PROVE  GenalgInv' /\ PopulationIsOfRuns'
  <2>1. /\ population # << >> /\ generation' = generation + 1
        /\ UNCHANGED <<domain, merging, resets>>
      BY <1>3 DEF Epoch
  <2>2. PICK genomes \in [Idv -> Genomes] : population' = [i \in Idv |-> Assessed(genomes[i])]
      BY <1>3 DEF Epoch
  <2>3. resets # 0
      BY <2>1 DEF PopulationIsOfRuns
  <2>4. ASSUME NEW i \in Idv
        PROVE  /\ population'[i].gn \in Genomes
               /\ population'[i] = Assessed(population[i].gn)'
    <3>1. population'[i] = Assessed(genomes[i]) /\ population'[i].gn = genomes[i]
        BY <2>2 DEF Assessed
    <3>2. \A g : Assessed(g)' = Assessed(g)
        BY <2>1 DEF Assessed, Merged
    <3> QED
        BY <3>1, <3>2
  <2> QED
      BY <2>1, <2>3, <2>4 DEF GenalgInv, PopulationIsOfRuns, Results, Idv
<1>4. ASSUME UNCHANGED genalgVars
      PROVE  GenalgInv' /\ PopulationIsOfRuns'
    BY <1>4 DEF genalgVars, GenalgInv, PopulationIsOfRuns, Results, Idv, Assessed, Merged
<1> QED
    BY <1>1, <1>2, <1>3, <1>4 DEF GenalgNext

\* The fittest of a generation is selected, or somebody who is as fit; the genome is
\* assessed again as before, and whoever is sorted before it is fitter still.
LEMMA FittestSurvive ==
    ASSUME GenalgAssumption, GenalgInv, [GenalgNext]_genalgVars, Idv # {},
           generation > 0, generation' = generation + 1
    PROVE  Best' >= Best
<1>1. Epoch
    BY DEF GenalgNext, Generate, Reset, genalgVars, GenalgInv
<1>2. PICK kept \in Survivors, genomes \in [Idv -> Genomes] :
          /\ \E place \in Injection(kept, Idv) :
                 \A i \in kept : genomes[place[i]] = population[i].gn
          /\ population' = [i \in Idv |-> Assessed(genomes[i])]
    BY <1>1 DEF Epoch
<1>3. PICK place \in [kept -> Idv] : \A i \in kept : genomes[place[i]] = population[i].gn
    BY <1>2 DEF Injection
<1>4. \A i \in Idv : /\ population[i].gn \in Genomes
                     /\ population[i].fitness = Merged(population[i].gn)
                     /\ population[i].fitness \in Nat
  <2>1. \A g \in Genomes : Merged(g) \in Nat
      BY MergedIsNumber DEF GenalgInv
  <2>2. \A g \in Genomes : Assessed(g).fitness = Merged(g)
      BY DEF Assessed
  <2>3. \A i \in Idv : /\ population[i].gn \in Genomes
                       /\ population[i] = Assessed(population[i].gn)
      BY DEF GenalgInv
  <2> HIDE DEF GenalgInv
  <2> QED
      BY Zenon, <2>1, <2>2, <2>3
<1>5. PICK b \in Idv : Best = population[b].fitness
    BY <1>4, BestIsOfOne DEF Best
<1>6. \E j \in kept : population[j].fitness >= population[b].fitness
  <2>1. CASE b \in kept
      BY <1>4, <2>1
  <2>2. CASE b \notin kept
    <3>1. PICK j : j \in kept /\ j \in Idv
        BY SomeSurvive
    <3>2. ~IsFitter(population[b], population[j])
        BY <2>2, <3>1 DEF Survivors
    <3> QED
        BY <1>4, <3>1, <3>2 DEF IsFitter
  <2> QED
      BY <2>1, <2>2
<1>7. PICK j \in kept : population[j].fitness >= population[b].fitness
    BY <1>6
<1>8. j \in Idv /\ place[j] \in Idv /\ genomes[place[j]] = population[j].gn
    BY <1>3, SomeSurvive
<1>9. population'[place[j]].fitness = population[j].fitness
  <2>1. population'[place[j]].fitness = Merged(population[j].gn)
      BY <1>2, <1>8 DEF Assessed
  <2> QED
      BY <1>4, <1>8, <2>1
<1>10. \A i \in Idv : population'[i].fitness \in Nat
  <2>1. \A g \in Genomes : Merged(g) \in Nat
      BY MergedIsNumber DEF GenalgInv
  <2> QED
      BY <1>2, <2>1 DEF Assessed
<1>11. Best \in Nat
    BY <1>4, BestIsOfOne DEF Best
<1>12. Best' \in Nat /\ Best' >= population'[place[j]].fitness
  <2>1. Best' = Max({population'[i].fitness : i \in Idv})
      BY DEF Best, Idv
  <2> QED
      BY <1>8, <1>10, <2>1, BestIsOfOne
<1> QED
    BY <1>4, <1>5, <1>7, <1>8, <1>9, <1>11, <1>12

\* While a domain's results do not change, the best fitness of a run never falls from one
\* generation to the next (genalg::epoch).
THEOREM FittestAreKept == GenalgSpec => BestNeverLost
<1>1. GenalgInit => GenalgInv /\ PopulationIsOfRuns
    BY GenalgInvInit, GenalgAssumption
<1>2. GenalgInv /\ PopulationIsOfRuns /\ [GenalgNext]_genalgVars
        => GenalgInv' /\ PopulationIsOfRuns'
    BY GenalgInvStep, GenalgAssumption
<1>3. ASSUME GenalgInv, PopulationIsOfRuns, [GenalgNext]_genalgVars
      PROVE  [generation > 0 /\ generation' = generation + 1 => Best' >= Best]_genalgVars
  <2>1. CASE Idv = {}
    <3>1. ~Epoch
        BY <1>3, <2>1 DEF Epoch, PopulationIsOfRuns
    <3> QED
        BY <1>3, <3>1 DEF GenalgNext, Generate, Reset, GenalgInv
  <2>2. CASE Idv # {}
      BY <1>3, <2>2, FittestSurvive, GenalgAssumption
  <2> QED
      BY <2>1, <2>2
<1> QED
    BY <1>1, <1>2, <1>3, PTL DEF GenalgSpec, BestNeverLost

=============================================================================
