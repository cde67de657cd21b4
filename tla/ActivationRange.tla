--------------------------- MODULE ActivationRange ---------------------------
(***************************************************************************)
(* calculate_neuron_io_ranges: what values a neuron may take, computed on  *)
(* ranges (multi_interval) from those of the neurons that it gets signals  *)
(* from.  A range is a set of closed intervals that are apart, of which    *)
(* limited_impl keeps no more than a limit, joining the closest.           *)
(*                                                                         *)
(* Abstractions: values are integers, where the code rounds doubles        *)
(* outwards; the ranges of the signals are any; of the activation          *)
(* functions, those whose bounds the code works out itself, with a         *)
(* steepness of one; the others are left to Boost.                         *)
(***************************************************************************)
EXTENDS Integers, FiniteSets

CONSTANTS
    Limit,          \* intervals that limited_impl keeps: 256 in the code
    Weights,        \* weights of the connections
    Signals,        \* bounds of the intervals of the signals' ranges
    MaxValue        \* bound on the values

ASSUME RangeAssumption ==
    /\ Limit \in Nat \ {0}
    /\ Weights \subseteq Int
    /\ Signals \subseteq Int
    /\ MaxValue \in Nat

VARIABLES
    sumRange,       \* sum_range, or the range of the neuron's output
    built,          \* the range that an operation on ranges builds
    todo,           \* the intervals it has yet to insert
    phase,          \* the operation; "undefined" if a bound is not a number
    value,          \* auxiliary: what the sum or the output may be, for some signals
    signal          \* auxiliary: the signal that is being added

rangeVars == <<sumRange, built, todo, phase, value, signal>>

Interval == {i \in [lower : Int, upper : Int] : i.lower <= i.upper}
Between(l, u) == [lower |-> l, upper |-> u]
Single(v) == Between(v, v)

HasValue(i, v) == i.lower <= v /\ v <= i.upper
Covers(range, v) == \E i \in range : HasValue(i, v)

\* No two intervals of a range have a value in common, so that upper bounds order them.
Apart(range) == \A i, j \in range : i # j => i.upper < j.lower \/ j.upper < i.lower

-----------------------------------------------------------------------------
(* insert *)

\* Faulty: an interval that only touches is not merged.
OverlappedWithin(range, itv) ==
    {i \in range : i.upper > itv.lower /\ i.lower < itv.upper}

\* From the first interval that ends no earlier than itv begins, those that begin no
\* later than it ends.
Overlapped(range, itv) ==
    {i \in range : /\ i.upper >= itv.lower
                   /\ \A j \in range : j.upper >= itv.lower /\ j.upper <= i.upper
                                           => j.lower <= itv.upper}

FirstOf(range) == CHOOSE i \in range : \A j \in range : i.upper <= j.upper
LastOf(range) == CHOOSE i \in range : \A j \in range : j.upper <= i.upper

\* Faulty: the upper bound is that of what is inserted.
HullUpTo(over, itv) ==
    IF over = {} THEN itv
    ELSE Between(IF FirstOf(over).lower < itv.lower THEN FirstOf(over).lower ELSE itv.lower, itv.upper)

\* itv with the intervals it overlaps.
Hull(over, itv) ==
    IF over = {} THEN itv
    ELSE Between(IF FirstOf(over).lower < itv.lower THEN FirstOf(over).lower ELSE itv.lower,
                 IF LastOf(over).upper > itv.upper THEN LastOf(over).upper ELSE itv.upper)

Neighbours(range) ==
    {p \in range \X range : /\ p[1].upper < p[2].upper
                            /\ \A i \in range : i.upper <= p[1].upper \/ p[2].upper <= i.upper}

Gap(p) == p[2].lower - p[1].upper

\* The first of the closest neighbours.
Closest(range) ==
    CHOOSE p \in Neighbours(range) :
        \A q \in Neighbours(range) : Gap(p) < Gap(q) \/ (Gap(p) = Gap(q) /\ p[1].upper <= q[1].upper)

\* limited_impl::insert: two intervals are joined if there is one too many.
Limited(range) ==
    IF Cardinality(range) <= Limit THEN range
    ELSE LET p == Closest(range)
         IN (range \ {p[1], p[2]}) \cup {Between(p[1].lower, p[2].upper)}

Inserted(range, itv) ==
    LET over == Overlapped(range, itv)
    IN Limited((range \ over) \cup {Hull(over, itv)})

-----------------------------------------------------------------------------
(* Operations on ranges *)

Scaled(i, w) ==
    IF w >= 0 THEN Between(i.lower * w, i.upper * w) ELSE Between(i.upper * w, i.lower * w)

Added(i, j) == Between(i.lower + j.lower, i.upper + j.upper)

ActivationFns == [type : {"Linear", "LinearBounded", "Threshold"}, least : {-1, 0}]

Clipped(fn, v) == IF v < fn.least THEN fn.least ELSE IF v > 1 THEN 1 ELSE v
Stepped(fn, v) == IF v > 0 THEN 1 ELSE fn.least

\* evaluate, for a value
Applied(fn, v) ==
    CASE fn.type = "Linear" -> v
      [] fn.type = "LinearBounded" -> Clipped(fn, v)
      [] fn.type = "Threshold" -> Stepped(fn, v)

\* The interval from the greater lower to the lesser upper bound is none.
IsBeyond(fn, i) ==
    fn.type = "LinearBounded" /\ i.lower # i.upper /\ (i.lower > 1 \/ i.upper < fn.least)

\* evaluate, for an interval
AppliedInterval(fn, i) ==
    CASE i.lower = i.upper -> {Single(Applied(fn, i.lower))}
      [] i.lower # i.upper /\ fn.type = "Linear" -> {i}
      [] i.lower # i.upper /\ fn.type = "LinearBounded" ->
             {Between(IF i.lower < fn.least THEN fn.least ELSE i.lower,
                      IF i.upper > 1 THEN 1 ELSE i.upper)}
      [] i.lower # i.upper /\ fn.type = "Threshold" ->
             {Single(IF i.lower <= 0 THEN fn.least ELSE 1), Single(IF i.upper > 0 THEN 1 ELSE fn.least)}

-----------------------------------------------------------------------------
(* calculate_neuron_io_ranges *)

\* The sum begins as the value zero.
RangeInit ==
    /\ sumRange = {Single(0)}
    /\ built = {}
    /\ todo = {}
    /\ phase = "ready"
    /\ value = 0
    /\ signal = 0

Within(range) == \A i \in range : -MaxValue <= i.lower /\ i.upper <= MaxValue

\* An operation on ranges inserts intervals into a new one.
Build(p, itvs) ==
    /\ Within(itvs)
    /\ built' = {}
    /\ todo' = itvs
    /\ phase' = p

\* An incoming connection: its source's range, the weight, and any value in that range.
AddSignal(source, w, v) ==
    /\ phase = "ready"
    /\ Covers(source, v)
    /\ Build("scaling", {Scaled(i, w) : i \in source})
    /\ signal' = v * w
    /\ UNCHANGED <<sumRange, value>>

Insert(itv) ==
    /\ built' = Inserted(built, itv)
    /\ todo' = todo \ {itv}
    /\ UNCHANGED <<sumRange, phase, value, signal>>

\* sum_range += signal_range
AddScaled ==
    /\ phase = "scaling" /\ todo = {}
    /\ Build("adding", {Added(i, j) : i \in sumRange, j \in built})
    /\ value' = value + signal
    /\ UNCHANGED <<sumRange, signal>>

\* The signal is part of the sum.
SignalAdded ==
    /\ phase = "adding" /\ todo = {}
    /\ sumRange' = built
    /\ built' = {}
    /\ phase' = "ready"
    /\ signal' = 0
    /\ UNCHANGED <<todo, value>>

\* get_function_range
Apply(fn) ==
    /\ phase = "ready"
    /\ \A i \in sumRange : ~IsBeyond(fn, i)
    /\ Build("evaluating", UNION {AppliedInterval(fn, i) : i \in sumRange})
    /\ value' = Applied(fn, value)
    /\ UNCHANGED <<sumRange, signal>>

\* The output is known.
Output ==
    /\ phase = "evaluating" /\ todo = {}
    /\ sumRange' = built
    /\ built' = {}
    /\ phase' = "done"
    /\ UNCHANGED <<todo, value, signal>>

\* What an interval without values is made to be by Boost, NaN, is no range.
ApplyBeyond(fn) ==
    /\ phase = "ready"
    /\ \E i \in sumRange : IsBeyond(fn, i)
    /\ phase' = "undefined"
    /\ UNCHANGED <<sumRange, built, todo, value, signal>>

SignalIntervals == {Between(l, u) : l \in Signals, u \in Signals} \cap Interval
SignalRanges == {range \in SUBSET SignalIntervals : range # {} /\ Apart(range)}

RangeNext ==
    \/ \E source \in SignalRanges, w \in Weights, v \in Signals : AddSignal(source, w, v)
    \/ \E itv \in todo : Insert(itv)
    \/ AddScaled
    \/ SignalAdded
    \/ Output
    \/ \E fn \in ActivationFns : Apply(fn) \/ ApplyBeyond(fn)

RangeSpec == RangeInit /\ [][RangeNext]_rangeVars

-----------------------------------------------------------------------------
(* Properties *)

\* The intervals of a range stay apart, as insert, which looks for the overlapped ones by
\* their upper bounds, needs them; and there are never more than the limit.
RangesApart == \A range \in {sumRange, built} : Apart(range) /\ Cardinality(range) <= Limit

\* No value that the signals allow is missing from the range: merging and joining
\* intervals only add values, whatever the order of the insertions.
ValuesCovered == phase \in {"ready", "done"} => Covers(sumRange, value)

=============================================================================
