------------------------------ MODULE Predicate ------------------------------
(***************************************************************************)
(* SymbolPredicate of rustmatch/src/predicate.rs: a set of unit values kept *)
(* as a bit set below AsciiLimit and, from there on, as a list of ranges    *)
(* that every operation leaves sorted, disjoint and merged, because         *)
(* `matches' finds a unit by a partition of that list.                      *)
(***************************************************************************)
EXTENDS Integers, Sequences, SequencesExt

CONSTANTS
    AsciiLimit,  \* values below it are bits of `ascii' (128 in the code)
    MaxUnit      \* u16::MAX

ASSUME UnitAssumption ==
    /\ AsciiLimit \in Nat \ {0}
    /\ MaxUnit \in Nat
    /\ AsciiLimit <= MaxUnit

SymbolPredicate(ascii, ranges) == [ascii |-> ascii, ranges |-> ranges]
AsciiUnit == 0..(AsciiLimit - 1)
NoSymbol == SymbolPredicate({}, <<>>)
AnySymbol == SymbolPredicate(AsciiUnit, << << AsciiLimit, MaxUnit >> >>)

\* `matches': a bit, or the first range that does not end before the unit.
Matches(p, unit) ==
    IF unit < AsciiLimit THEN unit \in p.ascii
    ELSE \E i \in DOMAIN p.ranges :
            /\ \A j \in 1..(i - 1) : p.ranges[j][2] < unit
            /\ p.ranges[i][1] <= unit /\ unit <= p.ranges[i][2]

\* `is_empty' looks at the two parts only.
IsEmpty(p) == p = NoSymbol

\* saturating_add: the last unit has no successor.
Touches(r, previous) == r[1] <= Min({ previous[2] + 1, MaxUnit })

\* Mutant of MergeRange: ranges that touch or overlap stay apart.
MergeRangeNever(merged, r) == Append(merged, r)

\* One turn of normalize_ranges, which goes through the ranges in order.
MergeRange(merged, r) ==
    IF merged # <<>> /\ Touches(r, Last(merged))
    THEN Append(Front(merged), << Last(merged)[1], Max({ Last(merged)[2], r[2] }) >>)
    ELSE Append(merged, r)

\* A range that is there twice merges with itself, so the ranges are a set here.
Precedes(r, s) == r[1] < s[1] \/ (r[1] = s[1] /\ r[2] < s[2])
SortedRanges(S) ==
    [i \in 1..Cardinality(S) |->
        CHOOSE r \in S : Cardinality({ s \in S : Precedes(s, r) }) = i - 1]

Normalized(S) ==
    LET sorted == SortedRanges(S)
        merged[n \in 0..Len(sorted)] ==
          IF n = 0 THEN <<>> ELSE MergeRange(merged[n - 1], sorted[n])
    IN  merged[Len(sorted)]

\* A range given in the wrong order is refused; the caller looks at that.
InsertRange(p, start, end) ==
    IF start > end THEN p
    ELSE SymbolPredicate(
            p.ascii \cup (start..Min({ end, AsciiLimit - 1 })),
            IF end < AsciiLimit THEN p.ranges
            ELSE Normalized(ToSet(p.ranges) \cup { << Max({ start, AsciiLimit }), end >> }))

InsertRanges(p, ranges) ==
    LET inserted[n \in 0..Len(ranges)] ==
          IF n = 0 THEN p ELSE InsertRange(inserted[n - 1], ranges[n][1], ranges[n][2])
    IN  inserted[Len(ranges)]

InsertAll(p, codes) == InsertRanges(p, [i \in DOMAIN codes |-> << codes[i], codes[i] >>])

Joined(p, q) ==
    SymbolPredicate(p.ascii \cup q.ascii, Normalized(ToSet(p.ranges) \cup ToSet(q.ranges)))

\* `next': where the gap after the first n ranges may begin.
AfterRanges(ranges, n) == IF n = 0 THEN AsciiLimit ELSE ranges[n][2] + 1

\* The gap up to an end, if there is one.
WithGap(gaps, next, end) == IF next <= end THEN Append(gaps, << next, end >>) ELSE gaps

\* There is no last gap when the last range reaches the last unit.
Complement(p) ==
    LET gaps[n \in 0..Len(p.ranges)] ==
          IF n = 0 THEN <<>>
          ELSE WithGap(gaps[n - 1], AfterRanges(p.ranges, n - 1), p.ranges[n][1] - 1)
    IN  SymbolPredicate(AsciiUnit \ p.ascii,
                        WithGap(gaps[Len(p.ranges)], AfterRanges(p.ranges, Len(p.ranges)), MaxUnit))

\* from_ranges and the constructors built on it.
FromRanges(ranges) == InsertRanges(NoSymbol, ranges)

\* Sorted, disjoint and not even touching: one form for each set.
IsNormal(p) ==
    \A i \in DOMAIN p.ranges :
        /\ AsciiLimit <= p.ranges[i][1] /\ p.ranges[i][1] <= p.ranges[i][2]
        /\ i > 1 => p.ranges[i - 1][2] + 1 < p.ranges[i][1]
=============================================================================
