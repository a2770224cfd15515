----------------------------- MODULE MatcherProof -----------------------------
(***************************************************************************)
(* What a matcher is made of.                                               *)
(*                                                                         *)
(* Predicate, for every class: each operation keeps the one form and stands *)
(* for the set of units it should, so that the edges of PatternDatabase may *)
(* hold sets; and predicates that stand for one set are equal.              *)
(*                                                                         *)
(* Partitioning, for every configuration: the partitions tile the patterns, *)
(* the budget is dealt out exactly, the cohort allocation fits and is       *)
(* balanced, and each pattern is in one partition.                          *)
(*                                                                         *)
(* AssertionPrefix, for every pattern list and input: the two views of the  *)
(* shared database deliver what the ordinary matcher does, from every start *)
(* or from those that show the prefix, and a refusal comes first.  A        *)
(* compilation is the fragments of its patterns side by side: what it       *)
(* reaches from a root is what they reach one by one.                       *)
(***************************************************************************)
EXTENDS Predicate, Partitioning, AssertionPrefix, InductionLemmas, FiniteSetTheorems

-----------------------------------------------------------------------------
(* Classes of units: lists of ranges and what they cover. *)

Unit == 0..MaxUnit
WideUnit == AsciiLimit..MaxUnit
WideRange == { r \in WideUnit \X WideUnit : r[1] <= r[2] }

Within(r, u) == r[1] <= u /\ u <= r[2]
CoveredBy(S) == { u \in WideUnit : \E r \in S : Within(r, u) }

\* A list in the one form, as far as it goes.
NormalList(list) ==
    /\ list \in Seq(WideRange)
    /\ \A i \in 2..Len(list) : list[i - 1][2] + 1 < list[i][1]

\* What a predicate of the program is, and the units it stands for.
IsPredicate(p) ==
    /\ p \in [ascii : SUBSET AsciiUnit, ranges : Seq(WideRange)]
    /\ IsNormal(p)

UnitsOf(p) == { u \in Unit : Matches(p, u) }

\* The types of a range.
LEMMA RangeTypes ==
    ASSUME NEW r \in WideRange
    PROVE  /\ r[1] \in Nat /\ r[2] \in Nat /\ r[1] <= r[2]
           /\ AsciiLimit <= r[1] /\ r[2] <= MaxUnit /\ r = << r[1], r[2] >>
           /\ r[1] \in WideUnit /\ r[2] \in WideUnit
BY UnitAssumption DEF WideRange, WideUnit

\* A member of a list of ranges.
LEMMA ListTypes ==
    ASSUME NEW list \in Seq(WideRange)
    PROVE  /\ Len(list) \in Nat /\ DOMAIN list = 1..Len(list)
           /\ \A i \in 1..Len(list) : list[i] \in WideRange
           /\ \A r : r \in ToSet(list) <=> \E i \in 1..Len(list) : r = list[i]
<1>1. Len(list) \in Nat /\ DOMAIN list = 1..Len(list)
    BY LenProperties
<1>2. \A i \in 1..Len(list) : list[i] \in WideRange
    BY ElementOfSeq
<1>3. QED
    BY <1>1, <1>2 DEF ToSet

LEMMA Onward ==
    ASSUME NEW a \in Nat, NEW b \in Nat, NEW c \in Nat, NEW d \in Nat,
           a + 1 < b, b <= c, c + 1 < d
    PROVE  a + 1 < d
OBVIOUS

\* In a normal list any range lies behind the end of any before it, with a gap.
LEMMA Gaps ==
    ASSUME NEW list, NormalList(list), NEW i \in 1..Len(list), NEW j \in 1..Len(list), i < j
    PROVE  list[i][2] + 1 < list[j][1]
<1> DEFINE n == Len(list)
           Good == { m \in 0..n : m > i => list[i][2] + 1 < list[m][1] }
<1>1. n \in Nat /\ \A k \in 1..n : list[k] \in WideRange
    BY ListTypes DEF NormalList
<1>2. \A k \in 1..n : list[k][1] \in Nat /\ list[k][2] \in Nat /\ list[k][1] <= list[k][2]
    BY <1>1, RangeTypes
<1>3. 0 \in Good
    BY <1>1
<1>4. ASSUME NEW m \in 1..n, m - 1 \in Good PROVE m \in Good
    <2> SUFFICES ASSUME m > i PROVE list[i][2] + 1 < list[m][1]
        OBVIOUS
    <2>1. m \in 2..n /\ m - 1 \in 1..n
        BY <1>1
    <2>2. list[m - 1][2] + 1 < list[m][1]
        BY <2>1 DEF NormalList
    <2>3. CASE m - 1 = i
        BY <2>2, <2>3
    <2>4. CASE m - 1 > i
        <3>1. list[i][2] + 1 < list[m - 1][1]
            BY <1>4, <2>4
        <3>2. /\ list[i][2] \in Nat /\ list[m - 1][1] \in Nat /\ list[m - 1][2] \in Nat
              /\ list[m - 1][1] <= list[m - 1][2] /\ list[m][1] \in Nat
            BY <1>2, <2>1
        <3>3. QED
            BY <2>2, <3>1, <3>2, Onward, Zenon
    <2>5. QED
        BY <1>1, <2>3, <2>4
<1> HIDE DEF Good
<1>5. 0..n \subseteq Good
    BY <1>1, <1>3, <1>4, Induction
<1>6. j \in Good
    BY <1>1, <1>5
<1>7. QED
    BY <1>6 DEF Good

\* IsNormal says of the ranges that they are such a list.
LEMMA NormalRanges ==
    ASSUME NEW p, p.ranges \in Seq(WideRange)
    PROVE  IsNormal(p) <=> NormalList(p.ranges)
<1>1. /\ Len(p.ranges) \in Nat /\ DOMAIN p.ranges = 1..Len(p.ranges)
      /\ \A i \in 1..Len(p.ranges) : p.ranges[i] \in WideRange
    BY ListTypes
<1>2. \A i \in 1..Len(p.ranges) : AsciiLimit <= p.ranges[i][1] /\ p.ranges[i][1] <= p.ranges[i][2]
    BY <1>1, RangeTypes
<1>3. ASSUME IsNormal(p), NEW i \in 2..Len(p.ranges)
      PROVE  p.ranges[i - 1][2] + 1 < p.ranges[i][1]
    <2>1. i \in DOMAIN p.ranges /\ i > 1
        BY <1>1
    <2>2. QED
        BY <1>3, <2>1 DEF IsNormal
<1>4. ASSUME NormalList(p.ranges), NEW i \in DOMAIN p.ranges, i > 1
      PROVE  p.ranges[i - 1][2] + 1 < p.ranges[i][1]
    <2>1. i \in 2..Len(p.ranges)
        BY <1>1, <1>4
    <2>2. QED
        BY <1>4, <2>1 DEF NormalList
<1>5. IsNormal(p) => NormalList(p.ranges)
    BY <1>3 DEF NormalList
<1>6. NormalList(p.ranges) => IsNormal(p)
    BY <1>1, <1>2, <1>4 DEF IsNormal
<1>7. QED
    BY <1>5, <1>6

\* The search by the ends of the ranges finds what they cover.
LEMMA MatchesCovered ==
    ASSUME NEW p, IsPredicate(p)
    PROVE  UnitsOf(p) = p.ascii \cup CoveredBy(ToSet(p.ranges))
<1> DEFINE R == p.ranges
<1>1. p.ascii \in SUBSET AsciiUnit /\ R \in Seq(WideRange) /\ NormalList(R)
    BY NormalRanges DEF IsPredicate
<1>2. /\ Len(R) \in Nat /\ DOMAIN R = 1..Len(R) /\ \A i \in 1..Len(R) : R[i] \in WideRange
      /\ \A r : r \in ToSet(R) <=> \E i \in 1..Len(R) : r = R[i]
    BY <1>1, ListTypes
<1>3. \A u \in Unit : u < AsciiLimit => (Matches(p, u) <=> u \in p.ascii)
    BY DEF Matches
<1>4. ASSUME NEW u \in Unit, ~ (u < AsciiLimit)
      PROVE  Matches(p, u) <=> \E i \in 1..Len(R) : Within(R[i], u)
    <2>1. ASSUME NEW i \in 1..Len(R), Within(R[i], u), NEW j \in 1..(i - 1)
          PROVE  R[j][2] < u
        <3>1. j \in 1..Len(R) /\ j < i
            BY <1>2
        <3>2. R[j][2] + 1 < R[i][1]
            BY <1>1, <3>1, Gaps
        <3>3. R[j][2] \in Nat /\ R[i][1] \in Nat
            BY <1>2, <3>1, RangeTypes
        <3>4. QED
            BY <2>1, <3>2, <3>3, UnitAssumption DEF Within, Unit
    <2>2. Matches(p, u) <=> \E i \in 1..Len(R) : /\ \A j \in 1..(i - 1) : R[j][2] < u
                                                 /\ R[i][1] <= u /\ u <= R[i][2]
        BY <1>2, <1>4 DEF Matches
    <2>3. QED
        BY <2>1, <2>2 DEF Within
<1>5. ASSUME NEW u \in Unit PROVE u \in UnitsOf(p) <=> u \in p.ascii \cup CoveredBy(ToSet(R))
    <2>1. CASE u < AsciiLimit
        <3>1. u \notin CoveredBy(ToSet(R))
            BY <2>1, UnitAssumption DEF CoveredBy, WideUnit, Unit
        <3>2. QED
            BY <1>3, <2>1, <3>1 DEF UnitsOf
    <2>2. CASE ~ (u < AsciiLimit)
        <3>1. u \in WideUnit /\ u \notin AsciiUnit
            BY <2>2, UnitAssumption DEF WideUnit, Unit, AsciiUnit
        <3>2. u \notin p.ascii
            BY <1>1, <3>1
        <3>3. (\E i \in 1..Len(R) : Within(R[i], u)) <=> u \in CoveredBy(ToSet(R))
            BY <1>2, <3>1 DEF CoveredBy
        <3>4. QED
            BY <1>4, <2>2, <3>2, <3>3 DEF UnitsOf
    <2>3. QED
        BY <2>1, <2>2
<1>6. p.ascii \cup CoveredBy(ToSet(R)) \subseteq Unit
    BY <1>1, UnitAssumption DEF AsciiUnit, CoveredBy, WideUnit, Unit
<1>7. UnitsOf(p) \subseteq Unit
    BY DEF UnitsOf
<1>8. QED
    BY <1>5, <1>6, <1>7

\* Ranges in order: every one of them, by where they begin.
LEMMA SortedRangesFacts ==
    ASSUME NEW S \in SUBSET WideRange
    PROVE  /\ SortedRanges(S) \in Seq(WideRange) /\ ToSet(SortedRanges(S)) = S
           /\ \A i \in 2..Len(SortedRanges(S)) :
                 SortedRanges(S)[i - 1][1] <= SortedRanges(S)[i][1]
<1> DEFINE P == { w \in S \X S : Precedes(w[1], w[2]) }
           n == Cardinality(S)
           R == RankIn(P, S)
           I == SortedRanges(S)
<1>1. IsFiniteSet(S)
    <2>1. IsFiniteSet(WideUnit)
        BY UnitAssumption, FS_Interval DEF WideUnit
    <2>2. IsFiniteSet(WideUnit \X WideUnit)
        BY <2>1, FS_Product
    <2>3. S \in SUBSET (WideUnit \X WideUnit)
        BY DEF WideRange
    <2>4. QED
        BY <2>2, <2>3, FS_Subset
<1>2. \A x \in S : x[1] \in Nat /\ x[2] \in Nat /\ x = << x[1], x[2] >>
    BY RangeTypes
<1>3. Orders(P, S)
    <2>1. \A x, y \in S : << x, y >> \in P <=> Precedes(x, y)
        OBVIOUS
    <2> HIDE DEF P
    <2>2. \A x \in S : << x, x >> \notin P
        BY <1>2, <2>1 DEF Precedes
    <2>3. \A x, y, z \in S : << x, y >> \in P /\ << y, z >> \in P => << x, z >> \in P
        <3> SUFFICES ASSUME NEW x \in S, NEW y \in S, NEW z \in S, Precedes(x, y), Precedes(y, z)
                     PROVE  Precedes(x, z)
            BY <2>1
        <3>1. /\ x[1] \in Nat /\ y[1] \in Nat /\ z[1] \in Nat
              /\ x[2] \in Nat /\ y[2] \in Nat /\ z[2] \in Nat
            BY <1>2
        <3>2. QED
            BY <3>1 DEF Precedes
    <2>4. \A x, y \in S : x = y \/ << x, y >> \in P \/ << y, x >> \in P
        <3> SUFFICES ASSUME NEW x \in S, NEW y \in S, ~ Precedes(x, y), ~ Precedes(y, x)
                     PROVE  x = y
            BY <2>1
        <3>1. x[1] \in Nat /\ y[1] \in Nat /\ x[2] \in Nat /\ y[2] \in Nat
            BY <1>2
        <3>2. x[1] = y[1] /\ x[2] = y[2]
            BY <3>1 DEF Precedes
        <3>3. x = << x[1], x[2] >> /\ y = << y[1], y[2] >>
            BY <1>2
        <3>4. QED
            BY <3>2, <3>3, Zenon
    <2>5. QED
        BY <2>2, <2>3, <2>4 DEF Orders
<1>4. n \in Nat /\ Ranks(R, P, S, n)
    BY <1>1, <1>3, RanksInOrder
<1>5. ASSUME NEW x \in S PROVE R[x] = Cardinality({ y \in S : Precedes(y, x) })
    <2>1. Lower(P, S, x) = { y \in S : Precedes(y, x) }
        BY DEF Lower
    <2>2. R[x] = Cardinality(Lower(P, S, x))
        BY DEF RankIn
    <2>3. QED
        BY <2>1, <2>2
<1>6. \A x, y \in S : << x, y >> \in P <=> Precedes(x, y)
    OBVIOUS
<1> HIDE DEF n, R, P
<1>7. I = [i \in 1..n |-> CHOOSE x \in S : Cardinality({ y \in S : Precedes(y, x) }) = i - 1]
    BY Zenon DEF SortedRanges, n
<1> HIDE DEF I
<1>8. ASSUME NEW i \in 1..n PROVE I[i] \in S /\ R[I[i]] = i - 1
    <2>1. PICK x \in S : R[x] = i - 1
        BY <1>4 DEF Ranks
    <2>2. Cardinality({ y \in S : Precedes(y, x) }) = i - 1
        BY <1>5, <2>1
    <2>3. I[i] \in S /\ Cardinality({ y \in S : Precedes(y, I[i]) }) = i - 1
        BY <1>7, <2>2, Zenon
    <2>4. QED
        BY <1>5, <2>3
<1>9. I \in Seq(S) /\ Len(I) = n /\ DOMAIN I = 1..n
    <2>1. I \in [1..n -> S]
        BY <1>7, <1>8
    <2>2. QED
        BY <1>4, <2>1, IsASeq, LenProperties
<1>10. ASSUME NEW x \in S PROVE \E i \in 1..n : I[i] = x
    <2>1. R[x] + 1 \in 1..n
        BY <1>4 DEF Ranks
    <2>2. I[R[x] + 1] \in S /\ R[I[R[x] + 1]] = (R[x] + 1) - 1
        BY <1>8, <2>1
    <2>3. R[I[R[x] + 1]] = R[x]
        BY <1>4, <2>2 DEF Ranks
    <2>4. I[R[x] + 1] = x
        BY <1>4, <2>2, <2>3 DEF Ranks
    <2>5. QED
        BY <2>1, <2>4
<1>11. ToSet(I) = S
    BY <1>8, <1>9, <1>10 DEF ToSet
<1>12. ASSUME NEW i \in 2..n PROVE I[i - 1][1] <= I[i][1]
    <2>1. i - 1 \in 1..n /\ i \in 1..n
        BY <1>4
    <2>2. I[i - 1] \in S /\ R[I[i - 1]] = (i - 1) - 1 /\ I[i] \in S /\ R[I[i]] = i - 1
        BY <1>8, <2>1
    <2>3. ~ (R[I[i]] < R[I[i - 1]])
        BY <2>1, <2>2
    <2>4. ~ Precedes(I[i], I[i - 1])
        BY <1>4, <1>6, <2>2, <2>3 DEF Ranks
    <2>5. I[i - 1][1] \in Nat /\ I[i][1] \in Nat
        BY <1>2, <2>2
    <2>6. QED
        BY <2>4, <2>5 DEF Precedes
<1>13. I \in Seq(WideRange)
    <2>1. I \in [1..n -> WideRange]
        BY <1>8, <1>9
    <2>2. QED
        BY <1>4, <2>1, IsASeq
<1>14. QED
    BY <1>9, <1>11, <1>12, <1>13 DEF I

\* The smaller and the greater of two numbers.
LEMMA MinOfTwo ==
    ASSUME NEW a \in Nat, NEW b \in Nat
    PROVE  Min({ a, b }) = IF a <= b THEN a ELSE b
<1>1. { a, b } \in SUBSET Nat /\ { a, b } # {}
    OBVIOUS
<1>2. Min({ a, b }) \in { a, b } /\ \A y \in { a, b } : Min({ a, b }) <= y
    BY <1>1, MinIsMember
<1>3. QED
    BY <1>2

LEMMA MaxOfTwo ==
    ASSUME NEW a \in Nat, NEW b \in Nat
    PROVE  Max({ a, b }) = IF a <= b THEN b ELSE a
<1>1. \E x \in { a, b } : \A y \in { a, b } : x >= y
    OBVIOUS
<1>2. Max({ a, b }) \in { a, b } /\ \A y \in { a, b } : Max({ a, b }) >= y
    BY <1>1, Zenon DEF Max
<1>3. QED
    BY <1>2

\* What a list covers, by its members.
LEMMA CoveredByList ==
    ASSUME NEW list \in Seq(WideRange), NEW u
    PROVE  u \in CoveredBy(ToSet(list))
              <=> u \in WideUnit /\ \E i \in 1..Len(list) : Within(list[i], u)
BY ListTypes DEF CoveredBy

\* A list that is one of another up to its last range, which begins beyond a gap.
EndsWith(q, list, k, x) ==
    /\ q \in Seq(WideRange) /\ Len(q) = k
    /\ \A i \in 1..(k - 1) : q[i] = list[i]
    /\ q[k] = x

LEMMA StaysNormal ==
    ASSUME NEW list, NormalList(list), NEW k \in 1..(Len(list) + 1), NEW x \in WideRange,
           k > 1 => list[k - 1][2] + 1 < x[1],
           NEW q, EndsWith(q, list, k, x)
    PROVE  NormalList(q)
<1>1. Len(list) \in Nat
    BY ListTypes DEF NormalList
<1>2. ASSUME NEW i \in 2..k PROVE q[i - 1][2] + 1 < q[i][1]
    <2>1. q[i - 1] = list[i - 1]
        <3>1. i - 1 \in 1..(k - 1)
            BY <1>1
        <3>2. QED
            BY <3>1 DEF EndsWith
    <2>2. CASE i = k
        BY <2>1, <2>2, <1>1 DEF EndsWith
    <2>3. CASE i # k
        <3>1. i \in 1..(k - 1) /\ i \in 2..Len(list)
            BY <1>1, <2>3
        <3>2. q[i] = list[i]
            BY <3>1 DEF EndsWith
        <3>3. list[i - 1][2] + 1 < list[i][1]
            BY <3>1 DEF NormalList
        <3>4. QED
            BY <2>1, <3>2, <3>3
    <2>4. QED
        BY <2>2, <2>3
<1>3. QED
    BY <1>2 DEF NormalList, EndsWith

\* A list with one more range.
LEMMA AppendFollows ==
    ASSUME NEW list \in Seq(WideRange), NEW x \in WideRange
    PROVE  /\ Len(list) \in Nat
           /\ EndsWith(Append(list, x), list, Len(list) + 1, x)
<1>1. Len(list) \in Nat
    BY LenProperties
<1>2. /\ Append(list, x) \in Seq(WideRange) /\ Len(Append(list, x)) = Len(list) + 1
      /\ \A i \in 1..Len(list) : Append(list, x)[i] = list[i]
      /\ Append(list, x)[Len(list) + 1] = x
    BY AppendProperties
<1>3. (Len(list) + 1) - 1 = Len(list)
    BY <1>1
<1>4. QED
    BY <1>1, <1>2, <1>3 DEF EndsWith

\* A list with its last range replaced.
LEMMA ReplaceFollows ==
    ASSUME NEW list \in Seq(WideRange), list # << >>, NEW x \in WideRange
    PROVE  /\ Len(list) \in Nat \ {0}
           /\ EndsWith(Append(Front(list), x), list, Len(list), x)
<1> DEFINE n == Len(list)
           f == Front(list)
<1>1. n \in Nat \ {0}
    BY EmptySeq
<1>2. /\ f \in Seq(WideRange) /\ Len(f) = n - 1
      /\ \A i \in 1..(n - 1) : f[i] = list[i]
    <2>1. \A i \in 1..(n - 1) : list[i] \in WideRange
        <3>1. 1..(n - 1) \subseteq 1..n
            BY <1>1
        <3>2. QED
            BY <3>1, ElementOfSeq
    <2>2. n - 1 \in Int /\ 1 \in Int
        BY <1>1
    <2>3. /\ SubSeq(list, 1, n - 1) \in Seq(WideRange)
          /\ Len(SubSeq(list, 1, n - 1)) = IF 1 <= n - 1 THEN ((n - 1) - 1) + 1 ELSE 0
          /\ \A i \in 1..(((n - 1) - 1) + 1) : SubSeq(list, 1, n - 1)[i] = list[(1 + i) - 1]
        BY <2>1, <2>2, SubSeqProperties
    <2>4. f = SubSeq(list, 1, n - 1)
        BY DEF Front
    <2> HIDE DEF f, n
    <2>5. Len(f) = n - 1
        BY <1>1, <2>3, <2>4
    <2>6. ASSUME NEW i \in 1..(n - 1) PROVE f[i] = list[i]
        <3>1. i \in 1..(((n - 1) - 1) + 1) /\ (1 + i) - 1 = i
            BY <1>1
        <3>2. SubSeq(list, 1, n - 1)[i] = list[(1 + i) - 1]
            BY <2>3, <3>1
        <3>3. QED
            BY <2>4, <3>1, <3>2
    <2>7. QED
        BY <2>3, <2>4, <2>5, <2>6
<1> HIDE DEF f, n
<1>3. /\ Append(f, x) \in Seq(WideRange) /\ Len(Append(f, x)) = Len(f) + 1
      /\ \A i \in 1..Len(f) : Append(f, x)[i] = f[i]
      /\ Append(f, x)[Len(f) + 1] = x
    BY <1>2, AppendProperties
<1>4. Len(f) + 1 = n
    BY <1>1, <1>2
<1>5. EndsWith(Append(f, x), list, n, x)
    BY <1>2, <1>3, <1>4 DEF EndsWith
<1>6. QED
    BY <1>1, <1>5 DEF f, n

\* What such a list covers.
LEMMA CoveredFollows ==
    ASSUME NEW list, NEW k \in Nat \ {0}, NEW x, NEW q, EndsWith(q, list, k, x),
           NEW u \in WideUnit
    PROVE  u \in CoveredBy(ToSet(q))
              <=> Within(x, u) \/ \E i \in 1..(k - 1) : Within(list[i], u)
<1>1. u \in CoveredBy(ToSet(q)) <=> \E i \in 1..k : Within(q[i], u)
    BY CoveredByList DEF EndsWith
<1>2. ASSUME NEW i \in 1..k PROVE i = k \/ i \in 1..(k - 1)
    OBVIOUS
<1>3. k \in 1..k /\ 1..(k - 1) \subseteq 1..k
    OBVIOUS
<1>4. q[k] = x /\ \A i \in 1..(k - 1) : q[i] = list[i]
    BY DEF EndsWith
<1>5. ASSUME \E i \in 1..k : Within(q[i], u)
      PROVE  Within(x, u) \/ \E i \in 1..(k - 1) : Within(list[i], u)
    BY <1>2, <1>4, <1>5, Zenon
<1>6. ASSUME Within(x, u) \/ \E i \in 1..(k - 1) : Within(list[i], u)
      PROVE  \E i \in 1..k : Within(q[i], u)
    BY <1>3, <1>4, <1>6, Zenon
<1>7. QED
    BY <1>1, <1>5, <1>6

\* One turn of the merge, for a range that does not begin before the last one.
MergedWith(q, list, r) ==
    /\ NormalList(q) /\ q # << >> /\ q[Len(q)][1] <= r[1]
    /\ \A u \in WideUnit :
          u \in CoveredBy(ToSet(q)) <=> u \in CoveredBy(ToSet(list)) \/ Within(r, u)

LEMMA MergeStep ==
    ASSUME NEW list, NormalList(list), NEW r \in WideRange,
           list # << >> => list[Len(list)][1] <= r[1]
    PROVE  MergedWith(MergeRange(list, r), list, r)
<1> DEFINE q == MergeRange(list, r)
           n == Len(list)
           l == list[n]
<1>1. list \in Seq(WideRange) /\ n \in Nat
    BY ListTypes DEF NormalList
<1>2. /\ r[1] \in Nat /\ r[2] \in Nat /\ r[1] <= r[2] /\ AsciiLimit <= r[1] /\ r[2] <= MaxUnit
      /\ MaxUnit \in Nat /\ AsciiLimit \in Nat
    BY RangeTypes, UnitAssumption
<1>3. ASSUME list # << >>
      PROVE  /\ n \in Nat \ {0} /\ n \in 1..n /\ l \in WideRange
             /\ l[1] \in Nat /\ l[2] \in Nat /\ l[1] <= l[2] /\ AsciiLimit <= l[1] /\ l[2] <= MaxUnit
             /\ Last(list) = l /\ l[1] <= r[1]
    <2>1. n \in Nat \ {0} /\ n \in 1..n
        BY <1>1, <1>3, EmptySeq
    <2>2. l \in WideRange
        BY <1>1, <2>1, ListTypes
    <2>3. QED
        BY <1>3, <2>1, <2>2, RangeTypes DEF Last
<1>4. CASE list # << >> /\ Touches(r, Last(list))
    <2> DEFINE x == << l[1], Max({ l[2], r[2] }) >>
    <2>1. q = Append(Front(list), x)
        BY <1>3, <1>4 DEF MergeRange
    <2>2. r[1] <= l[2] + 1
        <3>1. l[2] + 1 \in Nat
            BY <1>3, <1>4
        <3>2. Min({ l[2] + 1, MaxUnit }) = IF l[2] + 1 <= MaxUnit THEN l[2] + 1 ELSE MaxUnit
            BY <1>2, <3>1, MinOfTwo
        <3>3. r[1] <= Min({ l[2] + 1, MaxUnit })
            BY <1>3, <1>4 DEF Touches
        <3>4. QED
            BY <1>2, <3>1, <3>2, <3>3
    <2>3. Max({ l[2], r[2] }) = IF l[2] <= r[2] THEN r[2] ELSE l[2]
        BY <1>2, <1>3, <1>4, MaxOfTwo
    <2> HIDE DEF n, l
    <2>4. x \in WideRange /\ x[1] = l[1] /\ x[2] = Max({ l[2], r[2] })
        <3>1. x[1] = l[1] /\ x[2] = Max({ l[2], r[2] })
            OBVIOUS
        <3>2. x[1] \in WideUnit /\ x[2] \in WideUnit /\ x[1] <= x[2]
            BY <1>2, <1>3, <1>4, <2>3 DEF WideUnit
        <3>3. QED
            BY <3>1, <3>2 DEF WideRange
    <2> HIDE DEF x
    <2>5. EndsWith(q, list, n, x)
        BY <1>1, <1>4, <2>1, <2>4, ReplaceFollows DEF n
    <2>6. NormalList(q)
        <3>1. ASSUME n > 1 PROVE list[n - 1][2] + 1 < x[1]
            <4>1. n \in 2..n
                BY <1>1, <3>1
            <4>2. list[n - 1][2] + 1 < list[n][1]
                BY <4>1 DEF NormalList, n
            <4>3. QED
                BY <2>4, <4>2 DEF l
        <3>2. n \in 1..(Len(list) + 1)
            BY <1>3, <1>4 DEF n
        <3>3. QED
            BY <2>4, <2>5, <3>1, <3>2, StaysNormal
    <2>7. q # << >> /\ q[Len(q)][1] <= r[1]
        <3>1. q \in Seq(WideRange) /\ Len(q) = n /\ q[n] = x
            BY <2>5 DEF EndsWith
        <3>2. n \in Nat \ {0}
            BY <1>3, <1>4
        <3>3. q # << >>
            BY <3>1, <3>2, EmptySeq
        <3>4. QED
            BY <1>3, <1>4, <2>4, <3>1, <3>3
    <2>8. ASSUME NEW u \in WideUnit
          PROVE  u \in CoveredBy(ToSet(q)) <=> u \in CoveredBy(ToSet(list)) \/ Within(r, u)
        <3>1. u \in Int
            BY <1>2 DEF WideUnit
        <3>2. Within(x, u) <=> Within(l, u) \/ Within(r, u)
            BY <1>2, <1>3, <1>4, <2>2, <2>3, <2>4, <3>1 DEF Within
        <3>3. u \in CoveredBy(ToSet(q)) <=> Within(x, u) \/ \E i \in 1..(n - 1) : Within(list[i], u)
            BY <1>3, <1>4, <2>5, CoveredFollows
        <3>4. u \in CoveredBy(ToSet(list)) <=> \E i \in 1..n : Within(list[i], u)
            BY <1>1, CoveredByList DEF n
        <3>5. (\E i \in 1..n : Within(list[i], u))
                 <=> Within(l, u) \/ \E i \in 1..(n - 1) : Within(list[i], u)
            <4>1. n \in 1..n /\ 1..(n - 1) \subseteq 1..n /\ \A i \in 1..n : i = n \/ i \in 1..(n - 1)
                BY <1>3, <1>4
            <4>2. QED
                BY <4>1, Zenon DEF l
        <3>6. QED
            BY <3>2, <3>3, <3>4, <3>5
    <2>9. QED
        BY <2>6, <2>7, <2>8 DEF MergedWith
<1>5. CASE ~ (list # << >> /\ Touches(r, Last(list)))
    <2>1. q = Append(list, r)
        BY <1>5 DEF MergeRange
    <2>2. EndsWith(q, list, n + 1, r)
        BY <1>1, <2>1, AppendFollows
    <2>3. ASSUME n + 1 > 1 PROVE l[2] + 1 < r[1]
        <3>1. list # << >>
            BY <1>1, <2>3, EmptySeq
        <3>2. Min({ l[2] + 1, MaxUnit }) = IF l[2] + 1 <= MaxUnit THEN l[2] + 1 ELSE MaxUnit
            <4>1. l[2] + 1 \in Nat
                BY <1>3, <3>1
            <4>2. QED
                BY <1>2, <4>1, MinOfTwo
        <3>3. ~ (r[1] <= Min({ l[2] + 1, MaxUnit }))
            BY <1>3, <1>5, <3>1 DEF Touches
        <3> HIDE DEF l
        <3>4. l[2] \in Nat
            BY <1>3, <3>1
        <3>5. QED
            BY <1>2, <3>2, <3>3, <3>4
    <2>4. (n + 1) - 1 = n /\ n + 1 \in 1..(Len(list) + 1) /\ n + 1 \in Nat \ {0}
        BY <1>1
    <2>5. NormalList(q)
        BY <2>2, <2>3, <2>4, StaysNormal
    <2> HIDE DEF n
    <2>6. q # << >> /\ q[Len(q)][1] <= r[1]
        <3>1. q \in Seq(WideRange) /\ Len(q) = n + 1 /\ q[n + 1] = r
            BY <2>2 DEF EndsWith
        <3>2. q # << >>
            BY <2>4, <3>1, EmptySeq
        <3>3. QED
            BY <1>2, <3>1, <3>2
    <2>7. ASSUME NEW u \in WideUnit
          PROVE  u \in CoveredBy(ToSet(q)) <=> u \in CoveredBy(ToSet(list)) \/ Within(r, u)
        <3>1. u \in CoveredBy(ToSet(q))
                 <=> Within(r, u) \/ \E i \in 1..((n + 1) - 1) : Within(list[i], u)
            BY <2>2, <2>4, CoveredFollows
        <3>2. u \in CoveredBy(ToSet(list)) <=> \E i \in 1..n : Within(list[i], u)
            BY <1>1, CoveredByList DEF n
        <3>3. QED
            BY <2>4, <3>1, <3>2
    <2>8. QED
        BY <2>5, <2>6, <2>7 DEF MergedWith
<1>6. QED
    BY <1>4, <1>5

\* Whatever is merged, a list of ranges comes out.
LEMMA MergeTypes ==
    ASSUME NEW list \in Seq(WideRange), NEW r \in WideRange
    PROVE  MergeRange(list, r) \in Seq(WideRange)
<1>1. CASE list # << >> /\ Touches(r, Last(list))
    <2> DEFINE l == Last(list)
               x == << l[1], Max({ l[2], r[2] }) >>
    <2>1. l \in WideRange
        <3>1. Len(list) \in 1..Len(list)
            BY <1>1, EmptySeq
        <3>2. QED
            BY <3>1, ElementOfSeq DEF Last
    <2>2. Max({ l[2], r[2] }) = IF l[2] <= r[2] THEN r[2] ELSE l[2]
        BY <2>1, RangeTypes, MaxOfTwo
    <2>3. x \in WideRange
        <3>1. /\ l[1] \in Nat /\ l[2] \in Nat /\ l[1] <= l[2] /\ l[1] \in WideUnit /\ l[2] \in WideUnit
              /\ r[2] \in Nat /\ r[2] \in WideUnit
            BY <2>1, RangeTypes
        <3> HIDE DEF l
        <3>2. l[1] <= Max({ l[2], r[2] }) /\ Max({ l[2], r[2] }) \in WideUnit
            BY <2>2, <3>1
        <3>3. QED
            BY <3>1, <3>2 DEF WideRange
    <2>4. MergeRange(list, r) = Append(Front(list), x)
        BY <1>1 DEF MergeRange
    <2> HIDE DEF x
    <2>5. QED
        BY <1>1, <2>3, <2>4, ReplaceFollows DEF EndsWith
<1>2. CASE ~ (list # << >> /\ Touches(r, Last(list)))
    <2>1. MergeRange(list, r) = Append(list, r)
        BY <1>2 DEF MergeRange
    <2>2. QED
        BY <2>1, AppendFollows DEF EndsWith
<1>3. QED
    BY <1>1, <1>2

\* The lists merged on the way.
Merging(m, t, n) ==
    /\ m \in [0..n -> Seq(WideRange)] /\ m[0] = << >>
    /\ \A i \in 1..n : m[i] = MergeRange(m[i - 1], t[i])

LEMMA NormalizedFollows ==
    ASSUME NEW S \in SUBSET WideRange
    PROVE  \E m : /\ Merging(m, SortedRanges(S), Len(SortedRanges(S)))
                  /\ Normalized(S) = m[Len(SortedRanges(S))]
<1> DEFINE t == SortedRanges(S)
           n == Len(t)
           merged[i \in 0..Len(t)] == IF i = 0 THEN << >> ELSE MergeRange(merged[i - 1], t[i])
           Step(f) == [i \in 0..n |-> IF i = 0 THEN << >> ELSE MergeRange(f[i - 1], t[i])]
           g == [w \in (1..n) \X Seq(WideRange) |-> MergeRange(w[2], t[w[1]])]
<1>1. Normalized(S) = merged[Len(t)]
    BY Zenon DEF Normalized
<1>2. merged = CHOOSE f : f = Step(f)
    BY Zenon
<1> HIDE DEF merged
<1>3. n \in Nat /\ \A i \in 1..n : t[i] \in WideRange
    BY SortedRangesFacts, ListTypes
<1> HIDE DEF t
<1>4. g \in [(1..n) \X Seq(WideRange) -> Seq(WideRange)]
    <2>1. ASSUME NEW w \in (1..n) \X Seq(WideRange) PROVE MergeRange(w[2], t[w[1]]) \in Seq(WideRange)
        <3>1. w[1] \in 1..n /\ w[2] \in Seq(WideRange)
            OBVIOUS
        <3>2. QED
            BY <1>3, <3>1, MergeTypes
    <2>2. QED
        BY <2>1
<1>5. << >> \in Seq(WideRange)
    BY EmptySeq
<1> HIDE DEF n
<1>6. PICK f \in Along(Seq(WideRange), n, << >>, g) : TRUE
    <2> HIDE DEF g
    <2>1. QED
        BY <1>3, <1>4, <1>5, Recursion
<1>7. /\ f \in [0..n -> Seq(WideRange)] /\ f[0] = << >>
      /\ \A i \in 1..n : f[i] = g[<< i, f[i - 1] >>]
    BY <1>6 DEF Along
<1>8. ASSUME NEW i \in 1..n PROVE f[i] = MergeRange(f[i - 1], t[i])
    <2>1. i - 1 \in 0..n
        BY <1>3
    <2>2. << i, f[i - 1] >> \in (1..n) \X Seq(WideRange)
        BY <1>7, <2>1
    <2>3. QED
        BY <1>7, <2>2
<1> HIDE DEF g
<1>9. f = Step(f)
    <2>1. ASSUME NEW i \in 0..n
          PROVE  f[i] = IF i = 0 THEN << >> ELSE MergeRange(f[i - 1], t[i])
        <3>1. i # 0 => i \in 1..n
            BY <1>3
        <3>2. QED
            BY <1>7, <1>8, <3>1
    <2>2. QED
        BY <1>7, <2>1
<1> HIDE DEF Step
<1>10. merged = Step(merged)
    BY <1>2, <1>9, Zenon
<1>11. merged \in [0..n -> Seq(WideRange)] /\ merged = f
    <2> DEFINE Good == { i \in 0..n : merged[i] = f[i] }
    <2>1. \A i \in 0..n : merged[i] = IF i = 0 THEN << >> ELSE MergeRange(merged[i - 1], t[i])
        BY <1>10 DEF Step
    <2>2. 0 \in Good
        BY <1>3, <1>7, <2>1
    <2>3. ASSUME NEW i \in 1..n, i - 1 \in Good PROVE i \in Good
        <3>1. i \in 0..n /\ i # 0
            BY <1>3
        <3>2. merged[i] = MergeRange(merged[i - 1], t[i])
            BY <2>1, <3>1
        <3>3. merged[i - 1] = f[i - 1]
            BY <2>3
        <3>4. QED
            BY <1>8, <3>1, <3>2, <3>3
    <2>4. 0..n \subseteq Good
        <3> HIDE DEF Good
        <3>1. QED
            BY <1>3, <2>2, <2>3, Induction
    <2>5. \A i \in 0..n : merged[i] = f[i]
        BY <2>4
    <2>6. DOMAIN merged = 0..n /\ merged = [i \in 0..n |-> merged[i]]
        BY <1>10 DEF Step
    <2>7. merged = f
        BY <1>7, <2>5, <2>6
    <2>8. QED
        BY <1>7, <2>7
<1>12. Merging(merged, t, n)
    BY <1>7, <1>8, <1>11 DEF Merging
<1>13. QED
    BY <1>1, <1>12 DEF n, t

\* A set of ranges comes into the one form, and covers what it did.
LEMMA NormalizedFacts ==
    ASSUME NEW S \in SUBSET WideRange
    PROVE  NormalList(Normalized(S)) /\ CoveredBy(ToSet(Normalized(S))) = CoveredBy(S)
<1> DEFINE t == SortedRanges(S)
           n == Len(t)
<1>1. PICK m : Merging(m, t, n) /\ Normalized(S) = m[n]
    BY NormalizedFollows
<1> DEFINE Right(i) ==
             /\ NormalList(m[i])
             /\ i > 0 => m[i] # << >> /\ m[i][Len(m[i])][1] <= t[i][1]
             /\ i = 0 => m[i] = << >>
             /\ \A u \in WideUnit :
                   u \in CoveredBy(ToSet(m[i])) <=> \E j \in 1..i : Within(t[j], u)
           Good == { i \in 0..n : Right(i) }
<1>2. /\ t \in Seq(WideRange) /\ ToSet(t) = S
      /\ \A i \in 2..n : t[i - 1][1] <= t[i][1]
    BY SortedRangesFacts
<1> HIDE DEF t
<1>3. n \in Nat /\ \A i \in 1..n : t[i] \in WideRange /\ t[i][1] \in Nat
    BY <1>2, ListTypes, RangeTypes
<1>4. 0 \in Good
    <2>1. m[0] = << >>
        BY <1>1 DEF Merging
    <2>2. << >> \in Seq(WideRange) /\ Len(<< >>) = 0
        BY EmptySeq
    <2>3. NormalList(m[0])
        BY <2>1, <2>2 DEF NormalList
    <2>4. ASSUME NEW u \in WideUnit
          PROVE  u \in CoveredBy(ToSet(m[0])) <=> \E j \in 1..0 : Within(t[j], u)
        <3>1. ~ \E j \in 1..0 : Within(t[j], u)
            OBVIOUS
        <3>2. ~ \E j \in 1..Len(m[0]) : Within(m[0][j], u)
            BY <2>1, <2>2
        <3>3. QED
            BY <2>1, <2>2, <3>1, <3>2, CoveredByList
    <2>5. QED
        BY <1>3, <2>1, <2>3, <2>4
<1>5. ASSUME NEW i \in 1..n, i - 1 \in Good PROVE i \in Good
    <2>1. i \in 0..n /\ i - 1 \in 0..n /\ i > 0 /\ i # 0
        BY <1>3
    <2>2. Right(i - 1)
        BY <1>5
    <2>3. ASSUME m[i - 1] # << >>
          PROVE  m[i - 1][Len(m[i - 1])][1] <= t[i][1]
        <3>1. i - 1 > 0
            BY <2>1, <2>2, <2>3
        <3>2. i \in 2..n /\ i - 1 \in 1..n
            BY <2>1, <3>1
        <3>3. t[i - 1][1] <= t[i][1] /\ t[i - 1][1] \in Nat /\ t[i][1] \in Nat
            BY <1>2, <1>3, <3>2
        <3>4. m[i - 1][Len(m[i - 1])][1] <= t[i - 1][1]
            BY <2>2, <3>1
        <3>5. m[i - 1][Len(m[i - 1])][1] \in Nat
            <4>1. m[i - 1] \in Seq(WideRange)
                BY <2>2 DEF NormalList
            <4>2. Len(m[i - 1]) \in 1..Len(m[i - 1])
                BY <4>1, <2>3, EmptySeq
            <4>3. QED
                BY <4>1, <4>2, ListTypes, RangeTypes
        <3>6. QED
            BY <3>3, <3>4, <3>5
    <2>4. NormalList(m[i - 1]) /\ t[i] \in WideRange
        BY <1>3, <2>2
    <2>5. m[i] = MergeRange(m[i - 1], t[i])
        BY <1>1 DEF Merging
    <2>6. MergedWith(m[i], m[i - 1], t[i])
        BY <2>3, <2>4, <2>5, MergeStep
    <2>7. ASSUME NEW u \in WideUnit
          PROVE  u \in CoveredBy(ToSet(m[i])) <=> \E j \in 1..i : Within(t[j], u)
        <3>1. u \in CoveredBy(ToSet(m[i])) <=> u \in CoveredBy(ToSet(m[i - 1])) \/ Within(t[i], u)
            BY <2>6 DEF MergedWith
        <3>2. u \in CoveredBy(ToSet(m[i - 1])) <=> \E j \in 1..(i - 1) : Within(t[j], u)
            BY <2>2
        <3>3. i \in 1..i /\ 1..(i - 1) \subseteq 1..i /\ \A j \in 1..i : j = i \/ j \in 1..(i - 1)
            BY <1>3
        <3>4. (\E j \in 1..i : Within(t[j], u))
                 <=> (\E j \in 1..(i - 1) : Within(t[j], u)) \/ Within(t[i], u)
            BY <3>3, Zenon
        <3>5. QED
            BY <3>1, <3>2, <3>4
    <2>8. Right(i)
        BY <2>1, <2>6, <2>7 DEF MergedWith
    <2>9. QED
        BY <2>1, <2>8
<1>6. Right(n)
    <2> HIDE DEF Good
    <2>1. 0..n \subseteq Good
        BY <1>3, <1>4, <1>5, Induction
    <2>2. n \in Good
        BY <1>3, <2>1
    <2>3. QED
        BY <2>2 DEF Good
<1>7. ASSUME NEW u \in WideUnit
      PROVE  u \in CoveredBy(ToSet(m[n])) <=> u \in CoveredBy(S)
    <2>1. u \in CoveredBy(ToSet(t)) <=> \E j \in 1..n : Within(t[j], u)
        BY <1>2, CoveredByList
    <2>2. QED
        BY <1>2, <1>6, <2>1
<1>8. CoveredBy(ToSet(m[n])) = CoveredBy(S)
    <2>1. CoveredBy(ToSet(m[n])) \subseteq WideUnit /\ CoveredBy(S) \subseteq WideUnit
        BY DEF CoveredBy
    <2>2. QED
        BY <1>7, <2>1
<1>9. QED
    BY <1>1, <1>6, <1>8 DEF n, t

-----------------------------------------------------------------------------
(* The operations on predicates. *)

\* A predicate put together from bits and a normal list.
LEMMA MadeOf ==
    ASSUME NEW ascii \in SUBSET AsciiUnit, NEW ranges, NormalList(ranges)
    PROVE  /\ IsPredicate(SymbolPredicate(ascii, ranges))
           /\ UnitsOf(SymbolPredicate(ascii, ranges)) = ascii \cup CoveredBy(ToSet(ranges))
<1> DEFINE p == SymbolPredicate(ascii, ranges)
<1>1. p.ascii = ascii /\ p.ranges = ranges /\ p = [ascii |-> ascii, ranges |-> ranges]
    BY DEF SymbolPredicate
<1>2. ranges \in Seq(WideRange)
    BY DEF NormalList
<1> HIDE DEF p
<1>3. IsNormal(p)
    BY <1>1, <1>2, NormalRanges
<1>4. IsPredicate(p)
    BY <1>1, <1>2, <1>3 DEF IsPredicate
<1>5. QED
    BY <1>1, <1>4, MatchesCovered DEF p

\* And what any predicate is put together from.
LEMMA PartsOf ==
    ASSUME NEW p, IsPredicate(p)
    PROVE  /\ p.ascii \in SUBSET AsciiUnit /\ NormalList(p.ranges) /\ p.ranges \in Seq(WideRange)
           /\ ToSet(p.ranges) \in SUBSET WideRange
           /\ p = SymbolPredicate(p.ascii, p.ranges)
           /\ UnitsOf(p) = p.ascii \cup CoveredBy(ToSet(p.ranges))
<1>1. p.ascii \in SUBSET AsciiUnit /\ p.ranges \in Seq(WideRange) /\ IsNormal(p)
      /\ p = [ascii |-> p.ascii, ranges |-> p.ranges]
    BY DEF IsPredicate
<1>2. NormalList(p.ranges)
    BY <1>1, NormalRanges
<1>3. ToSet(p.ranges) \in SUBSET WideRange
    BY <1>1, ListTypes
<1>4. QED
    BY <1>1, <1>2, <1>3, MatchesCovered DEF SymbolPredicate

\* Insertion keeps the form and adds the units from one to another, on either side of the
\* limit or across it (insert_range, insert).
THEOREM InsertRangeAdds ==
    ASSUME NEW p, IsPredicate(p), NEW from \in Unit, NEW to \in Unit
    PROVE  /\ IsPredicate(InsertRange(p, from, to))
           /\ UnitsOf(InsertRange(p, from, to)) = UnitsOf(p) \cup (from..to)
<1> DEFINE q == InsertRange(p, from, to)
           ascii == p.ascii \cup (from..Min({ to, AsciiLimit - 1 }))
           x == << Max({ from, AsciiLimit }), to >>
<1>1. /\ p.ascii \in SUBSET AsciiUnit /\ NormalList(p.ranges) /\ ToSet(p.ranges) \in SUBSET WideRange
      /\ UnitsOf(p) = p.ascii \cup CoveredBy(ToSet(p.ranges))
    BY PartsOf
<1>2. from \in Nat /\ to \in Nat /\ to <= MaxUnit /\ from <= MaxUnit
      /\ AsciiLimit \in Nat \ {0} /\ AsciiLimit - 1 \in Nat /\ MaxUnit \in Nat
    BY UnitAssumption DEF Unit
<1>3. Min({ to, AsciiLimit - 1 }) = IF to <= AsciiLimit - 1 THEN to ELSE AsciiLimit - 1
    BY <1>2, MinOfTwo
<1>4. Max({ from, AsciiLimit }) = IF from <= AsciiLimit THEN AsciiLimit ELSE from
    BY <1>2, MaxOfTwo
<1>5. CASE from > to
    <2>1. q = p /\ from..to = {}
        BY <1>2, <1>5 DEF InsertRange
    <2>2. QED
        BY <2>1
<1>6. CASE from <= to /\ to < AsciiLimit
    <2>1. q = SymbolPredicate(ascii, p.ranges)
        BY <1>2, <1>6 DEF InsertRange
    <2>2. ascii = p.ascii \cup (from..to) /\ from..to \subseteq AsciiUnit
        BY <1>2, <1>3, <1>6 DEF AsciiUnit
    <2> HIDE DEF ascii
    <2>3. ascii \in SUBSET AsciiUnit
        BY <1>1, <2>2
    <2>4. QED
        BY <1>1, <2>1, <2>2, <2>3, MadeOf
<1>7. CASE from <= to /\ ~ (to < AsciiLimit)
    <2> DEFINE S == ToSet(p.ranges) \cup { x }
    <2>1. q = SymbolPredicate(ascii, Normalized(S))
        BY <1>2, <1>7 DEF InsertRange
    <2>2. x \in WideRange /\ x[1] = Max({ from, AsciiLimit }) /\ x[2] = to
        <3>1. x[1] = Max({ from, AsciiLimit }) /\ x[2] = to
            OBVIOUS
        <3>2. x[1] \in WideUnit /\ x[2] \in WideUnit /\ x[1] <= x[2]
            BY <1>2, <1>4, <1>7 DEF WideUnit
        <3>3. QED
            BY <3>1, <3>2 DEF WideRange
    <2> HIDE DEF x
    <2>3. S \in SUBSET WideRange
        BY <1>1, <2>2
    <2>4. NormalList(Normalized(S)) /\ CoveredBy(ToSet(Normalized(S))) = CoveredBy(S)
        BY <2>3, NormalizedFacts
    <2>5. CoveredBy(S) = CoveredBy(ToSet(p.ranges)) \cup { u \in WideUnit : Within(x, u) }
        BY DEF CoveredBy
    <2> HIDE DEF S
    <2>6. (from..Min({ to, AsciiLimit - 1 })) \cup { u \in WideUnit : Within(x, u) } = from..to
        <3>1. \A u : u \in from..Min({ to, AsciiLimit - 1 })
                        <=> u \in Int /\ from <= u /\ u <= AsciiLimit - 1
            BY <1>2, <1>3, <1>7
        <3>2. \A u : u \in { v \in WideUnit : Within(x, v) }
                        <=> u \in Int /\ AsciiLimit <= u /\ from <= u /\ u <= to
            BY <1>2, <1>4, <1>7, <2>2 DEF WideUnit, Within
        <3>3. \A u : u \in from..to <=> u \in Int /\ from <= u /\ u <= to
            BY <1>2
        <3>4. \A u \in Int : (u <= AsciiLimit - 1 => u <= to)
                               /\ (AsciiLimit <= u \/ u <= AsciiLimit - 1)
            BY <1>2, <1>7
        <3>5. QED
            BY <3>1, <3>2, <3>3, <3>4, Zenon
    <2>7. from..Min({ to, AsciiLimit - 1 }) \subseteq AsciiUnit
        BY <1>2, <1>3, <1>7 DEF AsciiUnit
    <2>8. ascii \in SUBSET AsciiUnit
        BY <1>1, <2>7
    <2>9. IsPredicate(q) /\ UnitsOf(q) = ascii \cup CoveredBy(S)
        <3> HIDE DEF ascii
        <3>1. QED
            BY <2>1, <2>4, <2>8, MadeOf
    <2>10. ascii \cup CoveredBy(S) = UnitsOf(p) \cup (from..to)
        BY <1>1, <2>5, <2>6
    <2>11. QED
        BY <2>9, <2>10
<1>8. QED
    BY <1>2, <1>5, <1>6, <1>7

\* The union of two predicates keeps the form and stands for the units of either.
THEOREM JoinedUnites ==
    ASSUME NEW p, IsPredicate(p), NEW q, IsPredicate(q)
    PROVE  IsPredicate(Joined(p, q)) /\ UnitsOf(Joined(p, q)) = UnitsOf(p) \cup UnitsOf(q)
<1> DEFINE S == ToSet(p.ranges) \cup ToSet(q.ranges)
<1>1. /\ p.ascii \in SUBSET AsciiUnit /\ ToSet(p.ranges) \in SUBSET WideRange
      /\ UnitsOf(p) = p.ascii \cup CoveredBy(ToSet(p.ranges))
    BY PartsOf
<1>2. /\ q.ascii \in SUBSET AsciiUnit /\ ToSet(q.ranges) \in SUBSET WideRange
      /\ UnitsOf(q) = q.ascii \cup CoveredBy(ToSet(q.ranges))
    BY PartsOf
<1>3. Joined(p, q) = SymbolPredicate(p.ascii \cup q.ascii, Normalized(S))
    BY DEF Joined
<1>4. CoveredBy(S) = CoveredBy(ToSet(p.ranges)) \cup CoveredBy(ToSet(q.ranges))
    BY DEF CoveredBy
<1>5. S \in SUBSET WideRange /\ p.ascii \cup q.ascii \in SUBSET AsciiUnit
    BY <1>1, <1>2
<1> HIDE DEF S
<1>6. NormalList(Normalized(S)) /\ CoveredBy(ToSet(Normalized(S))) = CoveredBy(S)
    BY <1>5, NormalizedFacts
<1>7. /\ IsPredicate(Joined(p, q))
      /\ UnitsOf(Joined(p, q)) = (p.ascii \cup q.ascii) \cup CoveredBy(S)
    BY <1>3, <1>5, <1>6, MadeOf
<1>8. QED
    BY <1>1, <1>2, <1>4, <1>7

\* One more gap, or none.
GapAdded(q, gaps, next, end) ==
    /\ NormalList(q)
    /\ q # << >> => q[Len(q)][2] + 1 < next \/ q[Len(q)][2] <= end
    /\ \A u \in WideUnit :
          u \in CoveredBy(ToSet(q)) <=> u \in CoveredBy(ToSet(gaps)) \/ (next <= u /\ u <= end)

LEMMA GapStep ==
    ASSUME NEW gaps, NormalList(gaps), NEW next \in Nat, AsciiLimit <= next,
           NEW end \in Nat, end <= MaxUnit,
           gaps # << >> => gaps[Len(gaps)][2] + 1 < next
    PROVE  GapAdded(WithGap(gaps, next, end), gaps, next, end)
<1> DEFINE q == WithGap(gaps, next, end)
           n == Len(gaps)
           x == << next, end >>
<1>1. gaps \in Seq(WideRange) /\ n \in Nat /\ AsciiLimit \in Nat /\ MaxUnit \in Nat
    BY ListTypes, UnitAssumption DEF NormalList
<1>2. CASE ~ (next <= end)
    <2>1. q = gaps
        BY <1>2 DEF WithGap
    <2>2. ASSUME NEW u \in WideUnit PROVE ~ (next <= u /\ u <= end)
        BY <1>1, <1>2 DEF WideUnit
    <2>3. QED
        BY <2>1, <2>2 DEF GapAdded
<1>3. CASE next <= end
    <2>1. q = Append(gaps, x)
        BY <1>3 DEF WithGap
    <2>2. x \in WideRange /\ x[1] = next /\ x[2] = end
        <3>1. x[1] = next /\ x[2] = end
            OBVIOUS
        <3>2. x[1] \in WideUnit /\ x[2] \in WideUnit /\ x[1] <= x[2]
            BY <1>1, <1>3 DEF WideUnit
        <3>3. QED
            BY <3>1, <3>2 DEF WideRange
    <2> HIDE DEF x
    <2>3. EndsWith(q, gaps, n + 1, x)
        BY <1>1, <2>1, <2>2, AppendFollows
    <2>4. (n + 1) - 1 = n /\ n + 1 \in 1..(Len(gaps) + 1) /\ n + 1 \in Nat \ {0}
        BY <1>1
    <2>5. ASSUME n + 1 > 1 PROVE gaps[n][2] + 1 < x[1]
        <3>1. gaps # << >>
            BY <1>1, <2>5, EmptySeq
        <3>2. QED
            BY <2>2, <3>1
    <2>6. NormalList(q)
        BY <2>2, <2>3, <2>4, <2>5, StaysNormal
    <2> HIDE DEF n
    <2>7. q[Len(q)][2] <= end
        BY <2>2, <2>3 DEF EndsWith
    <2>8. ASSUME NEW u \in WideUnit
          PROVE  u \in CoveredBy(ToSet(q))
                    <=> u \in CoveredBy(ToSet(gaps)) \/ (next <= u /\ u <= end)
        <3>1. u \in CoveredBy(ToSet(q))
                 <=> Within(x, u) \/ \E i \in 1..((n + 1) - 1) : Within(gaps[i], u)
            BY <2>3, <2>4, CoveredFollows
        <3>2. u \in CoveredBy(ToSet(gaps)) <=> \E i \in 1..n : Within(gaps[i], u)
            BY <1>1, CoveredByList DEF n
        <3>3. QED
            BY <2>2, <2>4, <3>1, <3>2 DEF Within
    <2>9. QED
        BY <2>6, <2>7, <2>8 DEF GapAdded
<1>4. QED
    BY <1>2, <1>3

\* The lists of gaps on the way.
GapUpto(ranges, gaps, i) ==
    WithGap(gaps, AfterRanges(ranges, i - 1), ranges[i][1] - 1)

Walking(g, ranges, n) ==
    /\ g[0] = << >>
    /\ \A i \in 1..n : g[i] = GapUpto(ranges, g[i - 1], i)

LEMMA ComplementFollows ==
    ASSUME NEW p, Len(p.ranges) \in Nat
    PROVE  \E g : /\ Walking(g, p.ranges, Len(p.ranges))
                  /\ Complement(p) =
                        SymbolPredicate(AsciiUnit \ p.ascii,
                            WithGap(g[Len(p.ranges)], AfterRanges(p.ranges, Len(p.ranges)), MaxUnit))
<1> DEFINE R == p.ranges
           n == Len(R)
           gaps[i \in 0..Len(p.ranges)] ==
             IF i = 0 THEN << >>
             ELSE WithGap(gaps[i - 1], AfterRanges(p.ranges, i - 1), p.ranges[i][1] - 1)
           Step(f) == [i \in 0..n |-> IF i = 0 THEN << >>
                                      ELSE WithGap(f[i - 1], AfterRanges(R, i - 1), R[i][1] - 1)]
           Walked(f, k) == /\ f[0] = << >>
                           /\ \A i \in 1..k : f[i] = GapUpto(R, f[i - 1], i)
           Good == { k \in 0..n : \E f : Walked(f, k) }
<1>1. Complement(p) = SymbolPredicate(AsciiUnit \ p.ascii,
                            WithGap(gaps[Len(p.ranges)], AfterRanges(p.ranges, Len(p.ranges)), MaxUnit))
    BY Zenon DEF Complement
<1>2. gaps = CHOOSE f : f = Step(f)
    BY Zenon
<1> HIDE DEF gaps
<1>3. n \in Nat
    OBVIOUS
<1>4. 0 \in Good
    <2>1. Walked([i \in 0..0 |-> << >>], 0)
        OBVIOUS
    <2> HIDE DEF Walked
    <2>2. QED
        BY <1>3, <2>1
<1>5. ASSUME NEW k \in 1..n, k - 1 \in Good PROVE k \in Good
    <2>1. PICK f : Walked(f, k - 1)
        BY <1>5
    <2> DEFINE h == [i \in 0..k |-> IF i = k THEN GapUpto(R, f[k - 1], k) ELSE f[i]]
    <2>2. h[k] = GapUpto(R, f[k - 1], k)
        OBVIOUS
    <2>3. \A i \in 0..(k - 1) : h[i] = f[i]
        OBVIOUS
    <2> HIDE DEF h
    <2>4. h[0] = << >>
        BY <2>1, <2>3
    <2>5. ASSUME NEW i \in 1..k PROVE h[i] = GapUpto(R, h[i - 1], i)
        <3>1. i - 1 \in 0..(k - 1)
            OBVIOUS
        <3>2. h[i - 1] = f[i - 1]
            BY <2>3, <3>1
        <3>3. CASE i = k
            BY <2>2, <3>2, <3>3
        <3>4. CASE i # k
            <4>1. i \in 1..(k - 1) /\ i \in 0..(k - 1)
                BY <3>4
            <4>2. h[i] = f[i]
                BY <2>3, <4>1
            <4>3. f[i] = GapUpto(R, f[i - 1], i)
                BY <2>1, <4>1
            <4>4. QED
                BY <3>2, <4>2, <4>3
        <3>5. QED
            BY <3>3, <3>4
    <2>6. Walked(h, k)
        BY <2>4, <2>5
    <2>7. k \in 0..n
        OBVIOUS
    <2> HIDE DEF Walked
    <2>8. QED
        BY <2>6, <2>7
<1>6. n \in Good
    <2> HIDE DEF Good, n
    <2>1. 0..n \subseteq Good
        BY <1>3, <1>4, <1>5, Induction
    <2>2. QED
        BY <1>3, <2>1
<1>7. PICK f : Walked(f, n)
    BY <1>6
<1> DEFINE g == [i \in 0..n |-> f[i]]
<1> HIDE DEF R
<1>8. g = Step(g)
    <2>1. \A i \in 0..n : g[i] = f[i]
        OBVIOUS
    <2> HIDE DEF g
    <2>2. ASSUME NEW i \in 0..n
          PROVE  f[i] = IF i = 0 THEN << >>
                        ELSE WithGap(g[i - 1], AfterRanges(R, i - 1), R[i][1] - 1)
        <3>1. CASE i = 0
            BY <1>7, <3>1
        <3>2. CASE i # 0
            <4>1. i \in 1..n /\ i - 1 \in 0..n
                BY <1>3, <3>2
            <4>2. f[i] = GapUpto(R, f[i - 1], i) /\ g[i - 1] = f[i - 1]
                BY <1>7, <2>1, <4>1
            <4>3. QED
                BY <3>2, <4>2 DEF GapUpto
        <3>3. QED
            BY <3>1, <3>2
    <2>3. QED
        BY <2>2 DEF g
<1>9. gaps = Step(gaps)
    <2> HIDE DEF Step, g
    <2>1. QED
        BY <1>2, <1>8, Zenon
<1>10. \A i \in 0..n : gaps[i] = IF i = 0 THEN << >>
                                 ELSE WithGap(gaps[i - 1], AfterRanges(R, i - 1), R[i][1] - 1)
    BY <1>9
<1>11. gaps[0] = << >>
    BY <1>3, <1>10
<1>12. ASSUME NEW i \in 1..n PROVE gaps[i] = GapUpto(R, gaps[i - 1], i)
    <2>1. i \in 0..n /\ i # 0
        BY <1>3
    <2>2. QED
        BY <1>10, <2>1 DEF GapUpto
<1>13. Walking(gaps, R, n)
    BY <1>11, <1>12 DEF Walking
<1>14. QED
    BY <1>1, <1>13 DEF R

\* The complement keeps the form and stands for the other units, the last unit included.
THEOREM ComplementComplements ==
    ASSUME NEW p, IsPredicate(p)
    PROVE  IsPredicate(Complement(p)) /\ UnitsOf(Complement(p)) = Unit \ UnitsOf(p)
<1> DEFINE R == p.ranges
           n == Len(R)
           after(i) == AfterRanges(R, i)
<1>1. /\ p.ascii \in SUBSET AsciiUnit /\ NormalList(R) /\ R \in Seq(WideRange)
      /\ UnitsOf(p) = p.ascii \cup CoveredBy(ToSet(R))
    BY PartsOf
<1>2. n \in Nat /\ AsciiLimit \in Nat \ {0} /\ MaxUnit \in Nat
    BY <1>1, ListTypes, UnitAssumption
<1>3. PICK g : /\ Walking(g, R, n)
               /\ Complement(p) = SymbolPredicate(AsciiUnit \ p.ascii, WithGap(g[n], after(n), MaxUnit))
    BY <1>2, ComplementFollows
<1>4. ASSUME NEW i \in 1..n
      PROVE  /\ R[i] \in WideRange
             /\ R[i][1] \in Nat /\ R[i][2] \in Nat /\ R[i][1] <= R[i][2]
             /\ AsciiLimit <= R[i][1] /\ R[i][2] <= MaxUnit
             /\ R[i][1] - 1 \in Nat
    <2>1. R[i] \in WideRange
        BY <1>1, ListTypes
    <2>2. /\ R[i][1] \in Nat /\ R[i][2] \in Nat /\ R[i][1] <= R[i][2]
          /\ AsciiLimit <= R[i][1] /\ R[i][2] <= MaxUnit
        BY <2>1, RangeTypes
    <2>3. R[i][1] - 1 \in Nat
        BY <1>2, <2>2
    <2>4. QED
        BY <2>1, <2>2, <2>3
<1>5. ASSUME NEW i \in 0..n
      PROVE  /\ after(i) \in Nat /\ AsciiLimit <= after(i)
             /\ i = 0 => after(i) = AsciiLimit
             /\ i > 0 => after(i) = R[i][2] + 1
    <2>1. CASE i = 0
        BY <1>2, <2>1 DEF AfterRanges
    <2>2. CASE i # 0
        <3>1. i \in 1..n
            BY <1>2, <2>2
        <3>2. after(i) = R[i][2] + 1
            BY <2>2 DEF AfterRanges
        <3>3. R[i][1] \in Nat /\ R[i][2] \in Nat /\ R[i][1] <= R[i][2] /\ AsciiLimit <= R[i][1]
            BY <1>4, <3>1
        <3> HIDE DEF after, R
        <3>4. after(i) \in Nat /\ AsciiLimit <= after(i)
            BY <1>2, <3>2, <3>3
        <3>5. QED
            BY <2>2, <3>2, <3>4
    <2>3. QED
        BY <2>1, <2>2
<1>6. ASSUME NEW i \in 1..n
      PROVE  /\ i - 1 \in 0..n /\ i \in 0..n
             /\ after(i - 1) <= R[i][1]
             /\ \A j \in 1..(i - 1) : R[j][2] < after(i - 1)
    <2>1. i - 1 \in 0..n /\ i \in 0..n
        BY <1>2
    <2>2. CASE i = 1
        <3>1. i - 1 = 0 /\ 1..(i - 1) = {}
            BY <2>2
        <3>2. QED
            BY <1>4, <1>5, <2>1, <3>1
    <2>3. CASE i # 1
        <3>1. i - 1 \in 1..n /\ i - 1 < i /\ i - 1 > 0
            BY <1>2, <2>3
        <3>2. after(i - 1) = R[i - 1][2] + 1 /\ R[i - 1][2] + 1 < R[i][1]
            BY <1>1, <1>5, <2>1, <3>1, Gaps
        <3> HIDE DEF after
        <3>3. after(i - 1) <= R[i][1]
            BY <1>4, <3>1, <3>2
        <3>4. ASSUME NEW j \in 1..(i - 1) PROVE R[j][2] < after(i - 1)
            <4>1. j \in 1..n /\ (j = i - 1 \/ j < i - 1)
                BY <1>2
            <4>2. R[j][2] \in Nat /\ R[i - 1][2] \in Nat /\ R[i - 1][1] \in Nat
                  /\ R[i - 1][1] <= R[i - 1][2]
                BY <1>4, <3>1, <4>1
            <4>3. CASE j = i - 1
                BY <3>2, <4>2, <4>3
            <4>4. CASE j < i - 1
                <5>1. R[j][2] + 1 < R[i - 1][1]
                    BY <1>1, <3>1, <4>1, <4>4, Gaps
                <5>2. QED
                    BY <3>2, <4>2, <5>1
            <4>5. QED
                BY <4>1, <4>3, <4>4
        <3>5. QED
            BY <2>1, <3>3, <3>4
    <2>4. QED
        BY <2>2, <2>3
<1> HIDE DEF R, after
<1> DEFINE Free(u, i) == u < after(i) /\ ~ \E j \in 1..i : Within(R[j], u)
           Right(i) ==
             /\ NormalList(g[i])
             /\ g[i] # << >> => g[i][Len(g[i])][2] + 1 < after(i)
             /\ \A u \in WideUnit : u \in CoveredBy(ToSet(g[i])) <=> Free(u, i)
           Good == { i \in 0..n : Right(i) }
<1> HIDE DEF n
<1>7. 0 \in Good
    <2>1. g[0] = << >>
        BY <1>3 DEF Walking
    <2>2. << >> \in Seq(WideRange) /\ Len(<< >>) = 0
        BY EmptySeq
    <2>3. NormalList(g[0])
        BY <2>1, <2>2 DEF NormalList
    <2>4. ASSUME NEW u \in WideUnit
          PROVE  u \in CoveredBy(ToSet(g[0])) <=> Free(u, 0)
        <3>1. ~ Free(u, 0)
            <4>1. 0 \in 0..n
                BY <1>2
            <4>2. after(0) = AsciiLimit
                BY <1>5, <4>1
            <4>3. QED
                BY <1>2, <4>2 DEF WideUnit
        <3>2. ~ \E j \in 1..Len(g[0]) : Within(g[0][j], u)
            BY <2>1, <2>2
        <3>3. u \notin CoveredBy(ToSet(g[0]))
            BY <2>1, <2>2, <3>2, CoveredByList
        <3>4. QED
            BY <3>1, <3>3
    <2>5. QED
        BY <1>2, <2>1, <2>3, <2>4
<1>8. ASSUME NEW i \in 1..n, i - 1 \in Good PROVE i \in Good
    <2> DEFINE low == after(i - 1)
               top == R[i][1] - 1
    <2>1. Right(i - 1) /\ i - 1 \in 0..n /\ i \in 0..n
        BY <1>8, <1>6
    <2>2. g[i] = WithGap(g[i - 1], low, top)
        BY <1>3 DEF Walking, GapUpto, after
    <2>3. low \in Nat /\ AsciiLimit <= low /\ top \in Nat /\ top <= MaxUnit /\ low <= R[i][1]
        <3>1. top <= MaxUnit
            BY <1>2, <1>4
        <3>2. QED
            BY <1>4, <1>5, <1>6, <2>1, <3>1
    <2>4. after(i) = R[i][2] + 1 /\ R[i][1] \in Nat /\ R[i][2] \in Nat /\ R[i][1] <= R[i][2]
        <3>1. i > 0
            BY <1>2
        <3>2. QED
            BY <1>4, <1>5, <2>1, <3>1
    <2>5. top = R[i][1] - 1
        OBVIOUS
    <2> HIDE DEF low, top
    <2>6. GapAdded(g[i], g[i - 1], low, top)
        BY <2>1, <2>2, <2>3, GapStep DEF low
    <2>7. ASSUME g[i] # << >> PROVE g[i][Len(g[i])][2] + 1 < after(i)
        <3> DEFINE e == g[i][Len(g[i])][2]
        <3>1. e + 1 < low \/ e <= top
            BY <2>6, <2>7 DEF GapAdded
        <3>2. e \in Nat
            <4>1. g[i] \in Seq(WideRange)
                BY <2>6 DEF GapAdded, NormalList
            <4>2. Len(g[i]) \in 1..Len(g[i])
                BY <4>1, <2>7, EmptySeq
            <4>3. QED
                BY <4>1, <4>2, ListTypes, RangeTypes
        <3> HIDE DEF e
        <3>3. e + 1 < after(i)
            BY <2>3, <2>4, <2>5, <3>1, <3>2
        <3>4. QED
            BY <3>3 DEF e
    <2>8. ASSUME NEW u \in WideUnit
          PROVE  u \in CoveredBy(ToSet(g[i])) <=> Free(u, i)
        <3>1. u \in CoveredBy(ToSet(g[i]))
                 <=> u \in CoveredBy(ToSet(g[i - 1])) \/ (low <= u /\ u <= top)
            BY <2>6 DEF GapAdded
        <3>2. u \in CoveredBy(ToSet(g[i - 1])) <=> Free(u, i - 1)
            BY <2>1
        <3>3. u \in Int
            BY <1>2 DEF WideUnit
        <3>4. Free(u, i - 1) <=> u < low /\ ~ \E j \in 1..(i - 1) : Within(R[j], u)
            BY DEF low
        <3>5. low <= u => ~ \E j \in 1..(i - 1) : Within(R[j], u)
            <4> SUFFICES ASSUME low <= u, NEW j \in 1..(i - 1), Within(R[j], u) PROVE FALSE
                OBVIOUS
            <4>1. R[j][2] < low
                BY <1>6 DEF low
            <4>2. j \in 1..n
                BY <1>2
            <4>3. R[j][2] \in Nat
                BY <1>4, <4>2
            <4>4. QED
                BY <2>3, <3>3, <4>1, <4>3 DEF Within
        <3>6. i \in 1..i /\ 1..(i - 1) \subseteq 1..i /\ \A j \in 1..i : j = i \/ j \in 1..(i - 1)
            BY <1>2
        <3>7. (\E j \in 1..i : Within(R[j], u))
                 <=> (\E j \in 1..(i - 1) : Within(R[j], u)) \/ Within(R[i], u)
            BY <3>6, Zenon
        <3>8. Free(u, i) <=> /\ u < R[i][2] + 1
                             /\ ~ (R[i][1] <= u /\ u <= R[i][2])
                             /\ ~ \E j \in 1..(i - 1) : Within(R[j], u)
            BY <2>4, <3>7 DEF Within
        <3>9. (u < R[i][2] + 1 /\ ~ (R[i][1] <= u /\ u <= R[i][2])) <=> u < R[i][1]
            BY <2>4, <3>3
        <3>10. u < R[i][1] <=> u < low \/ (low <= u /\ u <= top)
            BY <2>3, <2>4, <2>5, <3>3
        <3> HIDE DEF Free
        <3>11. QED
            BY <3>1, <3>2, <3>4, <3>5, <3>8, <3>9, <3>10
    <2>9. NormalList(g[i])
        BY <2>6 DEF GapAdded
    <2>10. Right(i)
        BY <2>7, <2>8, <2>9
    <2>11. QED
        BY <2>1, <2>10
<1>9. Right(n) /\ n \in 0..n
    <2> HIDE DEF Good
    <2>1. 0..n \subseteq Good
        BY <1>2, <1>7, <1>8, Induction
    <2>2. n \in Good /\ n \in 0..n
        BY <1>2, <2>1
    <2>3. QED
        BY <2>2 DEF Good
<1> DEFINE gaps == WithGap(g[n], after(n), MaxUnit)
<1>10. GapAdded(gaps, g[n], after(n), MaxUnit)
    <2>1. /\ NormalList(g[n]) /\ after(n) \in Nat /\ AsciiLimit <= after(n)
          /\ MaxUnit \in Nat /\ MaxUnit <= MaxUnit
          /\ g[n] # << >> => g[n][Len(g[n])][2] + 1 < after(n)
        BY <1>2, <1>5, <1>9
    <2>2. QED
        BY <2>1, GapStep
<1> HIDE DEF gaps
<1>11. ASSUME NEW u \in WideUnit
       PROVE  u \in CoveredBy(ToSet(gaps)) <=> u \notin CoveredBy(ToSet(R))
    <2>1. u \in CoveredBy(ToSet(gaps)) <=> Free(u, n) \/ (after(n) <= u /\ u <= MaxUnit)
        BY <1>9, <1>10 DEF GapAdded
    <2>2. u \in CoveredBy(ToSet(R)) <=> \E j \in 1..n : Within(R[j], u)
        BY <1>1, CoveredByList DEF n
    <2>3. u \in Int /\ u <= MaxUnit
        BY <1>2 DEF WideUnit
    <2>4. after(n) \in Nat
        BY <1>5, <1>9
    <2>5. after(n) <= u => ~ \E j \in 1..n : Within(R[j], u)
        <3> SUFFICES ASSUME after(n) <= u, NEW j \in 1..n, Within(R[j], u) PROVE FALSE
            OBVIOUS
        <3>1. n \in 1..n /\ n > 0 /\ (j = n \/ j < n)
            BY <1>2
        <3>2. after(n) = R[n][2] + 1
            BY <1>5, <1>9, <3>1
        <3>3. R[j][2] \in Nat /\ R[n][1] \in Nat /\ R[n][2] \in Nat /\ R[n][1] <= R[n][2]
            BY <1>4, <3>1
        <3>4. j < n => R[j][2] + 1 < R[n][1]
            BY <1>1, <3>1, Gaps DEF n
        <3>5. QED
            BY <2>3, <3>1, <3>2, <3>3, <3>4 DEF Within
    <2>6. u < after(n) \/ after(n) <= u
        BY <2>3, <2>4
    <2>7. QED
        BY <2>1, <2>2, <2>3, <2>5, <2>6
<1>12. NormalList(gaps)
    BY <1>10 DEF GapAdded
<1>13. AsciiUnit \ p.ascii \in SUBSET AsciiUnit
    OBVIOUS
<1>14. Complement(p) = SymbolPredicate(AsciiUnit \ p.ascii, gaps)
    BY <1>3 DEF gaps
<1>15. /\ IsPredicate(Complement(p))
       /\ UnitsOf(Complement(p)) = (AsciiUnit \ p.ascii) \cup CoveredBy(ToSet(gaps))
    BY <1>12, <1>13, <1>14, MadeOf
<1>16. Unit = AsciiUnit \cup WideUnit /\ AsciiUnit \cap WideUnit = {}
    BY <1>2, UnitAssumption DEF Unit, AsciiUnit, WideUnit
<1>17. CoveredBy(ToSet(gaps)) \subseteq WideUnit /\ CoveredBy(ToSet(R)) \subseteq WideUnit
    BY DEF CoveredBy
<1>18. (AsciiUnit \ p.ascii) \cup CoveredBy(ToSet(gaps))
          = Unit \ (p.ascii \cup CoveredBy(ToSet(R)))
    BY <1>1, <1>11, <1>16, <1>17
<1>19. QED
    BY <1>1, <1>15, <1>18

\* Two normal lists that cover the same and agree up to an index: the next range of one
\* has its like in the other, which begins no later ...
LEMMA NextBegins ==
    ASSUME NEW a, NormalList(a), NEW b, NormalList(b),
           CoveredBy(ToSet(a)) = CoveredBy(ToSet(b)),
           NEW i \in 1..Len(a),
           \A j \in 1..(i - 1) : j \in 1..Len(b) /\ a[j] = b[j]
    PROVE  i \in 1..Len(b) /\ b[i][1] <= a[i][1]
<1>1. /\ a \in Seq(WideRange) /\ b \in Seq(WideRange) /\ Len(a) \in Nat /\ Len(b) \in Nat
      /\ \A k \in 1..Len(a) : a[k] \in WideRange
      /\ \A k \in 1..Len(b) : b[k] \in WideRange
    BY ListTypes DEF NormalList
<1> DEFINE u == a[i][1]
<1>2. u \in WideUnit /\ u \in Nat /\ Within(a[i], u)
    BY <1>1, RangeTypes DEF Within
<1> HIDE DEF u
<1>3. PICK k \in 1..Len(b) : Within(b[k], u)
    BY <1>1, <1>2, CoveredByList
<1>4. b[k][1] <= u /\ u <= b[k][2] /\ b[k][1] \in Nat /\ b[k][2] \in Nat
    BY <1>1, <1>3, RangeTypes DEF Within
<1>5. ~ (k < i)
    <2> SUFFICES ASSUME k < i PROVE FALSE
        OBVIOUS
    <2>1. k \in 1..(i - 1) /\ k \in 1..Len(a)
        BY <1>1
    <2>2. a[k] = b[k] /\ a[k][2] + 1 < a[i][1]
        BY <2>1, Gaps
    <2>3. b[k][2] + 1 < u
        BY <2>2 DEF u
    <2>4. QED
        BY <1>2, <1>4, <2>3
<1>6. i \in 1..Len(b)
    BY <1>1, <1>5
<1>7. b[i][1] <= u
    <2>1. CASE k = i
        BY <1>4, <2>1
    <2>2. CASE k # i
        <3>1. i < k
            BY <1>1, <1>5, <2>2
        <3>2. b[i][2] + 1 < b[k][1]
            BY <1>6, <3>1, Gaps
        <3>3. b[i][1] \in Nat /\ b[i][2] \in Nat /\ b[i][1] <= b[i][2]
            BY <1>1, <1>6, RangeTypes
        <3>4. QED
            BY <1>2, <1>4, <3>2, <3>3
    <2>3. QED
        BY <2>1, <2>2
<1>8. QED
    BY <1>6, <1>7 DEF u

\* ... and if they begin alike, it ends no later.
LEMMA NextEnds ==
    ASSUME NEW a, NormalList(a), NEW b, NormalList(b),
           CoveredBy(ToSet(a)) = CoveredBy(ToSet(b)),
           NEW i \in 1..Len(a), i \in 1..Len(b), a[i][1] = b[i][1]
    PROVE  b[i][2] <= a[i][2]
<1>1. /\ a \in Seq(WideRange) /\ b \in Seq(WideRange) /\ Len(a) \in Nat /\ Len(b) \in Nat
      /\ \A k \in 1..Len(a) : a[k] \in WideRange
      /\ \A k \in 1..Len(b) : b[k] \in WideRange
    BY ListTypes DEF NormalList
<1>2. /\ a[i][1] \in Nat /\ a[i][2] \in Nat /\ a[i][1] <= a[i][2] /\ AsciiLimit <= a[i][1]
      /\ b[i][2] \in Nat /\ b[i][2] <= MaxUnit
    BY <1>1, RangeTypes
<1> SUFFICES ASSUME ~ (b[i][2] <= a[i][2]) PROVE FALSE
    OBVIOUS
<1> DEFINE u == a[i][2] + 1
<1>3. u \in WideUnit /\ Within(b[i], u) /\ u \in Nat
    BY <1>2, UnitAssumption DEF WideUnit, Within
<1>4. u = a[i][2] + 1
    OBVIOUS
<1> HIDE DEF u
<1>5. u \in CoveredBy(ToSet(b))
    BY <1>1, <1>3, CoveredByList
<1>6. PICK k \in 1..Len(a) : Within(a[k], u)
    BY <1>1, <1>5, CoveredByList
<1>7. a[k][1] <= u /\ u <= a[k][2] /\ a[k][1] \in Nat /\ a[k][2] \in Nat
    BY <1>1, <1>6, RangeTypes DEF Within
<1>8. CASE k = i
    BY <1>2, <1>4, <1>7, <1>8
<1>9. CASE k < i
    <2>1. a[k][2] + 1 < a[i][1]
        BY <1>9, Gaps
    <2>2. QED
        BY <1>2, <1>4, <1>7, <2>1
<1>10. CASE i < k
    <2>1. a[i][2] + 1 < a[k][1]
        BY <1>10, Gaps
    <2>2. QED
        BY <1>2, <1>4, <1>7, <2>1
<1>11. k = i \/ k < i \/ i < k
    BY <1>1
<1>12. QED
    BY <1>8, <1>9, <1>10, <1>11

\* So one is the beginning of the other.
LEMMA BeginsLike ==
    ASSUME NEW a, NormalList(a), NEW b, NormalList(b),
           CoveredBy(ToSet(a)) = CoveredBy(ToSet(b))
    PROVE  \A i \in 1..Len(a) : i \in 1..Len(b) /\ a[i] = b[i]
<1> DEFINE n == Len(a)
           Good == { i \in 0..n : \A j \in 1..i : j \in 1..Len(b) /\ a[j] = b[j] }
<1>1. /\ a \in Seq(WideRange) /\ b \in Seq(WideRange) /\ n \in Nat /\ Len(b) \in Nat
      /\ \A k \in 1..n : a[k] \in WideRange
      /\ \A k \in 1..Len(b) : b[k] \in WideRange
    BY ListTypes DEF NormalList
<1>2. 0 \in Good
    BY <1>1
<1>3. ASSUME NEW i \in 1..n, i - 1 \in Good PROVE i \in Good
    <2>1. \A j \in 1..(i - 1) : j \in 1..Len(b) /\ a[j] = b[j]
        BY <1>3
    <2>2. i \in 1..Len(b) /\ b[i][1] <= a[i][1]
        BY <2>1, NextBegins
    <2>3. a[i][1] <= b[i][1]
        <3>1. \A j \in 1..(i - 1) : j \in 1..Len(a) /\ b[j] = a[j]
            BY <1>1, <2>1
        <3>2. QED
            BY <2>2, <3>1, NextBegins
    <2>4. /\ a[i][1] \in Nat /\ a[i][2] \in Nat /\ a[i] = << a[i][1], a[i][2] >>
          /\ b[i][1] \in Nat /\ b[i][2] \in Nat /\ b[i] = << b[i][1], b[i][2] >>
        BY <1>1, <2>2, RangeTypes
    <2>5. a[i][1] = b[i][1]
        BY <2>2, <2>3, <2>4
    <2>6. b[i][2] <= a[i][2] /\ a[i][2] <= b[i][2]
        BY <2>2, <2>5, NextEnds
    <2>7. a[i][2] = b[i][2]
        BY <2>4, <2>6
    <2>8. a[i] = b[i]
        BY <2>4, <2>5, <2>7, Zenon
    <2>9. i \in 0..n /\ \A j \in 1..i : j = i \/ j \in 1..(i - 1)
        BY <1>1
    <2>10. \A j \in 1..i : j \in 1..Len(b) /\ a[j] = b[j]
        BY <2>1, <2>2, <2>8, <2>9, Zenon
    <2>11. QED
        BY <2>9, <2>10
<1> HIDE DEF Good
<1>4. 0..n \subseteq Good
    BY <1>1, <1>2, <1>3, Induction
<1>5. n \in Good
    BY <1>1, <1>4
<1>6. QED
    BY <1>5 DEF Good, n

\* There is one form for each set of units, so that predicates are equal when they admit
\* the same units (the interning of predicates and the derived Eq and Hash rest on it),
\* and `is_empty' may look at the two parts.
THEOREM OneFormPerSet ==
    ASSUME NEW p, IsPredicate(p), NEW q, IsPredicate(q), UnitsOf(p) = UnitsOf(q)
    PROVE  p = q
<1> DEFINE a == p.ranges
           b == q.ranges
<1>1. /\ p.ascii \in SUBSET AsciiUnit /\ NormalList(a) /\ a \in Seq(WideRange)
      /\ p = SymbolPredicate(p.ascii, a)
      /\ UnitsOf(p) = p.ascii \cup CoveredBy(ToSet(a))
    BY PartsOf
<1>2. /\ q.ascii \in SUBSET AsciiUnit /\ NormalList(b) /\ b \in Seq(WideRange)
      /\ q = SymbolPredicate(q.ascii, b)
      /\ UnitsOf(q) = q.ascii \cup CoveredBy(ToSet(b))
    BY PartsOf
<1>3. AsciiUnit \cap WideUnit = {}
    BY UnitAssumption DEF AsciiUnit, WideUnit
<1>4. CoveredBy(ToSet(a)) \subseteq WideUnit /\ CoveredBy(ToSet(b)) \subseteq WideUnit
    BY DEF CoveredBy
<1> HIDE DEF a, b
<1>5. p.ascii = q.ascii
    BY <1>1, <1>2, <1>3, <1>4
<1>6. CoveredBy(ToSet(a)) = CoveredBy(ToSet(b))
    BY <1>1, <1>2, <1>3, <1>4
<1>7. \A i \in 1..Len(a) : i \in 1..Len(b) /\ a[i] = b[i]
    BY <1>1, <1>2, <1>6, BeginsLike
<1>8. \A i \in 1..Len(b) : i \in 1..Len(a) /\ b[i] = a[i]
    BY <1>1, <1>2, <1>6, BeginsLike
<1>9. /\ Len(a) \in Nat /\ a \in [1..Len(a) -> WideRange]
      /\ Len(b) \in Nat /\ b \in [1..Len(b) -> WideRange]
    BY <1>1, <1>2, LenProperties
<1>10. 1..Len(a) = 1..Len(b)
    BY <1>7, <1>8
<1>11. a = b
    <2>1. a = [i \in 1..Len(a) |-> a[i]] /\ b = [i \in 1..Len(b) |-> b[i]]
        BY <1>9
    <2>2. [i \in 1..Len(a) |-> a[i]] = [i \in 1..Len(b) |-> b[i]]
        BY <1>7, <1>10
    <2>3. QED
        BY <2>1, <2>2
<1>12. QED
    BY <1>1, <1>2, <1>5, <1>11

\* The predicates, as a set.
Predicates == { p \in [ascii : SUBSET AsciiUnit, ranges : Seq(WideRange)] : IsNormal(p) }

\* What the first n of a list of ranges add.
Named(ranges, n) == UNION { ranges[i][1]..ranges[i][2] : i \in 1..n }

\* Ranges inserted one after the other add what each of them names (from_ranges, and
\* whitespace() and insert_class_literal, which insert unit by unit).
THEOREM InsertRangesAdds ==
    ASSUME NEW p, IsPredicate(p), NEW ranges \in Seq(Unit \X Unit)
    PROVE  /\ IsPredicate(InsertRanges(p, ranges))
           /\ UnitsOf(InsertRanges(p, ranges)) = UnitsOf(p) \cup Named(ranges, Len(ranges))
<1> DEFINE n == Len(ranges)
           inserted[i \in 0..Len(ranges)] ==
             IF i = 0 THEN p ELSE InsertRange(inserted[i - 1], ranges[i][1], ranges[i][2])
           Step(f) == [i \in 0..n |-> IF i = 0 THEN p
                                      ELSE InsertRange(f[i - 1], ranges[i][1], ranges[i][2])]
           g == [w \in (1..n) \X Predicates |->
                    InsertRange(w[2], ranges[w[1]][1], ranges[w[1]][2])]
<1>1. InsertRanges(p, ranges) = inserted[Len(ranges)]
    BY Zenon DEF InsertRanges
<1>2. inserted = CHOOSE f : f = Step(f)
    BY Zenon
<1> HIDE DEF inserted
<1>3. n \in Nat /\ \A i \in 1..n : ranges[i][1] \in Unit /\ ranges[i][2] \in Unit
    <2>1. n \in Nat /\ \A i \in 1..n : ranges[i] \in Unit \X Unit
        BY LenProperties, ElementOfSeq
    <2>2. QED
        BY <2>1
<1>4. \A q : q \in Predicates <=> IsPredicate(q)
    BY DEF Predicates, IsPredicate
<1>5. ASSUME NEW q \in Predicates, NEW i \in 1..n
      PROVE  /\ InsertRange(q, ranges[i][1], ranges[i][2]) \in Predicates
             /\ UnitsOf(InsertRange(q, ranges[i][1], ranges[i][2]))
                   = UnitsOf(q) \cup (ranges[i][1]..ranges[i][2])
    BY <1>3, <1>4, InsertRangeAdds
<1>6. g \in [(1..n) \X Predicates -> Predicates]
    <2>1. ASSUME NEW w \in (1..n) \X Predicates
          PROVE  InsertRange(w[2], ranges[w[1]][1], ranges[w[1]][2]) \in Predicates
        <3>1. w[1] \in 1..n /\ w[2] \in Predicates
            OBVIOUS
        <3>2. QED
            BY <1>5, <3>1
    <2>2. QED
        BY <2>1
<1>7. p \in Predicates
    BY <1>4
<1> HIDE DEF n
<1>8. PICK f \in Along(Predicates, n, p, g) : TRUE
    <2> HIDE DEF g
    <2>1. QED
        BY <1>3, <1>6, <1>7, Recursion
<1>9. /\ f \in [0..n -> Predicates] /\ f[0] = p
      /\ \A i \in 1..n : f[i] = g[<< i, f[i - 1] >>]
    BY <1>8 DEF Along
<1>10. ASSUME NEW i \in 1..n
       PROVE  /\ i - 1 \in 0..n /\ f[i - 1] \in Predicates
              /\ f[i] = InsertRange(f[i - 1], ranges[i][1], ranges[i][2])
    <2>1. i - 1 \in 0..n
        BY <1>3
    <2>2. f[i - 1] \in Predicates
        BY <1>9, <2>1
    <2>3. << i, f[i - 1] >> \in (1..n) \X Predicates
        BY <2>2
    <2>4. QED
        BY <1>9, <2>1, <2>2, <2>3
<1> HIDE DEF g
<1>11. f = Step(f)
    <2>1. ASSUME NEW i \in 0..n
          PROVE  f[i] = IF i = 0 THEN p ELSE InsertRange(f[i - 1], ranges[i][1], ranges[i][2])
        <3>1. i # 0 => i \in 1..n
            BY <1>3
        <3>2. QED
            BY <1>9, <1>10, <3>1
    <2>2. QED
        BY <1>9, <2>1
<1> HIDE DEF Step
<1>12. inserted = Step(inserted)
    BY <1>2, <1>11, Zenon
<1>13. \A i \in 0..n : inserted[i] = IF i = 0 THEN p
                                     ELSE InsertRange(inserted[i - 1], ranges[i][1], ranges[i][2])
    BY <1>12 DEF Step
<1> DEFINE Right(i) == inserted[i] \in Predicates /\ UnitsOf(inserted[i]) = UnitsOf(p) \cup Named(ranges, i)
           Good == { i \in 0..n : Right(i) }
<1>14. 0 \in Good
    <2>1. 0 \in 0..n
        BY <1>3
    <2>2. inserted[0] = p
        BY <1>13, <2>1
    <2>3. Named(ranges, 0) = {}
        BY DEF Named
    <2>4. QED
        BY <1>7, <2>1, <2>2, <2>3
<1>15. ASSUME NEW i \in 1..n, i - 1 \in Good PROVE i \in Good
    <2>1. i \in 0..n /\ i # 0
        BY <1>3
    <2>2. inserted[i] = InsertRange(inserted[i - 1], ranges[i][1], ranges[i][2])
        BY <1>13, <2>1
    <2>3. Right(i - 1)
        BY <1>15
    <2>4. /\ inserted[i] \in Predicates
          /\ UnitsOf(inserted[i]) = UnitsOf(inserted[i - 1]) \cup (ranges[i][1]..ranges[i][2])
        BY <1>5, <2>2, <2>3
    <2>5. Named(ranges, i) = Named(ranges, i - 1) \cup (ranges[i][1]..ranges[i][2])
        <3>1. i \in 1..i /\ 1..(i - 1) \subseteq 1..i /\ \A j \in 1..i : j = i \/ j \in 1..(i - 1)
            BY <1>3
        <3>2. QED
            BY <3>1, Zenon DEF Named
    <2>6. Right(i)
        BY <2>3, <2>4, <2>5
    <2>7. QED
        BY <2>1, <2>6
<1>16. Right(n)
    <2> HIDE DEF Good
    <2>1. 0..n \subseteq Good
        BY <1>3, <1>14, <1>15, Induction
    <2>2. n \in Good
        BY <1>3, <2>1
    <2>3. QED
        BY <2>2 DEF Good
<1>17. QED
    BY <1>1, <1>4, <1>16 DEF n

\* The two predicates that are given and not put together.
LEMMA GivenPredicates ==
    /\ IsPredicate(NoSymbol) /\ UnitsOf(NoSymbol) = {}
    /\ IsPredicate(AnySymbol) /\ UnitsOf(AnySymbol) = Unit
<1> DEFINE x == << AsciiLimit, MaxUnit >>
           any == << x >>
<1>1. << >> \in Seq(WideRange) /\ Len(<< >>) = 0
    BY EmptySeq
<1>2. NormalList(<< >>)
    BY <1>1 DEF NormalList
<1>3. CoveredBy(ToSet(<< >>)) = {}
    <2>1. ~ \E i \in 1..0 : TRUE
        OBVIOUS
    <2>2. \A u : u \notin CoveredBy(ToSet(<< >>))
        BY <1>1, <2>1, CoveredByList
    <2>3. QED
        BY <2>2
<1>4. IsPredicate(NoSymbol) /\ UnitsOf(NoSymbol) = {}
    BY <1>2, <1>3, MadeOf DEF NoSymbol
<1>5. /\ x \in WideRange /\ x[1] = AsciiLimit /\ x[2] = MaxUnit
    BY UnitAssumption DEF WideRange, WideUnit
<1>6. any \in Seq(WideRange) /\ Len(any) = 1 /\ any[1] = x
    <2> HIDE DEF x
    <2>1. QED
        BY <1>5
<1> HIDE DEF any, x
<1>7. NormalList(any)
    <2>1. 2..1 = {}
        OBVIOUS
    <2>2. QED
        BY <1>6, <2>1 DEF NormalList
<1>8. ASSUME NEW u \in WideUnit PROVE u \in CoveredBy(ToSet(any))
    <2>1. Within(x, u)
        BY <1>5, UnitAssumption DEF Within, WideUnit
    <2>2. 1 \in 1..Len(any) /\ any[1] = x
        BY <1>6
    <2>3. QED
        BY <1>6, <2>1, <2>2, CoveredByList
<1>9. CoveredBy(ToSet(any)) = WideUnit
    BY <1>8 DEF CoveredBy
<1>10. AsciiUnit \cup WideUnit = Unit
    BY UnitAssumption DEF AsciiUnit, WideUnit, Unit
<1>11. AnySymbol = SymbolPredicate(AsciiUnit, any)
    BY DEF AnySymbol, any, x
<1>12. IsPredicate(AnySymbol) /\ UnitsOf(AnySymbol) = Unit
    BY <1>7, <1>9, <1>10, <1>11, MadeOf
<1>13. QED
    BY <1>4, <1>12

\* `is_empty' looks at the two parts only, and says whether any unit matches.
THEOREM EmptyIsEmpty ==
    ASSUME NEW p, IsPredicate(p)
    PROVE  IsEmpty(p) <=> UnitsOf(p) = {}
<1>1. UnitsOf(p) = {} => p = NoSymbol
    BY OneFormPerSet, GivenPredicates
<1>2. QED
    BY <1>1, GivenPredicates DEF IsEmpty

\* A predicate from a list of ranges, and one with a list of units more.
THEOREM ConstructorsAdd ==
    /\ \A ranges \in Seq(Unit \X Unit) :
          /\ IsPredicate(FromRanges(ranges))
          /\ UnitsOf(FromRanges(ranges)) = Named(ranges, Len(ranges))
    /\ \A p, codes : IsPredicate(p) /\ codes \in Seq(Unit) =>
          /\ IsPredicate(InsertAll(p, codes))
          /\ UnitsOf(InsertAll(p, codes)) = UnitsOf(p) \cup ToSet(codes)
<1>1. ASSUME NEW ranges \in Seq(Unit \X Unit)
      PROVE  /\ IsPredicate(FromRanges(ranges))
             /\ UnitsOf(FromRanges(ranges)) = Named(ranges, Len(ranges))
    <2>1. FromRanges(ranges) = InsertRanges(NoSymbol, ranges)
        BY DEF FromRanges
    <2>2. /\ IsPredicate(InsertRanges(NoSymbol, ranges))
          /\ UnitsOf(InsertRanges(NoSymbol, ranges))
                = UnitsOf(NoSymbol) \cup Named(ranges, Len(ranges))
        BY GivenPredicates, InsertRangesAdds
    <2>3. QED
        BY <2>1, <2>2, GivenPredicates
<1>2. ASSUME NEW p, NEW codes, IsPredicate(p), codes \in Seq(Unit)
      PROVE  /\ IsPredicate(InsertAll(p, codes))
             /\ UnitsOf(InsertAll(p, codes)) = UnitsOf(p) \cup ToSet(codes)
    <2> DEFINE ranges == [i \in DOMAIN codes |-> << codes[i], codes[i] >>]
    <2>1. Len(codes) \in Nat /\ DOMAIN codes = 1..Len(codes)
        BY <1>2, LenProperties
    <2>2. \A i \in 1..Len(codes) : codes[i] \in Unit
        BY <1>2, ElementOfSeq
    <2>3. /\ ranges \in [1..Len(codes) -> Unit \X Unit]
          /\ \A i \in 1..Len(codes) : ranges[i] = << codes[i], codes[i] >>
        BY <2>1, <2>2
    <2>4. InsertAll(p, codes) = InsertRanges(p, ranges)
        BY DEF InsertAll
    <2> HIDE DEF ranges
    <2>5. ranges \in Seq(Unit \X Unit) /\ Len(ranges) = Len(codes)
        <3>1. ranges \in Seq(Unit \X Unit)
            BY <2>1, <2>3, IsASeq
        <3>2. DOMAIN ranges = 1..Len(codes) /\ DOMAIN ranges = 1..Len(ranges) /\ Len(ranges) \in Nat
            BY <2>3, <3>1, LenProperties
        <3>3. QED
            BY <2>1, <3>1, <3>2
    <2>6. \A i \in 1..Len(codes) : ranges[i][1]..ranges[i][2] = { codes[i] }
        <3>1. ASSUME NEW i \in 1..Len(codes) PROVE ranges[i][1]..ranges[i][2] = { codes[i] }
            <4>1. ranges[i][1] = codes[i] /\ ranges[i][2] = codes[i] /\ codes[i] \in Nat
                BY <2>2, <2>3, UnitAssumption DEF Unit
            <4>2. QED
                BY <4>1
        <3>2. QED
            BY <3>1
    <2>7. Named(ranges, Len(ranges)) = ToSet(codes)
        BY <2>1, <2>5, <2>6, Zenon DEF Named, ToSet
    <2>8. QED
        BY <1>2, <2>4, <2>5, <2>7, InsertRangesAdds
<1>3. QED
    BY <1>1, <1>2

-----------------------------------------------------------------------------
(* Division. *)

\* What dividing with remainder gives.
LEMMA DivMod ==
    ASSUME NEW n \in Nat, NEW k \in Nat \ {0}
    PROVE  /\ n \div k \in Nat
           /\ n % k \in 0..(k - 1)
           /\ n = k * (n \div k) + (n % k)
OBVIOUS

\* A quotient and a remainder in range are the only ones.
LEMMA DivModUnique ==
    ASSUME NEW n \in Nat, NEW k \in Nat \ {0}, NEW q \in Nat, NEW r \in 0..(k - 1),
           n = k * q + r
    PROVE  n \div k = q /\ n % k = r
OBVIOUS

\* A dividend no smaller than its divisor has a positive quotient.
LEMMA DivPositive ==
    ASSUME NEW n \in Nat, NEW k \in Nat \ {0}, k <= n
    PROVE  n \div k >= 1
OBVIOUS

\* The first i of k shares of n, the larger shares first.
Dealt(n, k, i) == i * (n \div k) + AtMost(i, n % k)

\* Dealing shares one by one ends with everything dealt.
LEMMA DealtSteps ==
    ASSUME NEW n \in Nat, NEW k \in Nat \ {0}, NEW i \in 0..(k - 1)
    PROVE  /\ Dealt(n, k, 0) = 0
           /\ Dealt(n, k, k) = n
           /\ Dealt(n, k, i) \in Nat
           /\ Dealt(n, k, i + 1) = Dealt(n, k, i) + (n \div k) + One(i < n % k)
           /\ Dealt(n, k, i + 1) <= n
<1>1. /\ n \div k \in Nat /\ n % k \in 0..(k - 1)
      /\ n = k * (n \div k) + (n % k)
    BY DivMod
<1> DEFINE q == n \div k
           r == n % k
<1>2. q \in Nat /\ r \in 0..(k - 1) /\ n = k * q + r
    BY <1>1
<1> HIDE DEF q, r
<1>3. /\ 0 * q = 0 /\ (i + 1) * q = i * q + q /\ i * q \in Nat
      /\ (i + 1) * q <= k * q
    BY <1>2
<1>4. /\ 0 * q + AtMost(0, r) = 0
      /\ k * q + AtMost(k, r) = n
      /\ i * q + AtMost(i, r) \in Nat
      /\ (i + 1) * q + AtMost(i + 1, r) = i * q + AtMost(i, r) + q + One(i < r)
      /\ (i + 1) * q + AtMost(i + 1, r) <= n
    BY <1>2, <1>3 DEF AtMost, One
<1>5. QED
    BY <1>4 DEF Dealt, q, r

\* Before the first share nothing is dealt.
LEMMA DealtNothing ==
    ASSUME NEW n \in Nat, NEW k \in Nat \ {0}
    PROVE  Dealt(n, k, 0) = 0
<1>1. 0 \in 0..(k - 1)
    OBVIOUS
<1>2. QED
    BY <1>1, DealtSteps

-----------------------------------------------------------------------------
(* The configuration. *)

\* The two cohorts split the pattern list.
LEMMA Counts ==
    ASSUME builder \in Configurations
    PROVE  /\ builder.patterns \in Seq(BOOLEAN)
           /\ builder.worker_count \in Nat /\ builder.state_cache_budget \in Nat
           /\ free \in Nat /\ bearing \in Nat
           /\ free + bearing = Len(builder.patterns)
           /\ Len(builder.patterns) \in Nat
           /\ builder.patterns # <<>> => Len(builder.patterns) > 0
<1>1. /\ builder.patterns \in Seq(BOOLEAN) /\ Len(builder.patterns) \in Nat
      /\ builder.worker_count \in Nat /\ builder.state_cache_budget \in Nat
      /\ DOMAIN builder.patterns = 1..Len(builder.patterns)
      /\ builder.patterns # <<>> => Len(builder.patterns) > 0
    BY ConfigurationsAssumption, LenProperties, EmptySeq
<1>2. IsFiniteSet(1..Len(builder.patterns))
      /\ Cardinality(1..Len(builder.patterns)) = Len(builder.patterns)
    BY <1>1, FS_Interval
<1>3. { i \in DOMAIN builder.patterns : builder.patterns[i] }
         \in SUBSET (1..Len(builder.patterns))
    BY <1>1
<1>4. bearing \in Nat /\ bearing <= Len(builder.patterns)
    BY <1>2, <1>3, FS_Subset, FS_CardinalityType DEF bearing
<1>5. QED
    BY <1>1, <1>4 DEF free

-----------------------------------------------------------------------------
(* The inductive invariant. *)

\* How many partitions there will be, and how many precede the call under way.
Total == IF mixed THEN Allocated ELSE AllCall.count
Offset == IF call.cohort = "bearing" THEN allocations.free ELSE 0

Share(k) ==
    builder.state_cache_budget \div Total
    + One(k - 1 < builder.state_cache_budget % Total)

Newest == partitions[Len(partitions)]

AllocationInv ==
    mixed =>
        /\ allocations.free <= free /\ allocations.bearing <= bearing
        /\ Allocated <= Target

PhaseInv ==
    /\ phase \in {"check", "allocate", "failed"} =>
         calls = <<>> /\ index = 0 /\ start = 0 /\ partitions = <<>>
    /\ phase \in {"allocate", "compile", "built"} =>
         builder.patterns # <<>> /\ builder.worker_count > 0
    /\ phase = "allocate" => mixed
    /\ phase \in {"compile", "built"} /\ mixed => Allocated = Target

CallsInv ==
    phase = "compile" =>
        \/ ~ mixed /\ calls = << AllCall >>
        \/ mixed /\ calls \in { << FreeCall, BearingCall >>, << BearingCall >> }

LoopInv ==
    phase = "compile" =>
        /\ index <= call.count
        /\ start = Dealt(call.size, call.count, index)
        /\ Len(partitions) = Offset + index
        /\ index > 0 => Newest.cohort = call.cohort /\ Newest.end = start
        /\ index = 0 /\ partitions # <<>> =>
             Newest.cohort # call.cohort /\ Newest.end = Size(Newest.cohort)

BuiltInv == phase = "built" => Len(partitions) = Total

SharesInv == \A k \in 1..Len(partitions) : partitions[k].budget = Share(k)

Inv ==
    /\ TypeOK /\ AllocationInv /\ PhaseInv /\ CallsInv /\ LoopInv /\ BuiltInv
    /\ SharesInv /\ SlicesTileTheLists

-----------------------------------------------------------------------------
(* Facts about the call under way. *)

\* Every call has room for what it deals out.
LEMMA CallFacts ==
    ASSUME Inv, phase = "compile"
    PROVE  /\ call \in CallShape /\ call = Head(calls)
           /\ call.size = Size(call.cohort)
           /\ call.count <= call.size
           /\ Total \in Nat \ {0}
           /\ Offset + call.count <= Total
           /\ calls = << AllCall >> \/ calls = << BearingCall >> => Offset + call.count = Total
           /\ \A i \in 0..(call.count - 1) :
                (call.budget \div call.count) + One(i < call.budget % call.count)
                    = Share(Offset + i + 1)
<1>1. /\ free \in Nat /\ bearing \in Nat /\ free + bearing = Len(builder.patterns)
      /\ Len(builder.patterns) \in Nat \ {0} /\ builder.worker_count \in Nat \ {0}
      /\ builder.state_cache_budget \in Nat
      /\ allocations.free \in Nat \ {0} /\ allocations.bearing \in Nat \ {0}
    BY Counts DEF Inv, TypeOK, PhaseInv
<1> DEFINE N == Allocated
           b == builder.state_cache_budget
<1>2. CASE ~ mixed /\ calls = << AllCall >>
    <2>1. call = AllCall /\ Offset = 0 /\ Total = call.count
        BY <1>2 DEF call, Offset, Total, AllCall, Call
    <2>2. /\ AllCall.cohort = "all" /\ AllCall.size = Len(builder.patterns)
          /\ AllCall.count = AtMost(builder.worker_count, Len(builder.patterns))
          /\ AllCall.budget = b
          /\ AllCall \in CallShape
        BY <1>1 DEF AllCall, Call, CallShape, Cohort, AtMost
    <2>3. \A i \in 0..(call.count - 1) :
                (call.budget \div call.count) + One(i < call.budget % call.count)
                    = Share(Offset + i + 1)
        BY <1>1, <2>1, <2>2 DEF Share, AtMost
    <2>4. QED
        BY <1>1, <1>2, <2>1, <2>2, <2>3 DEF Size, AtMost, call
<1>3. CASE mixed
    <2>1. /\ N \in Nat \ {0} /\ N = allocations.free + allocations.bearing
          /\ allocations.free <= free /\ allocations.bearing <= bearing
          /\ Total = N
        BY <1>1, <1>3 DEF Inv, AllocationInv, Total, Allocated
    <2> DEFINE q == b \div N
               r == b % N
    <2>2. q \in Nat /\ r \in 0..(N - 1) /\ b = N * q + r
        BY <1>1, <2>1, DivMod
    <2>3. \A k : Share(k) = q + One(k - 1 < r)
        BY <2>1 DEF Share
    <2> HIDE DEF N, b, q, r
    <2>4. CASE calls = << FreeCall, BearingCall >>
        <3> DEFINE F == allocations.free
        <3>1. /\ call = FreeCall
              /\ FreeCall.cohort = "free" /\ FreeCall.size = free
              /\ FreeCall.count = F
              /\ FreeCall.budget = q * F + AtMost(Minus(r, 0), F)
              /\ Offset = 0
            BY <1>1, <2>1, <2>4
               DEF call, FreeCall, Call, Offset, CohortCacheBudget, AtMost, b, N, q, r
        <3>2. F \in Nat \ {0}
            BY <1>1
        <3>3. Minus(r, 0) = r
            BY <2>2 DEF Minus
        <3>4. /\ FreeCall.budget \in Nat
              /\ r < F => FreeCall.budget \div F = q /\ FreeCall.budget % F = r
              /\ r >= F => FreeCall.budget \div F = q + 1 /\ FreeCall.budget % F = 0
            <4> HIDE DEF F
            <4>1. q * F \in Nat /\ F * q = q * F /\ F * (q + 1) = q * F + F
                BY <2>2, <3>2
            <4>2. ASSUME r < F
                  PROVE  /\ FreeCall.budget \in Nat
                         /\ FreeCall.budget \div F = q /\ FreeCall.budget % F = r
                <5>1. FreeCall.budget = F * q + r /\ r \in 0..(F - 1)
                    BY <2>2, <3>1, <3>2, <3>3, <4>1, <4>2 DEF AtMost
                <5>2. FreeCall.budget \in Nat
                    BY <2>2, <3>2, <4>1, <5>1
                <5>3. FreeCall.budget \div F = q /\ FreeCall.budget % F = r
                    BY <2>2, <3>2, <5>1, <5>2, DivModUnique
                <5>4. QED
                    BY <5>2, <5>3
            <4>3. ASSUME ~ (r < F)
                  PROVE  /\ FreeCall.budget \in Nat
                         /\ FreeCall.budget \div F = q + 1 /\ FreeCall.budget % F = 0
                <5>1. FreeCall.budget = F * (q + 1) + 0 /\ 0 \in 0..(F - 1)
                    BY <2>2, <3>1, <3>2, <3>3, <4>1, <4>3 DEF AtMost
                <5>2. FreeCall.budget \in Nat /\ q + 1 \in Nat
                    BY <2>2, <3>2, <4>1, <5>1
                <5>3. FreeCall.budget \div F = q + 1 /\ FreeCall.budget % F = 0
                    BY <3>2, <5>1, <5>2, DivModUnique
                <5>4. QED
                    BY <5>2, <5>3
            <4>4. (r >= F) <=> ~ (r < F)
                BY <2>2, <3>2
            <4>5. QED
                BY <4>2, <4>3, <4>4, Zenon
        <3>5. \A i \in 0..(F - 1) :
                (FreeCall.budget \div F) + One(i < FreeCall.budget % F) = Share(i + 1)
            BY <2>2, <2>3, <3>2, <3>4 DEF One
        <3>6. call \in CallShape
            BY <1>1, <2>1, <2>4, <3>1, <3>4 DEF CallShape, Cohort, FreeCall, Call, AtMost
        <3>7. calls # << AllCall >> /\ calls # << BearingCall >>
            BY <2>4
        <3>8. QED
            BY <1>1, <2>1, <3>1, <3>2, <3>5, <3>6, <3>7, SMTT(20) DEF Size, call
    <2>5. CASE calls = << BearingCall >>
        <3> DEFINE F == allocations.free
                   B == allocations.bearing
        <3>1. /\ call = BearingCall
              /\ BearingCall.cohort = "bearing" /\ BearingCall.size = bearing
              /\ BearingCall.count = B
              /\ BearingCall.budget = q * B + AtMost(Minus(r, F), B)
              /\ Offset = F
            BY <1>1, <2>1, <2>5
               DEF call, BearingCall, Call, Offset, CohortCacheBudget, AtMost, b, N, q, r
        <3>2. F \in Nat \ {0} /\ B \in Nat \ {0} /\ N = F + B
            BY <1>1, <2>1
        <3>3. Minus(r, F) \in 0..(B - 1)
            BY <2>2, <3>2 DEF Minus
        <3>4. /\ BearingCall.budget \in Nat
              /\ BearingCall.budget \div B = q /\ BearingCall.budget % B = Minus(r, F)
            <4> HIDE DEF F, B
            <4>1. BearingCall.budget = B * q + Minus(r, F)
                BY <2>2, <3>1, <3>2, <3>3 DEF AtMost
            <4>2. BearingCall.budget \in Nat
                BY <2>2, <3>2, <3>3, <4>1
            <4>3. QED
                BY <2>2, <3>2, <3>3, <4>1, <4>2, DivModUnique
        <3>5. \A i \in 0..(B - 1) :
                (BearingCall.budget \div B) + One(i < BearingCall.budget % B)
                    = Share(F + i + 1)
            BY <2>2, <2>3, <3>2, <3>4 DEF One, Minus
        <3>6. call \in CallShape
            BY <1>1, <2>1, <2>5, <3>1, <3>4 DEF CallShape, Cohort, BearingCall, Call, AtMost
        <3>7. QED
            BY <1>1, <2>1, <3>1, <3>2, <3>5, <3>6, SMTT(20) DEF Size, call
    <2>6. QED
        BY <1>3, <2>4, <2>5 DEF Inv, CallsInv
<1>4. QED
    BY <1>2, <1>3 DEF Inv, CallsInv

\* Both cohorts' calls are well formed once the allocation is.
LEMMA CohortCalls ==
    ASSUME TypeOK, AllocationInv, mixed
    PROVE  /\ FreeCall \in CallShape /\ BearingCall \in CallShape
           /\ FreeCall.cohort = "free" /\ FreeCall.size = free
           /\ FreeCall.count = allocations.free
           /\ BearingCall.cohort = "bearing" /\ BearingCall.size = bearing
           /\ BearingCall.count = allocations.bearing
<1>1. /\ free \in Nat /\ bearing \in Nat /\ builder.state_cache_budget \in Nat
      /\ allocations.free \in Nat \ {0} /\ allocations.bearing \in Nat \ {0}
      /\ allocations.free <= free /\ allocations.bearing <= bearing
    BY Counts DEF TypeOK, AllocationInv
<1>2. Allocated \in Nat \ {0}
    BY <1>1 DEF Allocated
<1>3. /\ builder.state_cache_budget \div Allocated \in Nat
      /\ builder.state_cache_budget % Allocated \in Nat
    BY <1>1, <1>2, DivMod
<1>4. ASSUME NEW s \in Nat, NEW n \in Nat
      PROVE  CohortCacheBudget(s, n) \in Nat
    <2> DEFINE q == builder.state_cache_budget \div Allocated
               r == builder.state_cache_budget % Allocated
    <2>1. q \in Nat /\ r \in Nat
        BY <1>3
    <2>2. CohortCacheBudget(s, n) = q * n + AtMost(Minus(r, s), n)
        BY DEF CohortCacheBudget
    <2> HIDE DEF q, r
    <2>3. q * n \in Nat /\ AtMost(Minus(r, s), n) \in Nat
        BY <2>1 DEF AtMost, Minus
    <2>4. QED
        BY <2>2, <2>3
<1>5. /\ CohortCacheBudget(0, allocations.free) \in Nat
      /\ CohortCacheBudget(allocations.free, allocations.bearing) \in Nat
    BY <1>1, <1>4
<1>6. QED
    BY <1>1, <1>5 DEF FreeCall, BearingCall, Call, CallShape, Cohort, AtMost

\* Below the target the cohort the loop selects has a pattern to spare.
LEMMA SelectedHasRoom ==
    ASSUME TypeOK, AllocationInv, mixed, Allocated < Target
    PROVE  Selected \in {"free", "bearing"} /\ HasRoom(Selected)
<1>1. /\ free \in Nat /\ bearing \in Nat /\ free + bearing = Len(builder.patterns)
      /\ builder.worker_count \in Nat
      /\ allocations.free \in Nat /\ allocations.bearing \in Nat
    BY Counts DEF TypeOK
<1>2. allocations.free + allocations.bearing < free + bearing
    BY <1>1 DEF Target, Allocated, AtMost, AtLeast
<1>3. /\ HasRoom("free") <=> allocations.free < free
      /\ HasRoom("bearing") <=> allocations.bearing < bearing
    BY DEF HasRoom, PatternCounts
<1>4. HasRoom("free") \/ HasRoom("bearing")
    BY <1>1, <1>2, <1>3
<1>5. QED
    BY <1>4 DEF Selected

-----------------------------------------------------------------------------
(* What a step that leaves the builder, or the allocation too, cannot disturb. *)

\* What depends on the builder alone does not change with the other variables.
LEMMA SameBuilder ==
    ASSUME builder' = builder
    PROVE  /\ free' = free /\ bearing' = bearing /\ mixed' = mixed
           /\ Target' = Target /\ AllCall' = AllCall
           /\ \A c : Size(c)' = Size(c)
<1>1. free' = free /\ bearing' = bearing
    BY DEF free, bearing
<1>2. QED
    BY <1>1 DEF mixed, Target, AllCall, Size

\* What depends on the builder and the allocations alone does not change either.
LEMMA SameAllocations ==
    ASSUME builder' = builder, allocations' = allocations
    PROVE  /\ Allocated' = Allocated /\ Total' = Total
           /\ FreeCall' = FreeCall /\ BearingCall' = BearingCall
           /\ \A k : Share(k)' = Share(k)
           /\ AllocationInv' = AllocationInv
<1>1. /\ free' = free /\ bearing' = bearing /\ mixed' = mixed
      /\ Target' = Target /\ AllCall' = AllCall /\ Allocated' = Allocated
    BY SameBuilder DEF Allocated
<1>2. Total' = Total
    BY <1>1 DEF Total
<1>3. QED
    BY <1>1, <1>2 DEF FreeCall, BearingCall, CohortCacheBudget, Share, AllocationInv

\* A step that also keeps the partitions keeps their shares.
LEMMA SamePartitions ==
    ASSUME SharesInv, builder' = builder, allocations' = allocations,
           partitions' = partitions
    PROVE  SharesInv'
BY SameAllocations DEF SharesInv

-----------------------------------------------------------------------------
(* Init and every action. *)

\* build() starts from the invariant.
LEMMA InitInv == Init => Inv
<1> SUFFICES ASSUME Init PROVE Inv
    OBVIOUS
<1>1. TypeOK
    BY DEF Init, TypeOK
<1>2. /\ free \in Nat /\ bearing \in Nat /\ free + bearing = Len(builder.patterns)
      /\ builder.worker_count \in Nat
    BY <1>1, Counts DEF TypeOK
<1>3. AllocationInv
    BY <1>2 DEF Init, AllocationInv, mixed, Allocated, Target, AtMost, AtLeast
<1>4. PhaseInv /\ CallsInv /\ LoopInv /\ BuiltInv /\ SharesInv
    BY DEF Init, PhaseInv, CallsInv, LoopInv, BuiltInv, SharesInv
<1>5. SlicesTileTheLists
    BY DEF Init, SlicesTileTheLists
<1>6. QED
    BY <1>1, <1>3, <1>4, <1>5 DEF Inv

\* A build() that fails.
LEMMA FailInv ==
    ASSUME Inv, phase = "check", NEW reason \in {"NoPatterns", "InvalidWorkerCount"},
           Fail(reason)
    PROVE  Inv'
<1>1. /\ builder' = builder /\ allocations' = allocations /\ partitions' = partitions
      /\ partitions = <<>> /\ phase' = "failed"
    BY DEF Fail, Inv, PhaseInv
<1>2. TypeOK' /\ PhaseInv' /\ CallsInv' /\ LoopInv' /\ BuiltInv'
    BY <1>1 DEF Inv, TypeOK, PhaseInv, CallsInv, LoopInv, BuiltInv, Fail
<1>3. AllocationInv' /\ SharesInv'
    BY <1>1, SameAllocations, SamePartitions DEF Inv
<1>4. SlicesTileTheLists'
    BY <1>1 DEF SlicesTileTheLists
<1>5. QED
    BY <1>2, <1>3, <1>4 DEF Inv

\* A single call over the whole list.
LEMMA OneCallInv ==
    ASSUME Inv, OneCall
    PROVE  Inv'
<1>1. /\ builder' = builder /\ allocations' = allocations /\ partitions' = partitions
      /\ index' = 0 /\ start' = 0 /\ partitions = <<>> /\ phase' = "compile"
      /\ calls' = << AllCall >> /\ ~ mixed /\ error' = error
      /\ builder.patterns # <<>> /\ builder.worker_count > 0
    BY DEF OneCall, Buildable, Inv, PhaseInv
<1>2. /\ Len(builder.patterns) \in Nat \ {0} /\ builder.worker_count \in Nat \ {0}
      /\ builder.state_cache_budget \in Nat
    BY <1>1, Counts DEF Inv, TypeOK
<1>3. AllCall \in CallShape /\ AllCall.cohort = "all"
    BY <1>2 DEF AllCall, Call, CallShape, Cohort, AtMost
<1>4. ~ mixed' /\ AllCall' = AllCall /\ Total' = Total
    BY <1>1, SameBuilder, SameAllocations
<1>5. TypeOK'
    BY <1>1, <1>3 DEF Inv, TypeOK
<1>6. PhaseInv' /\ CallsInv' /\ BuiltInv'
    BY <1>1, <1>4 DEF PhaseInv, CallsInv, BuiltInv
<1>7. LoopInv'
    <2>1. call' = AllCall
        BY <1>1 DEF call
    <2>2. AllCall.size \in Nat /\ AllCall.count \in Nat \ {0}
        BY <1>3 DEF CallShape
    <2>3. Dealt(AllCall.size, AllCall.count, 0) = 0
        BY <2>2, DealtNothing
    <2>4. Offset' = 0
        BY <1>3, <2>1 DEF Offset
    <2>5. QED
        BY <1>1, <2>1, <2>2, <2>3, <2>4 DEF LoopInv
<1>8. AllocationInv' /\ SharesInv'
    BY <1>1, SameAllocations, SamePartitions DEF Inv
<1>9. SlicesTileTheLists'
    BY <1>1 DEF SlicesTileTheLists
<1>10. QED
    BY <1>5, <1>6, <1>7, <1>8, <1>9 DEF Inv

\* Going on to size two cohorts keeps the invariant.
LEMMA MixedInv ==
    ASSUME Inv, Mixed
    PROVE  Inv'
<1>1. /\ builder' = builder /\ allocations' = allocations /\ partitions' = partitions
      /\ partitions = <<>> /\ phase' = "allocate" /\ mixed
      /\ builder.patterns # <<>> /\ builder.worker_count > 0
    BY DEF Mixed, Buildable, Inv, PhaseInv
<1>2. mixed'
    BY <1>1, SameBuilder
<1>3. TypeOK' /\ PhaseInv' /\ CallsInv' /\ LoopInv' /\ BuiltInv'
    BY <1>1, <1>2
       DEF Inv, TypeOK, PhaseInv, CallsInv, LoopInv, BuiltInv, Mixed, Buildable
<1>4. AllocationInv' /\ SharesInv'
    BY <1>1, SameAllocations, SamePartitions DEF Inv
<1>5. SlicesTileTheLists'
    BY <1>1 DEF SlicesTileTheLists
<1>6. QED
    BY <1>3, <1>4, <1>5 DEF Inv

\* One more partition for the selected cohort: both cohorts still hold theirs.
LEMMA AllocateInv ==
    ASSUME Inv, Allocate
    PROVE  Inv'
<1>1. /\ builder' = builder /\ partitions' = partitions /\ partitions = <<>>
      /\ phase = "allocate" /\ phase' = "allocate" /\ mixed /\ Allocated < Target
      /\ allocations' = [allocations EXCEPT ![Selected] = @ + 1]
      /\ allocations \in [{"free", "bearing"} -> Nat \ {0}]
    BY DEF Allocate, Inv, PhaseInv, TypeOK
<1>2. Selected \in {"free", "bearing"} /\ HasRoom(Selected)
    BY <1>1, SelectedHasRoom DEF Inv
<1>3. mixed' /\ Target' = Target /\ free' = free /\ bearing' = bearing
    BY <1>1, SameBuilder
<1>4. free \in Nat /\ bearing \in Nat /\ Len(builder.patterns) \in Nat
      /\ builder.worker_count \in Nat
    BY Counts DEF Inv, TypeOK
<1>5. Target \in Nat
    BY <1>4 DEF Target, AtMost, AtLeast
<1>6. allocations' \in [{"free", "bearing"} -> Nat \ {0}]
    BY <1>1, <1>2
<1>7. AllocationInv'
    <2>1. allocations.free <= free /\ allocations.bearing <= bearing
        BY <1>1 DEF Inv, AllocationInv
    <2>2. CASE Selected = "free"
        <3>1. /\ allocations'.free = allocations.free + 1
              /\ allocations'.bearing = allocations.bearing
              /\ allocations.free < free
            BY <1>1, <1>2, <2>2 DEF HasRoom, PatternCounts
        <3>2. QED
            BY <1>1, <1>3, <1>4, <1>5, <2>1, <3>1 DEF AllocationInv, Allocated
    <2>3. CASE Selected = "bearing"
        <3>1. /\ allocations'.free = allocations.free
              /\ allocations'.bearing = allocations.bearing + 1
              /\ allocations.bearing < bearing
            BY <1>1, <1>2, <2>3 DEF HasRoom, PatternCounts
        <3>2. QED
            BY <1>1, <1>3, <1>4, <1>5, <2>1, <3>1 DEF AllocationInv, Allocated
    <2>4. QED
        BY <1>2, <2>2, <2>3
<1>8. TypeOK' /\ PhaseInv' /\ CallsInv' /\ LoopInv' /\ BuiltInv'
    BY <1>1, <1>3, <1>6
       DEF Inv, TypeOK, PhaseInv, CallsInv, LoopInv, BuiltInv, Allocate
<1>9. SharesInv' /\ SlicesTileTheLists'
    BY <1>1 DEF SharesInv, SlicesTileTheLists
<1>10. QED
    BY <1>7, <1>8, <1>9 DEF Inv

\* The allocation has reached its target: the calls of both cohorts.
LEMMA TwoCallsInv ==
    ASSUME Inv, TwoCalls
    PROVE  Inv'
<1>1. /\ builder' = builder /\ allocations' = allocations /\ partitions' = partitions
      /\ partitions = <<>> /\ index' = 0 /\ start' = 0 /\ error' = error
      /\ phase = "allocate" /\ phase' = "compile" /\ mixed /\ Allocated >= Target
      /\ calls' = << FreeCall, BearingCall >>
      /\ builder.patterns # <<>> /\ builder.worker_count > 0
    BY DEF TwoCalls, Inv, PhaseInv
<1>2. /\ FreeCall \in CallShape /\ BearingCall \in CallShape
      /\ FreeCall.cohort = "free"
    BY <1>1, CohortCalls DEF Inv
<1>3. /\ mixed' /\ Target' = Target /\ Allocated' = Allocated
      /\ FreeCall' = FreeCall /\ BearingCall' = BearingCall
    BY <1>1, SameBuilder, SameAllocations
<1>4. Allocated = Target
    <2>1. Len(builder.patterns) \in Nat /\ builder.worker_count \in Nat
          /\ allocations.free \in Nat /\ allocations.bearing \in Nat
        BY Counts DEF Inv, TypeOK
    <2>2. Allocated \in Nat /\ Target \in Nat
        BY <2>1 DEF Allocated, Target, AtMost, AtLeast
    <2>3. QED
        BY <1>1, <2>2 DEF Inv, AllocationInv
<1>5. TypeOK'
    BY <1>1, <1>2 DEF Inv, TypeOK
<1>6. PhaseInv' /\ CallsInv' /\ BuiltInv'
    BY <1>1, <1>3, <1>4 DEF PhaseInv, CallsInv, BuiltInv
<1>7. LoopInv'
    <2>1. call' = FreeCall
        BY <1>1 DEF call
    <2>2. FreeCall.size \in Nat /\ FreeCall.count \in Nat \ {0}
        BY <1>2 DEF CallShape
    <2>3. Dealt(FreeCall.size, FreeCall.count, 0) = 0
        BY <2>2, DealtNothing
    <2>4. Offset' = 0
        BY <1>2, <2>1 DEF Offset
    <2>5. QED
        BY <1>1, <2>1, <2>2, <2>3, <2>4 DEF LoopInv
<1>8. AllocationInv' /\ SharesInv'
    BY <1>1, SameAllocations, SamePartitions DEF Inv
<1>9. SlicesTileTheLists'
    BY <1>1 DEF SlicesTileTheLists
<1>10. QED
    BY <1>5, <1>6, <1>7, <1>8, <1>9 DEF Inv

\* One partition: the next slice of the call's list, with the next share.
LEMMA CompilePartitionInv ==
    ASSUME Inv, CompilePartition
    PROVE  Inv'
<1> DEFINE n == Len(partitions)
           e == start + patterns_per_partition + One(index < extra_patterns)
           p == [cohort |-> call.cohort, start |-> start, end |-> e,
                 budget |-> cache_states_per_partition + One(index < extra_cache_states)]
<1>1. /\ builder' = builder /\ allocations' = allocations /\ calls' = calls
      /\ phase = "compile" /\ phase' = "compile" /\ error' = error
      /\ index < call.count /\ index' = index + 1 /\ start' = e
      /\ partitions' = Append(partitions, p)
    BY DEF CompilePartition
<1>2. /\ call \in CallShape /\ call.size = Size(call.cohort) /\ call.count <= call.size
      /\ \A i \in 0..(call.count - 1) :
            (call.budget \div call.count) + One(i < call.budget % call.count)
                = Share(Offset + i + 1)
    BY <1>1, CallFacts
<1>3. /\ call.size \in Nat \ {0} /\ call.count \in Nat \ {0} /\ call.budget \in Nat
      /\ call.cohort \in Cohort
    BY <1>2 DEF CallShape
<1>4. /\ index \in Nat /\ index \in 0..(call.count - 1) /\ start \in Nat
      /\ start = Dealt(call.size, call.count, index)
      /\ partitions \in Seq(PartitionShape) /\ n \in Nat /\ n = Offset + index
      /\ Offset \in Nat
      /\ index > 0 => Newest.cohort = call.cohort /\ Newest.end = start
      /\ index = 0 /\ partitions # <<>> =>
           Newest.cohort # call.cohort /\ Newest.end = Size(Newest.cohort)
    BY <1>1, <1>3 DEF Inv, TypeOK, LoopInv, Offset
<1>5. /\ e = Dealt(call.size, call.count, index + 1)
      /\ e <= call.size /\ Dealt(call.size, call.count, 0) = 0
      /\ call.size \div call.count \in Nat /\ call.size \div call.count >= 1
      /\ One(index < extra_patterns) \in {0, 1}
    <2>1. /\ Dealt(call.size, call.count, 0) = 0
          /\ Dealt(call.size, call.count, index + 1)
                = Dealt(call.size, call.count, index)
                  + (call.size \div call.count) + One(index < call.size % call.count)
          /\ Dealt(call.size, call.count, index + 1) <= call.size
        BY <1>3, <1>4, DealtSteps, ZenonT(40)
    <2>2. e = Dealt(call.size, call.count, index + 1)
        BY <1>4, <2>1 DEF patterns_per_partition, extra_patterns
    <2>3. call.size \div call.count \in Nat /\ call.size \div call.count >= 1
        BY <1>2, <1>3, DivMod, DivPositive
    <2>4. One(index < extra_patterns) \in {0, 1}
        BY DEF One
    <2> HIDE DEF e
    <2>5. QED
        BY <2>1, <2>2, <2>3, <2>4
<1>6. e \in Nat /\ start < e
    BY <1>4, <1>5 DEF patterns_per_partition
<1>7. /\ p.budget = Share(n + 1)
      /\ p.budget \in Nat
    <2>1. p.budget = Share(Offset + index + 1)
        BY <1>2, <1>4 DEF cache_states_per_partition, extra_cache_states
    <2>2. /\ cache_states_per_partition \in Nat
          /\ One(index < extra_cache_states) \in {0, 1}
        BY <1>3, DivMod DEF cache_states_per_partition, One
    <2>3. p.budget \in Nat
        BY <2>2
    <2>4. QED
        BY <1>4, <2>1, <2>3
<1>8. p \in PartitionShape
    BY <1>3, <1>4, <1>6, <1>7 DEF PartitionShape
<1> HIDE DEF e
<1>9. /\ p.cohort = call.cohort /\ p.start = start /\ p.end = e
    OBVIOUS
<1> HIDE DEF p
<1>10. /\ partitions' \in Seq(PartitionShape) /\ Len(partitions') = n + 1
       /\ \A i \in 1..n : partitions'[i] = partitions[i]
       /\ partitions'[n + 1] = p
       /\ partitions' # <<>>
    BY <1>1, <1>4, <1>8, AppendProperties
<1>11. /\ call' = call /\ Offset' = Offset /\ mixed' = mixed /\ Target' = Target
       /\ AllCall' = AllCall /\ Allocated' = Allocated
       /\ FreeCall' = FreeCall /\ BearingCall' = BearingCall
       /\ (\A c : Size(c)' = Size(c)) /\ (\A k : Share(k)' = Share(k))
    BY <1>1, SameBuilder, SameAllocations DEF call, Offset
<1>12. TypeOK'
    BY <1>1, <1>4, <1>6, <1>10 DEF Inv, TypeOK
<1>13. PhaseInv' /\ CallsInv' /\ BuiltInv' /\ AllocationInv'
    BY <1>1, <1>11, SameAllocations DEF Inv, PhaseInv, CallsInv, BuiltInv
<1>14. LoopInv'
    <2>1. Newest' = p
        BY <1>10 DEF Newest
    <2>2. index' \in Nat /\ index' > 0 /\ index' <= call.count
        BY <1>1, <1>3, <1>4
    <2>3. Len(partitions') = Offset + index'
        BY <1>1, <1>4, <1>10
    <2>4. QED
        BY <1>1, <1>5, <1>9, <1>11, <2>1, <2>2, <2>3 DEF LoopInv
<1>15. SharesInv'
    <2>1. ASSUME NEW k \in 1..(n + 1) PROVE partitions'[k].budget = Share(k)
        BY <1>4, <1>7, <1>10 DEF Inv, SharesInv
    <2>2. QED
        BY <1>10, <1>11, <2>1 DEF SharesInv
<1>16. SlicesTileTheLists'
    <2>1. ASSUME NEW i \in 1..(n + 1)
          PROVE  /\ partitions'[i].start < partitions'[i].end
                 /\ partitions'[i].end <= Size(partitions'[i].cohort)
        BY <1>2, <1>4, <1>5, <1>6, <1>9, <1>10 DEF Inv, SlicesTileTheLists
    <2>2. ASSUME NEW i \in 1..n
          PROVE  IF partitions'[i + 1].cohort = partitions'[i].cohort
                 THEN partitions'[i + 1].start = partitions'[i].end
                 ELSE /\ partitions'[i].end = Size(partitions'[i].cohort)
                      /\ partitions'[i + 1].start = 0
        <3>1. CASE i = n
            <4>1. partitions'[i] = Newest /\ partitions'[i + 1] = p /\ partitions # <<>>
                BY <1>4, <1>10, <3>1 DEF Newest
            <4>2. QED
                BY <1>4, <1>5, <1>9, <4>1
        <3>2. CASE i # n
            <4>1. /\ i \in 1..(n - 1) /\ i + 1 \in 1..n
                  /\ partitions'[i] = partitions[i]
                  /\ partitions'[i + 1] = partitions[i + 1]
                BY <1>4, <1>10, <3>2
            <4>2. QED
                BY <4>1 DEF Inv, SlicesTileTheLists
        <3>3. QED
            BY <3>1, <3>2
    <2>3. partitions'[1].start = 0
        <3>1. CASE n = 0
            <4>1. index = 0 /\ n + 1 = 1
                <5>1. n = Offset + index /\ Offset \in Nat /\ index \in Nat
                    BY <1>4
                <5> HIDE DEF n
                <5>2. QED
                    BY <3>1, <5>1
            <4>2. partitions'[1] = p
                BY <1>10, <4>1
            <4>3. QED
                BY <1>4, <1>5, <1>9, <4>1, <4>2
        <3>2. CASE n # 0
            BY <1>4, <1>10, <3>2 DEF Inv, SlicesTileTheLists
        <3>3. QED
            BY <3>1, <3>2
    <2>4. QED
        BY <1>1, <1>4, <1>10, <1>11, <2>1, <2>2, <2>3 DEF SlicesTileTheLists
<1>17. QED
    BY <1>12, <1>13, <1>14, <1>15, <1>16 DEF Inv

\* The call is done: everything in its list is dealt out.
LEMMA FinishCallInv ==
    ASSUME Inv, FinishCall
    PROVE  Inv'
<1>1. /\ builder' = builder /\ allocations' = allocations /\ partitions' = partitions
      /\ phase = "compile" /\ error' = error /\ index = call.count
      /\ calls' = Tail(calls) /\ index' = 0 /\ start' = 0
      /\ phase' = IF Len(calls) = 1 THEN "built" ELSE "compile"
    BY DEF FinishCall
<1>2. /\ call \in CallShape /\ call.size = Size(call.cohort) /\ call.count <= call.size
      /\ calls = << AllCall >> \/ calls = << BearingCall >> => Offset + call.count = Total
    BY <1>1, CallFacts
<1>3. /\ call.size \in Nat \ {0} /\ call.count \in Nat \ {0}
    BY <1>2 DEF CallShape
<1>4. Dealt(call.size, call.count, call.count) = call.size
    <2>1. 0 \in 0..(call.count - 1)
        BY <1>3
    <2>2. QED
        BY <1>3, <2>1, DealtSteps
<1>5. /\ partitions \in Seq(PartitionShape) /\ Len(partitions) = Offset + call.count
      /\ Offset \in Nat
      /\ Newest.cohort = call.cohort /\ Newest.end = Size(Newest.cohort)
    BY <1>1, <1>2, <1>3, <1>4 DEF Inv, TypeOK, LoopInv, Offset
<1>6. partitions # <<>>
    BY <1>3, <1>5
<1>7. /\ mixed' = mixed /\ Total' = Total /\ Target' = Target /\ Allocated' = Allocated
      /\ AllCall' = AllCall /\ FreeCall' = FreeCall /\ BearingCall' = BearingCall
      /\ \A c : Size(c)' = Size(c)
    BY <1>1, SameBuilder, SameAllocations
<1>8. AllocationInv' /\ SharesInv'
    BY <1>1, SameAllocations, SamePartitions DEF Inv
<1>9. SlicesTileTheLists'
    BY <1>1, <1>5, <1>6, <1>7 DEF Inv, SlicesTileTheLists, Newest
<1>10. PhaseInv'
    BY <1>1, <1>7 DEF Inv, PhaseInv
<1>11. CASE calls = << AllCall >> \/ calls = << BearingCall >>
    <2>1. phase' = "built" /\ calls' = <<>>
        <3>1. \A c : Len(<< c >>) = 1 /\ Tail(<< c >>) = <<>>
            OBVIOUS
        <3>2. QED
            BY <1>1, <1>11, <3>1
    <2>2. TypeOK'
        BY <1>1, <2>1 DEF Inv, TypeOK
    <2>3. CallsInv' /\ LoopInv' /\ BuiltInv'
        BY <1>1, <1>2, <1>5, <1>7, <1>11, <2>1 DEF CallsInv, LoopInv, BuiltInv
    <2>4. QED
        BY <1>8, <1>9, <1>10, <2>2, <2>3 DEF Inv
<1>12. CASE mixed /\ calls = << FreeCall, BearingCall >>
    <2>1. /\ phase' = "compile" /\ calls' = << BearingCall >> /\ call = FreeCall
        BY <1>1, <1>12 DEF call
    <2>2. /\ BearingCall \in CallShape
          /\ FreeCall.cohort = "free" /\ BearingCall.cohort = "bearing"
          /\ FreeCall.count = allocations.free
        BY <1>12, CohortCalls DEF Inv
    <2>3. call' = BearingCall
        BY <1>7, <2>1 DEF call
    <2>4. TypeOK'
        BY <1>1, <2>1, <2>2 DEF Inv, TypeOK
    <2>5. CallsInv' /\ BuiltInv'
        BY <1>1, <1>7, <1>12, <2>1 DEF CallsInv, BuiltInv
    <2>6. LoopInv'
        <3>1. Offset = 0 /\ Offset' = allocations.free
            BY <1>1, <2>1, <2>2, <2>3 DEF Offset
        <3>2. BearingCall.size \in Nat /\ BearingCall.count \in Nat \ {0}
            BY <2>2 DEF CallShape
        <3>3. Dealt(BearingCall.size, BearingCall.count, 0) = 0
            BY <3>2, DealtNothing
        <3>4. Len(partitions') = Offset'
            BY <1>1, <1>3, <1>5, <2>1, <2>2, <3>1
        <3>5. Newest' = Newest
            BY <1>1 DEF Newest
        <3>6. Offset' \in Nat
            BY <3>1 DEF Inv, TypeOK
        <3>7. QED
            BY <1>1, <1>5, <1>7, <2>1, <2>2, <2>3, <3>2, <3>3, <3>4, <3>5, <3>6 DEF LoopInv
    <2>7. QED
        BY <1>8, <1>9, <1>10, <2>4, <2>5, <2>6 DEF Inv
<1>13. QED
    BY <1>1, <1>11, <1>12 DEF Inv, CallsInv

\* A step that changes nothing keeps the invariant.
LEMMA StutterInv ==
    ASSUME Inv, UNCHANGED partitioningVars
    PROVE  Inv'
<1>1. /\ builder' = builder /\ allocations' = allocations /\ partitions' = partitions
      /\ phase' = phase /\ calls' = calls /\ index' = index /\ start' = start
      /\ error' = error
    BY DEF partitioningVars
<1>2. /\ mixed' = mixed /\ Total' = Total /\ Target' = Target /\ Allocated' = Allocated
      /\ AllCall' = AllCall /\ FreeCall' = FreeCall /\ BearingCall' = BearingCall
      /\ \A c : Size(c)' = Size(c)
    BY <1>1, SameBuilder, SameAllocations
<1>3. AllocationInv' /\ SharesInv'
    BY <1>1, SameAllocations, SamePartitions DEF Inv
<1>4. call' = call /\ Offset' = Offset /\ Newest' = Newest
    BY <1>1 DEF call, Offset, Newest
<1>5. TypeOK' /\ PhaseInv' /\ BuiltInv'
    BY <1>1, <1>2 DEF Inv, TypeOK, PhaseInv, BuiltInv
<1>6. CallsInv' /\ LoopInv'
    BY <1>1, <1>2, <1>4 DEF Inv, CallsInv, LoopInv
<1>7. SlicesTileTheLists'
    BY <1>1, <1>2 DEF Inv, SlicesTileTheLists
<1>8. QED
    BY <1>3, <1>5, <1>6, <1>7 DEF Inv

\* The inductive invariant holds of every build.
LEMMA Invariant == Spec => []Inv
<1>1. Inv /\ [Next]_partitioningVars => Inv'
    <2> SUFFICES ASSUME Inv, [Next]_partitioningVars PROVE Inv'
        OBVIOUS
    <2>1. CASE NoPatterns
        BY <2>1, FailInv DEF NoPatterns
    <2>2. CASE InvalidWorkerCount
        BY <2>2, FailInv DEF InvalidWorkerCount
    <2>3. CASE OneCall
        BY <2>3, OneCallInv
    <2>4. CASE Mixed
        BY <2>4, MixedInv
    <2>5. CASE Allocate
        BY <2>5, AllocateInv
    <2>6. CASE TwoCalls
        BY <2>6, TwoCallsInv
    <2>7. CASE CompilePartition
        BY <2>7, CompilePartitionInv
    <2>8. CASE FinishCall
        BY <2>8, FinishCallInv
    <2>9. CASE UNCHANGED partitioningVars
        BY <2>9, StutterInv
    <2>10. QED
        BY <2>1, <2>2, <2>3, <2>4, <2>5, <2>6, <2>7, <2>8, <2>9 DEF Next
<1>2. QED
    BY <1>1, InitInv, PTL DEF Spec

-----------------------------------------------------------------------------
(* The theorems. *)

\* Type correctness of the construction (build, compile_partitions).
THEOREM PartitioningTypes == Spec => []TypeOK
<1>1. Inv => TypeOK
    BY DEF Inv
<1>2. QED
    BY <1>1, Invariant, PTL

\* Whatever the configuration, the slices tile each cohort's list.
THEOREM SlicesTile == Spec => []SlicesTileTheLists
<1>1. Inv => SlicesTileTheLists
    BY DEF Inv
<1>2. QED
    BY <1>1, Invariant, PTL

\* Whatever the configuration, cohorts included, partition k gets the k-th share of
\* the budget dealt over all partitions.
THEOREM BudgetDealt == Spec => []BudgetIsDealtOut
<1>1. Inv => BudgetIsDealtOut
    BY DEF Inv, BuiltInv, SharesInv, BudgetIsDealtOut, Share
<1>2. QED
    BY <1>1, Invariant, PTL

\* Whatever the configuration, there are as many partitions as workers and patterns
\* allow, and two for a mixed set on one worker.
THEOREM CountOfPartitions == Spec => []PartitionCount
<1>1. Inv => PartitionCount
    <2> SUFFICES ASSUME Inv, phase = "built" PROVE PartitionCount
        BY DEF PartitionCount
    <2>1. Len(partitions) = Total /\ (mixed => Allocated = Target)
        BY DEF Inv, BuiltInv, PhaseInv
    <2>2. Len(builder.patterns) \in Nat /\ builder.worker_count \in Nat
        BY Counts DEF Inv, TypeOK
    <2>3. CASE mixed
        BY <2>1, <2>2, <2>3 DEF PartitionCount, Total, Target, AtMost, AtLeast
    <2>4. CASE ~ mixed
        BY <2>1, <2>2, <2>4 DEF PartitionCount, Total, AllCall, Call, AtMost
    <2>5. QED
        BY <2>3, <2>4
<1>2. QED
    BY <1>1, Invariant, PTL

\* Whatever the configuration, the allocation loop never runs out of cohorts to grow.
THEOREM AllocationAlwaysFits == Spec => []AllocationFits
<1>1. Inv => AllocationFits
    <2> SUFFICES ASSUME Inv, mixed PROVE AllocationFits
        BY DEF AllocationFits
    <2>1. /\ allocations.free <= free /\ allocations.bearing <= bearing
          /\ Allocated <= Target
        BY DEF Inv, AllocationInv
    <2>2. Allocated < Target => HasRoom("free") \/ HasRoom("bearing")
        <3> SUFFICES ASSUME Allocated < Target PROVE HasRoom("free") \/ HasRoom("bearing")
            OBVIOUS
        <3>1. Selected \in {"free", "bearing"} /\ HasRoom(Selected)
            BY SelectedHasRoom DEF Inv
        <3>2. QED
            BY <3>1
    <2>3. QED
        BY <2>1, <2>2 DEF AllocationFits
<1>2. QED
    BY <1>1, Invariant, PTL

-----------------------------------------------------------------------------
(* The balance of the allocation. *)

\* Either cohort was the more pressed one when it got its last partition: with that one
\* taken back it would carry no less than the other carries now.
Earned ==
    mixed =>
        /\ bearing * (allocations.free - 1) <= free * allocations.bearing
        /\ free * (allocations.bearing - 1) <= bearing * allocations.free

\* A product grows with its factor.
LEMMA Product ==
    ASSUME NEW k \in Nat, NEW m \in Int, NEW n \in Int, m <= n
    PROVE  k * m <= k * n
<1>1. n - m \in Nat /\ k * (n - m) \in Nat
    OBVIOUS
<1>2. k * n = k * m + k * (n - m)
    OBVIOUS
<1>3. k * m \in Int /\ k * n \in Int
    OBVIOUS
<1>4. QED
    BY <1>1, <1>2, <1>3

\* A partition goes to the more pressed cohort, or to the only one with room.
LEMMA SelectedEarnsIt ==
    ASSUME NEW p \in Nat, NEW q \in Nat, NEW x \in Nat \ {0}, NEW y \in Nat \ {0},
           q * (x - 1) <= p * y, p * (y - 1) <= q * x, x < p, y <= q,
           q * x <= p * y \/ y = q
    PROVE  q * ((x + 1) - 1) <= p * y /\ p * (y - 1) <= q * (x + 1)
<1>1. q * x <= p * y
    <2>1. ASSUME y = q PROVE q * x <= p * y
        <3>1. q * x <= q * p
            BY Product
        <3>2. q * p = p * y
            BY <2>1
        <3>3. QED
            BY <3>1, <3>2
    <2>2. QED
        BY <2>1
<1>2. q * x <= q * (x + 1)
    BY Product
<1>3. q * x \in Int /\ p * y \in Int /\ q * (x + 1) \in Int /\ p * (y - 1) \in Int
    OBVIOUS
<1>4. (x + 1) - 1 = x
    OBVIOUS
<1>5. QED
    BY <1>1, <1>2, <1>3, <1>4

\* The first partition of a cohort need not be earned.
LEMMA InitEarned == Init => Earned
<1> SUFFICES ASSUME Init PROVE Earned
    OBVIOUS
<1>1. free \in Nat /\ bearing \in Nat
    BY Counts DEF Init
<1>2. allocations.free = 1 /\ allocations.bearing = 1
    BY DEF Init
<1>3. bearing * (1 - 1) <= free * 1 /\ free * (1 - 1) <= bearing * 1
    BY <1>1
<1>4. QED
    BY <1>2, <1>3 DEF Earned

\* Only Allocate changes the allocation.
LEMMA StepEarned ==
    ASSUME Inv, Earned, [Next]_partitioningVars
    PROVE  Earned'
<1>1. ASSUME builder' = builder, allocations' = allocations
      PROVE  Earned'
    <2>1. mixed' = mixed /\ free' = free /\ bearing' = bearing
        BY <1>1, SameBuilder
    <2>2. QED
        BY <1>1, <2>1 DEF Earned
<1>2. ASSUME Allocate PROVE Earned'
    <2>1. /\ builder' = builder /\ phase = "allocate" /\ mixed
          /\ allocations' = [allocations EXCEPT ![Selected] = @ + 1]
          /\ allocations \in [{"free", "bearing"} -> Nat \ {0}]
        BY <1>2 DEF Allocate, Inv, PhaseInv, TypeOK
    <2>2. free' = free /\ bearing' = bearing
        BY <2>1, SameBuilder
    <2>3. Selected \in {"free", "bearing"} /\ HasRoom(Selected)
        BY <1>2, SelectedHasRoom DEF Inv, Allocate, PhaseInv
    <2>4. /\ free \in Nat /\ bearing \in Nat
          /\ allocations.free \in Nat \ {0} /\ allocations.bearing \in Nat \ {0}
          /\ allocations.free <= free /\ allocations.bearing <= bearing
        BY <2>1, Counts DEF Inv, TypeOK, AllocationInv
    <2>5. /\ bearing * (allocations.free - 1) <= free * allocations.bearing
          /\ free * (allocations.bearing - 1) <= bearing * allocations.free
        BY <2>1 DEF Earned
    <2>6. /\ Pressure("free") = free * allocations.bearing
          /\ Pressure("bearing") = bearing * allocations.free
          /\ HasRoom("free") <=> allocations.free < free
          /\ HasRoom("bearing") <=> allocations.bearing < bearing
        BY DEF Pressure, HasRoom, PatternCounts, Other
    <2>7. bearing * allocations.free \in Nat /\ free * allocations.bearing \in Nat
        BY <2>4
    <2>8. CASE Selected = "free"
        <3>1. /\ allocations'.free = allocations.free + 1
              /\ allocations'.bearing = allocations.bearing
              /\ allocations.free < free
            BY <2>1, <2>3, <2>6, <2>8
        <3>2. \/ bearing * allocations.free <= free * allocations.bearing
              \/ allocations.bearing = bearing
            BY <2>4, <2>6, <2>7, <2>8 DEF Selected
        <3>3. /\ bearing * ((allocations.free + 1) - 1) <= free * allocations.bearing
              /\ free * (allocations.bearing - 1) <= bearing * (allocations.free + 1)
            BY <2>4, <2>5, <3>1, <3>2, SelectedEarnsIt
        <3>4. QED
            BY <2>2, <3>1, <3>3 DEF Earned
    <2>9. CASE Selected = "bearing"
        <3>1. /\ allocations'.bearing = allocations.bearing + 1
              /\ allocations'.free = allocations.free
              /\ allocations.bearing < bearing
            BY <2>1, <2>3, <2>6, <2>9
        <3>2. \/ free * allocations.bearing <= bearing * allocations.free
              \/ allocations.free = free
            BY <2>4, <2>6, <2>7, <2>9 DEF Selected
        <3>3. /\ free * ((allocations.bearing + 1) - 1) <= bearing * allocations.free
              /\ bearing * (allocations.free - 1) <= free * (allocations.bearing + 1)
            BY <2>4, <2>5, <3>1, <3>2, SelectedEarnsIt
        <3>4. QED
            BY <2>2, <3>1, <3>3 DEF Earned
    <2>10. QED
        BY <2>3, <2>8, <2>9
<1>3. Allocate \/ (builder' = builder /\ allocations' = allocations)
    BY DEF Next, NoPatterns, InvalidWorkerCount, Fail, OneCall, Mixed, TwoCalls,
           CompilePartition, FinishCall, partitioningVars
<1>4. QED
    BY <1>1, <1>2, <1>3

\* One of the two cohorts bears witness: the division gives the cohort no more than the
\* allocation, or it gives the other one less.
LEMMA EarnedIsBalanced ==
    ASSUME NEW p \in Nat, NEW q \in Nat, NEW x \in Nat \ {0}, NEW y \in Nat \ {0},
           p * (y - 1) <= q * x,
           NEW m \in Nat, NEW n \in Nat, m + n = x + y
    PROVE  p * m <= p * x \/ p * n <= q * x
<1>1. CASE m <= x
    BY <1>1, Product
<1>2. CASE m > x
    <2>1. n <= y - 1
        BY <1>2
    <2>2. p * n <= p * (y - 1)
        BY <2>1, Product
    <2>3. p * n \in Int /\ p * (y - 1) \in Int /\ q * x \in Int
        OBVIOUS
    <2>4. QED
        BY <2>2, <2>3
<1>3. QED
    BY <1>1, <1>2

\* Whatever the sizes of the cohorts and the number of workers, no division of the same
\* partitions has a smaller largest load (allocate_cohort_partitions).
THEOREM AllocationStaysBalanced == Spec => []AllocationIsBalanced
<1>1. Inv /\ Earned => AllocationIsBalanced
    <2> SUFFICES ASSUME Inv, Earned, mixed,
                        NEW other \in [free : 1..free, bearing : 1..bearing],
                        other.free + other.bearing = Allocated,
                        NEW c \in {"free", "bearing"}
                 PROVE  \E d \in {"free", "bearing"} :
                            PatternCounts[c] * other[d] <= PatternCounts[d] * allocations[c]
        BY DEF AllocationIsBalanced
    <2>1. /\ free \in Nat /\ bearing \in Nat
          /\ allocations.free \in Nat \ {0} /\ allocations.bearing \in Nat \ {0}
        BY Counts DEF Inv, TypeOK
    <2>2. /\ other.free \in Nat /\ other.bearing \in Nat
          /\ other.free + other.bearing = allocations.free + allocations.bearing
        BY <2>1 DEF Allocated
    <2>3. /\ bearing * (allocations.free - 1) <= free * allocations.bearing
          /\ free * (allocations.bearing - 1) <= bearing * allocations.free
        BY DEF Earned
    <2>4. PatternCounts["free"] = free /\ PatternCounts["bearing"] = bearing
        BY DEF PatternCounts
    <2>5. CASE c = "free"
        <3>1. \/ free * other.free <= free * allocations.free
              \/ free * other.bearing <= bearing * allocations.free
            BY <2>1, <2>2, <2>3, EarnedIsBalanced
        <3>2. QED
            BY <2>4, <2>5, <3>1
    <2>6. CASE c = "bearing"
        <3>1. other.bearing + other.free = allocations.bearing + allocations.free
            BY <2>1, <2>2
        <3>2. \/ bearing * other.bearing <= bearing * allocations.bearing
              \/ bearing * other.free <= free * allocations.bearing
            BY <2>1, <2>2, <2>3, <3>1, EarnedIsBalanced
        <3>3. QED
            BY <2>4, <2>6, <3>2
    <2>7. QED
        BY <2>5, <2>6
<1>2. Spec => []Earned
    BY InitEarned, StepEarned, Invariant, PTL DEF Spec
<1>3. QED
    BY <1>1, <1>2, Invariant, PTL

-----------------------------------------------------------------------------
(* The list of a cohort. *)

\* s lists the members of S, each once.
Listing(s, S) ==
    /\ s \in Seq(S) /\ IsFiniteSet(S) /\ Len(s) = Cardinality(S)
    /\ \A i, j \in 1..Len(s) : s[i] = s[j] => i = j
    /\ \A x \in S : \E i \in 1..Len(s) : s[i] = x

\* A further member goes to the end.
LEMMA ListingGrows ==
    ASSUME NEW S, NEW s, Listing(s, S), NEW x, x \notin S
    PROVE  Listing(Append(s, x), S \cup {x})
<1> DEFINE T == S \cup {x}
           t == Append(s, x)
<1>1. s \in Seq(S) /\ Len(s) \in Nat /\ \A i \in 1..Len(s) : s[i] \in S
    <2>1. s \in Seq(S)
        BY DEF Listing
    <2>2. QED
        BY <2>1, LenProperties, ElementOfSeq
<1>2. s \in Seq(T) /\ x \in T
    BY <1>1
<1>3. /\ t \in Seq(T) /\ Len(t) = Len(s) + 1
      /\ \A i \in 1..Len(s) : t[i] = s[i]
      /\ t[Len(s) + 1] = x
    BY <1>2, AppendProperties
<1>4. IsFiniteSet(T) /\ Cardinality(T) = Cardinality(S) + 1
    BY FS_AddElement DEF Listing
<1>5. Len(t) = Cardinality(T)
    BY <1>3, <1>4 DEF Listing
<1> HIDE DEF t
<1>6. ASSUME NEW i \in 1..Len(t), NEW j \in 1..Len(t), t[i] = t[j] PROVE i = j
    <2>1. i \in 1..Len(s) \/ i = Len(s) + 1
        BY <1>1, <1>3
    <2>2. j \in 1..Len(s) \/ j = Len(s) + 1
        BY <1>1, <1>3
    <2>3. QED
        BY <1>1, <1>3, <1>6, <2>1, <2>2 DEF Listing
<1>7. ASSUME NEW y \in T PROVE \E i \in 1..Len(t) : t[i] = y
    <2>1. CASE y = x
        <3>1. Len(s) + 1 \in 1..Len(t)
            BY <1>1, <1>3
        <3>2. QED
            BY <1>3, <2>1, <3>1
    <2>2. CASE y # x
        <3>1. PICK i \in 1..Len(s) : s[i] = y
            BY <2>2 DEF Listing
        <3>2. i \in 1..Len(t)
            BY <1>1, <1>3
        <3>3. QED
            BY <1>3, <3>1, <3>2
    <2>3. QED
        BY <2>1, <2>2
<1>8. QED
    BY <1>3, <1>4, <1>5, <1>6, <1>7 DEF Listing, t

\* The patterns of a cohort.
Of(cohort) == { i \in 1..Len(builder.patterns) : Belongs(i, cohort) }

\* What the pushes come to: the patterns of the cohort, each once.
LEMMA MembersAre ==
    ASSUME builder \in Configurations, NEW cohort
    PROVE  Listing(Members(cohort), Of(cohort))
<1> DEFINE n == Len(builder.patterns)
           pushed[i \in 0..n] ==
             IF i = 0 THEN <<>>
             ELSE IF Belongs(i, cohort) THEN Append(pushed[i - 1], i) ELSE pushed[i - 1]
           Step(f) == [i \in 0..n |->
             IF i = 0 THEN <<>>
             ELSE IF Belongs(i, cohort) THEN Append(f[i - 1], i) ELSE f[i - 1]]
           g == [x \in (1..n) \X Seq(Nat) |->
                   IF Belongs(x[1], cohort) THEN Append(x[2], x[1]) ELSE x[2]]
<1>1. n \in Nat
    BY Counts
<1>2. Members(cohort) = pushed[n]
    BY Zenon DEF Members
<1>3. pushed = CHOOSE f : f = Step(f)
    BY Zenon
<1>4. \E f : f = Step(f)
    <2>1. ASSUME NEW x \in (1..n) \X Seq(Nat) PROVE g[x] \in Seq(Nat)
        <3>1. x[1] \in Nat /\ x[2] \in Seq(Nat)
            BY <1>1, <2>1
        <3>2. Append(x[2], x[1]) \in Seq(Nat)
            BY <3>1, AppendProperties
        <3>3. QED
            BY <3>1, <3>2
    <2>2. g \in [(1..n) \X Seq(Nat) -> Seq(Nat)]
        BY <2>1
    <2>3. << >> \in Seq(Nat)
        BY EmptySeq
    <2>4. Along(Seq(Nat), n, << >>, g) # {}
        <3> HIDE DEF g, n
        <3>1. QED
            BY <1>1, <2>2, <2>3, Recursion
    <2>5. PICK f \in Along(Seq(Nat), n, << >>, g) : TRUE
        BY <2>4
    <2>6. /\ f \in [0..n -> Seq(Nat)] /\ f[0] = << >>
          /\ \A i \in 1..n : f[i] = g[<<i, f[i - 1]>>]
        BY <2>5 DEF Along
    <2>7. ASSUME NEW i \in 1..n
          PROVE  f[i] = IF Belongs(i, cohort) THEN Append(f[i - 1], i) ELSE f[i - 1]
        <3>1. i - 1 \in 0..n
            BY <1>1
        <3>2. <<i, f[i - 1]>> \in (1..n) \X Seq(Nat)
            BY <2>6, <3>1
        <3>3. QED
            BY <2>6, <3>2
    <2> HIDE DEF g, n
    <2>8. f = Step(f)
        <3>1. \A i \in 0..n : i = 0 \/ i \in 1..n
            BY <1>1
        <3>2. \A i \in 1..n : i # 0
            BY <1>1
        <3>3. \A i \in 0..n :
                 f[i] = IF i = 0 THEN <<>>
                        ELSE IF Belongs(i, cohort) THEN Append(f[i - 1], i) ELSE f[i - 1]
            BY <2>6, <2>7, <3>1, <3>2, Zenon
        <3>4. QED
            BY <2>6, <3>3
    <2> HIDE DEF Step
    <2>9. QED
        BY <2>8
<1> HIDE DEF pushed, Step
<1>5. pushed = Step(pushed)
    BY <1>3, <1>4
<1> USE DEF Step
<1>6. /\ pushed[0] = << >>
      /\ \A i \in 1..n : pushed[i] = IF Belongs(i, cohort) THEN Append(pushed[i - 1], i)
                                     ELSE pushed[i - 1]
    <2> HIDE DEF n
    <2>1. 0 \in 0..n /\ \A i \in 1..n : i \in 0..n /\ i # 0
        BY <1>1
    <2>2. \A i \in 0..n :
             pushed[i] = IF i = 0 THEN <<>>
                         ELSE IF Belongs(i, cohort) THEN Append(pushed[i - 1], i) ELSE pushed[i - 1]
        BY <1>5, Zenon
    <2>3. QED
        BY <2>1, <2>2, Zenon
<1> HIDE DEF Step
<1> DEFINE Upto(i) == { m \in 1..i : Belongs(m, cohort) }
           Good == { i \in 0..n : Listing(pushed[i], Upto(i)) }
<1>7. 0 \in Good
    <2>1. Upto(0) = {}
        OBVIOUS
    <2>2. Listing(<< >>, {})
        BY FS_EmptySet, EmptySeq DEF Listing
    <2>3. QED
        BY <1>1, <1>6, <2>1, <2>2
<1>8. ASSUME NEW i \in 1..n, i - 1 \in Good PROVE i \in Good
    <2>1. i \in 0..n /\ \A m : m \in 1..i <=> m \in 1..(i - 1) \/ m = i
        BY <1>1
    <2>2. i \notin Upto(i - 1)
        BY <1>1
    <2>3. Listing(pushed[i - 1], Upto(i - 1))
        BY <1>8
    <2>4. CASE Belongs(i, cohort)
        <3>1. Upto(i) = Upto(i - 1) \cup {i}
            BY <2>1, <2>4
        <3> HIDE DEF Upto
        <3>2. Listing(Append(pushed[i - 1], i), Upto(i - 1) \cup {i})
            BY <2>2, <2>3, ListingGrows
        <3>3. QED
            BY <1>6, <2>1, <2>4, <3>1, <3>2
    <2>5. CASE ~ Belongs(i, cohort)
        <3>1. Upto(i) = Upto(i - 1)
            BY <2>1, <2>5
        <3> HIDE DEF Upto
        <3>2. QED
            BY <1>6, <2>1, <2>3, <2>5, <3>1
    <2>6. QED
        BY <2>4, <2>5
<1>9. 0..n \subseteq Good
    <2> HIDE DEF Good, n
    <2>1. QED
        BY <1>1, <1>7, <1>8, Induction
<1>10. Upto(n) = Of(cohort)
    BY DEF Of
<1>11. n \in 0..n
    BY <1>1
<1> HIDE DEF Upto, n
<1>12. QED
    BY <1>2, <1>9, <1>10, <1>11

\* A cohort has as many patterns as its calls are told.
LEMMA SizeIs ==
    ASSUME builder \in Configurations, NEW cohort \in Cohort
    PROVE  Len(Members(cohort)) = Size(cohort)
<1> DEFINE n == Len(builder.patterns)
           B == { i \in DOMAIN builder.patterns : builder.patterns[i] }
<1>1. /\ n \in Nat /\ DOMAIN builder.patterns = 1..n /\ \A i \in 1..n : builder.patterns[i] \in BOOLEAN
    BY ConfigurationsAssumption, LenProperties, ElementOfSeq
<1>2. IsFiniteSet(1..n) /\ Cardinality(1..n) = n
    BY <1>1, FS_Interval
<1>3. Len(Members(cohort)) = Cardinality(Of(cohort))
    BY MembersAre DEF Listing
<1>4. CASE cohort = "all"
    <2>1. Of(cohort) = 1..n
        BY <1>4 DEF Of, Belongs
    <2>2. QED
        BY <1>2, <1>3, <1>4, <2>1 DEF Size
<1>5. CASE cohort = "bearing"
    <2>1. Of(cohort) = B
        BY <1>1, <1>5 DEF Of, Belongs
    <2>2. QED
        BY <1>3, <1>5, <2>1 DEF Size, bearing
<1>6. CASE cohort = "free"
    <2>1. Of(cohort) = (1..n) \ B
        BY <1>1, <1>6 DEF Of, Belongs
    <2>2. (1..n) \cap B = B
        BY <1>1
    <2>3. Cardinality((1..n) \ B) = Cardinality(1..n) - Cardinality((1..n) \cap B)
        <3> HIDE DEF B, n
        <3>1. QED
            BY <1>2, FS_Difference
    <2>4. QED
        BY <1>2, <1>3, <1>6, <2>1, <2>2, <2>3 DEF Size, free, bearing
<1>7. QED
    BY <1>4, <1>5, <1>6 DEF Cohort

\* One of the slices a..b, and no other, holds place j.
InOneSlice(a, b, lo, hi, j) ==
    \E k \in a..b : /\ lo[k] < j /\ j <= hi[k]
                    /\ \A l \in a..b : lo[l] < j /\ j <= hi[l] => l = k

\* Slices that tile a list: each place lies in exactly one of them.
LEMMA Tiling ==
    ASSUME NEW a \in Nat, NEW b \in Nat, a <= b, NEW n \in Nat,
           NEW lo \in [a..b -> Nat], NEW hi \in [a..b -> Nat],
           lo[a] = 0, hi[b] = n,
           \A k \in a..b : lo[k] < hi[k],
           \A k \in a..(b - 1) : lo[k + 1] = hi[k],
           NEW j \in 1..n
    PROVE  InOneSlice(a, b, lo, hi, j)
<1> DEFINE K == { k \in a..b : j <= hi[k] }
<1>1. PICK k \in K : \A l \in K : k <= l
    <2>1. K \in SUBSET Nat /\ b \in K
        OBVIOUS
    <2> HIDE DEF K
    <2>2. QED
        BY <2>1, LeastOf
<1>2. k \in a..b /\ j <= hi[k]
    OBVIOUS
<1>3. lo[k] < j
    <2>1. CASE k = a
        BY <2>1
    <2>2. CASE k # a
        <3>1. k - 1 \in a..(b - 1) /\ k - 1 \in a..b /\ (k - 1) + 1 = k /\ ~ (k <= k - 1)
            BY <1>2, <2>2
        <3>2. k - 1 \notin K
            BY <1>1, <3>1
        <3>3. ~ (j <= hi[k - 1])
            BY <3>1, <3>2
        <3>4. lo[(k - 1) + 1] = hi[k - 1]
            BY <3>1
        <3>5. lo[k] = hi[k - 1] /\ hi[k - 1] \in Nat
            BY <3>1, <3>4
        <3>6. QED
            BY <3>3, <3>5
    <2>3. QED
        BY <2>1, <2>2
\* What follows begins where k ends, or later.
<1> DEFINE Later == { m \in 0..(b - k) : m > 0 => hi[k] <= lo[k + m] }
<1>4. 0..(b - k) \subseteq Later
    <2>1. b - k \in Nat /\ 0 \in Later
        BY <1>2
    <2>2. ASSUME NEW m \in 1..(b - k), m - 1 \in Later PROVE m \in Later
        <3>1. /\ k + (m - 1) \in a..(b - 1) /\ (k + (m - 1)) + 1 = k + m
              /\ k + (m - 1) \in a..b /\ k + m \in a..b /\ m \in 0..(b - k)
            BY <1>2
        <3>2. lo[(k + (m - 1)) + 1] = hi[k + (m - 1)]
            BY <3>1
        <3>3. lo[k + m] = hi[k + (m - 1)]
            BY <3>1, <3>2
        <3>4. CASE m - 1 = 0
            <4>1. k + (m - 1) = k
                BY <1>2, <3>4
            <4>2. QED
                BY <1>2, <3>1, <3>3, <4>1
        <3>5. CASE m - 1 > 0
            <4>1. hi[k] <= lo[k + (m - 1)]
                BY <2>2, <3>5
            <4>2. lo[k + (m - 1)] < hi[k + (m - 1)]
                BY <3>1
            <4>3. lo[k + (m - 1)] \in Nat /\ hi[k + (m - 1)] \in Nat /\ hi[k] \in Nat
                BY <1>2, <3>1
            <4>4. hi[k] <= lo[k + m]
                BY <3>3, <4>1, <4>2, <4>3
            <4>5. QED
                BY <3>1, <4>4
        <3>6. QED
            BY <3>4, <3>5
    <2> HIDE DEF Later
    <2>3. QED
        BY <2>1, <2>2, Induction
<1>5. ASSUME NEW l \in a..b, lo[l] < j, j <= hi[l] PROVE l = k
    <2>1. k <= l
        BY <1>1, <1>5
    <2>2. ASSUME k < l PROVE FALSE
        <3>1. l - k \in 0..(b - k) /\ l - k > 0 /\ k + (l - k) = l
            BY <1>2, <2>2
        <3>2. hi[k] <= lo[k + (l - k)]
            BY <1>4, <3>1
        <3>3. hi[k] <= lo[l] /\ hi[k] \in Nat /\ lo[l] \in Nat
            BY <1>2, <3>1, <3>2
        <3>4. QED
            BY <1>2, <1>5, <3>3
    <2>3. QED
        BY <1>2, <2>1, <2>2
<1>6. QED
    BY <1>2, <1>3, <1>5 DEF InOneSlice

-----------------------------------------------------------------------------
(* Where the cohorts are. *)

CohortAt(k) ==
    IF ~ mixed THEN "all" ELSE IF k <= allocations.free THEN "free" ELSE "bearing"

\* The free partitions come first.
Sorted == phase \in {"compile", "built"} =>
              \A k \in 1..Len(partitions) : partitions[k].cohort = CohortAt(k)

\* Each partition compiled goes to the cohort whose turn it is.
LEMMA StepSorted ==
    ASSUME Inv, Sorted, [Next]_partitioningVars
    PROVE  Sorted'
<1>1. ASSUME builder' = builder, allocations' = allocations
      PROVE  \A k : CohortAt(k)' = CohortAt(k)
    BY <1>1, SameBuilder DEF CohortAt
<1>2. CASE CompilePartition
    <2>1. /\ builder' = builder /\ allocations' = allocations /\ phase = "compile"
          /\ index < call.count /\ index \in Nat
          /\ \E p : partitions' = Append(partitions, p) /\ p.cohort = call.cohort
        BY <1>2 DEF CompilePartition, Inv, TypeOK
    <2>2. PICK p : partitions' = Append(partitions, p) /\ p.cohort = call.cohort
        BY <2>1
    <2>3. /\ Len(partitions) \in Nat
          /\ Len(partitions') = Len(partitions) + 1
          /\ \A k \in 1..Len(partitions) : partitions'[k] = partitions[k]
          /\ partitions'[Len(partitions) + 1] = p
        <3>1. partitions \in Seq(PartitionShape \cup {p}) /\ p \in PartitionShape \cup {p}
            BY DEF Inv, TypeOK
        <3>2. Len(partitions) \in Nat
            BY <3>1, LenProperties
        <3>3. QED
            BY <2>2, <3>1, <3>2, AppendProperties
    <2>4. Len(partitions) = Offset + index
        BY <2>1 DEF Inv, LoopInv
    <2>5. call.cohort = CohortAt(Len(partitions) + 1)
        <3>1. CASE ~ mixed /\ calls = << AllCall >>
            BY <3>1 DEF call, AllCall, Call, CohortAt
        <3>2. CASE mixed /\ calls = << FreeCall, BearingCall >>
            <4>1. call = FreeCall
                BY <3>2 DEF call
            <4>2. call.cohort = "free" /\ call.count = allocations.free
                BY <3>2, <4>1, CohortCalls DEF Inv
            <4>3. Offset = 0 /\ allocations.free \in Nat
                BY <4>2 DEF Offset, Inv, TypeOK
            <4>4. Len(partitions) + 1 <= allocations.free
                BY <2>1, <2>4, <4>2, <4>3
            <4>5. QED
                BY <3>2, <4>2, <4>4 DEF CohortAt
        <3>3. CASE mixed /\ calls = << BearingCall >>
            <4>1. call = BearingCall
                BY <3>3 DEF call
            <4>2. call.cohort = "bearing"
                BY <3>3, <4>1, CohortCalls DEF Inv
            <4>3. Offset = allocations.free /\ allocations.free \in Nat
                BY <4>2 DEF Offset, Inv, TypeOK
            <4>4. ~ (Len(partitions) + 1 <= allocations.free)
                BY <2>1, <2>4, <4>3
            <4>5. QED
                BY <3>3, <4>2, <4>4 DEF CohortAt
        <3>4. QED
            BY <2>1, <3>1, <3>2, <3>3 DEF Inv, CallsInv
    <2>6. ASSUME NEW k \in 1..Len(partitions') PROVE partitions'[k].cohort = CohortAt(k)
        <3>1. k \in 1..Len(partitions) \/ k = Len(partitions) + 1
            BY <2>3
        <3>2. QED
            BY <2>1, <2>2, <2>3, <2>5, <3>1 DEF Sorted
    <2>7. QED
        BY <1>1, <2>1, <2>6 DEF Sorted
<1>3. CASE OneCall \/ TwoCalls
    <2>1. partitions = << >> /\ partitions' = partitions
        BY <1>3 DEF OneCall, TwoCalls, Buildable, Inv, PhaseInv
    <2>2. 1..Len(partitions') = {}
        BY <2>1
    <2>3. QED
        BY <2>2 DEF Sorted
<1>4. CASE FinishCall \/ UNCHANGED partitioningVars
    <2>1. /\ builder' = builder /\ allocations' = allocations /\ partitions' = partitions
          /\ phase' \in {"compile", "built"} => phase \in {"compile", "built"}
        BY <1>4 DEF FinishCall, partitioningVars
    <2>2. QED
        BY <1>1, <2>1 DEF Sorted
<1>5. CASE NoPatterns \/ InvalidWorkerCount \/ Mixed \/ Allocate
    <2>1. phase' \notin {"compile", "built"}
        BY <1>5 DEF NoPatterns, InvalidWorkerCount, Fail, Mixed, Allocate
    <2>2. QED
        BY <2>1 DEF Sorted
<1>6. QED
    BY <1>2, <1>3, <1>4, <1>5 DEF Next

\* The slices of a cohort stand together and tile its list.
LEMMA OneSlice ==
    ASSUME Inv, Sorted, phase = "built",
           NEW c \in Cohort, mixed <=> c # "all", NEW j \in 1..Size(c)
    PROVE  \E k \in 1..Len(partitions) :
              /\ partitions[k].cohort = c /\ partitions[k].start < j /\ j <= partitions[k].end
              /\ \A l \in 1..Len(partitions) :
                    /\ partitions[l].cohort = c
                    /\ partitions[l].start < j /\ j <= partitions[l].end
                    => l = k
<1> DEFINE a == IF c = "bearing" THEN allocations.free + 1 ELSE 1
           b == IF c = "free" THEN allocations.free ELSE Len(partitions)
           lo == [k \in a..b |-> partitions[k].start]
           hi == [k \in a..b |-> partitions[k].end]
<1>1. /\ partitions \in Seq(PartitionShape) /\ Len(partitions) \in Nat
      /\ \A k \in 1..Len(partitions) : partitions[k] \in PartitionShape
      /\ allocations.free \in Nat \ {0} /\ allocations.bearing \in Nat \ {0}
    <2>1. partitions \in Seq(PartitionShape)
        BY DEF Inv, TypeOK
    <2>2. QED
        BY <2>1, LenProperties, ElementOfSeq DEF Inv, TypeOK
<1>2. mixed => Len(partitions) = allocations.free + allocations.bearing
    BY DEF Inv, BuiltInv, Total, Allocated
<1>3. /\ partitions # << >> /\ partitions[1].start = 0
      /\ partitions[Len(partitions)].end = Size(partitions[Len(partitions)].cohort)
      /\ \A k \in 1..Len(partitions) : partitions[k].start < partitions[k].end
      /\ \A k \in 1..(Len(partitions) - 1) :
            IF partitions[k + 1].cohort = partitions[k].cohort
            THEN partitions[k + 1].start = partitions[k].end
            ELSE /\ partitions[k].end = Size(partitions[k].cohort)
                 /\ partitions[k + 1].start = 0
    BY DEF Inv, SlicesTileTheLists
<1>4. Len(partitions) >= 1
    BY <1>1, <1>3, EmptySeq
<1>5. \A k \in 1..Len(partitions) : partitions[k].cohort = CohortAt(k)
    BY DEF Sorted
<1>6. a \in Nat /\ b \in Nat /\ a <= b /\ a >= 1 /\ b <= Len(partitions)
    BY <1>1, <1>2, <1>4
<1>7. \A k \in 1..Len(partitions) : partitions[k].cohort = c <=> k \in a..b
    <2>1. CASE c = "all"
        BY <1>1, <1>5, <2>1 DEF CohortAt
    <2>2. CASE c = "free"
        BY <1>1, <1>2, <1>5, <2>2 DEF CohortAt
    <2>3. CASE c = "bearing"
        BY <1>1, <1>2, <1>5, <2>3 DEF CohortAt
    <2>4. QED
        BY <2>1, <2>2, <2>3 DEF Cohort
<1>8. lo \in [a..b -> Nat] /\ hi \in [a..b -> Nat]
    <2>1. \A k \in 1..Len(partitions) : partitions[k].start \in Nat /\ partitions[k].end \in Nat
        BY <1>1 DEF PartitionShape
    <2>2. \A k \in a..b : k \in 1..Len(partitions)
        BY <1>1, <1>6
    <2> HIDE DEF a, b
    <2>3. QED
        BY <2>1, <2>2
<1>9. lo[a] = 0
    <2>1. CASE a = 1
        BY <1>3, <1>6, <2>1
    <2>2. CASE a # 1
        <3>1. /\ c = "bearing" /\ a = allocations.free + 1
              /\ allocations.free \in 1..(Len(partitions) - 1)
              /\ allocations.free \in 1..Len(partitions) /\ allocations.free \notin a..b
              /\ a \in a..b /\ a \in 1..Len(partitions)
            BY <1>1, <1>2, <1>6, <2>2
        <3>2. partitions[allocations.free + 1].cohort # partitions[allocations.free].cohort
            BY <1>7, <3>1
        <3>3. partitions[allocations.free + 1].start = 0
            BY <1>3, <3>1, <3>2
        <3>4. QED
            BY <3>1, <3>3
    <2>3. QED
        BY <2>1, <2>2
<1>10. hi[b] = Size(c)
    <2>1. CASE b = Len(partitions)
        BY <1>3, <1>4, <1>6, <1>7, <2>1
    <2>2. CASE b # Len(partitions)
        <3>1. /\ b \in 1..(Len(partitions) - 1) /\ b \in 1..Len(partitions)
              /\ b + 1 \in 1..Len(partitions) /\ b \in a..b /\ b + 1 \notin a..b
            BY <1>1, <1>6, <2>2
        <3>2. partitions[b].cohort = c /\ partitions[b + 1].cohort # c
            BY <1>7, <3>1
        <3>3. partitions[b].end = Size(c)
            BY <1>3, <3>1, <3>2
        <3>4. QED
            BY <3>1, <3>3
    <2>3. QED
        BY <2>1, <2>2
<1>11. \A k \in a..b : lo[k] < hi[k]
    BY <1>3, <1>6
<1>12. ASSUME NEW k \in a..(b - 1) PROVE lo[k + 1] = hi[k]
    <2>1. /\ k \in a..b /\ k + 1 \in a..b /\ k \in 1..(Len(partitions) - 1)
          /\ k \in 1..Len(partitions) /\ k + 1 \in 1..Len(partitions)
        BY <1>1, <1>6
    <2>2. partitions[k + 1].cohort = partitions[k].cohort
        BY <1>7, <2>1
    <2>3. QED
        BY <1>3, <2>1, <2>2
<1> HIDE DEF a, b
<1>13. Size(c) \in Nat
    BY Counts DEF Inv, TypeOK, Size, Cohort
<1>14. PICK k \in a..b : /\ lo[k] < j /\ j <= hi[k]
                         /\ \A l \in a..b : lo[l] < j /\ j <= hi[l] => l = k
    <2> DEFINE n == Size(c)
    <2>1. n \in Nat /\ j \in 1..n /\ hi[b] = n
        BY <1>10, <1>13
    <2> HIDE DEF lo, hi, n
    <2>2. \A k \in a..(b - 1) : lo[k + 1] = hi[k]
        BY <1>12
    <2>3. InOneSlice(a, b, lo, hi, j)
        BY <1>6, <1>8, <1>9, <1>11, <2>1, <2>2, Tiling
    <2>4. QED
        BY <2>3 DEF InOneSlice
<1>15. a..b \subseteq 1..Len(partitions)
    BY <1>1, <1>6
<1>16. QED
    BY <1>7, <1>14, <1>15

\* A pattern is where its place in its cohort's list is, and nowhere else.
LEMMA PatternsAre ==
    ASSUME Inv, NEW c \in Cohort, NEW i \in 1..Len(builder.patterns), Belongs(i, c)
    PROVE  \E j \in 1..Size(c) :
              \A k \in 1..Len(partitions) :
                 partitions[k].cohort = c =>
                    (i \in PatternsOf(partitions[k])
                       <=> partitions[k].start < j /\ j <= partitions[k].end)
<1>1. builder \in Configurations
    BY DEF Inv, TypeOK
<1>2. Listing(Members(c), Of(c)) /\ Len(Members(c)) = Size(c) /\ i \in Of(c)
    BY <1>1, MembersAre, SizeIs DEF Of
<1>3. PICK j \in 1..Size(c) : Members(c)[j] = i
    BY <1>2 DEF Listing
<1>4. ASSUME NEW k \in 1..Len(partitions), partitions[k].cohort = c
      PROVE  i \in PatternsOf(partitions[k]) <=> partitions[k].start < j /\ j <= partitions[k].end
    <2> DEFINE p == partitions[k]
    <2>1. p.start \in Nat /\ p.end \in Nat /\ p.end <= Size(c) /\ Size(c) \in Nat
        <3>1. p \in PartitionShape
            <4>1. partitions \in Seq(PartitionShape)
                BY DEF Inv, TypeOK
            <4>2. QED
                BY <4>1, ElementOfSeq
        <3>2. p.end <= Size(c)
            BY <1>4 DEF Inv, SlicesTileTheLists
        <3>3. Size(c) \in Nat
            BY <1>1, Counts DEF Size, Cohort
        <3>4. QED
            BY <3>1, <3>2, <3>3 DEF PartitionShape
    <2>2. i \in PatternsOf(p) <=> \E m \in (p.start + 1)..p.end : Members(c)[m] = i
        BY <1>4 DEF PatternsOf
    <2>3. ASSUME NEW m \in (p.start + 1)..p.end, Members(c)[m] = i PROVE m = j
        <3>1. m \in 1..Len(Members(c)) /\ j \in 1..Len(Members(c))
            BY <1>2, <2>1
        <3>2. QED
            BY <1>2, <1>3, <2>3, <3>1 DEF Listing
    <2>4. j \in (p.start + 1)..p.end <=> p.start < j /\ j <= p.end
        BY <2>1
    <2> HIDE DEF p
    <2>5. i \in PatternsOf(p) <=> p.start < j /\ j <= p.end
        BY <1>3, <2>2, <2>3, <2>4
    <2>6. QED
        BY <2>5 DEF p
<1>5. QED
    BY <1>4

\* The patterns of a partition are of its cohort.
LEMMA PatternsBelong ==
    ASSUME Inv, NEW k \in 1..Len(partitions), NEW i \in PatternsOf(partitions[k])
    PROVE  i \in 1..Len(builder.patterns) /\ Belongs(i, partitions[k].cohort)
<1> DEFINE p == partitions[k]
<1>1. builder \in Configurations /\ p \in PartitionShape /\ p.end <= Size(p.cohort)
    <2>1. partitions \in Seq(PartitionShape) /\ builder \in Configurations
        BY DEF Inv, TypeOK
    <2>2. p \in PartitionShape
        BY <2>1, ElementOfSeq
    <2>3. QED
        BY <2>1, <2>2 DEF Inv, SlicesTileTheLists
<1>2. PICK m \in (p.start + 1)..p.end : Members(p.cohort)[m] = i
    BY DEF PatternsOf
<1> HIDE DEF p
<1>3. p.cohort \in Cohort /\ p.start \in Nat /\ p.end \in Nat
    BY <1>1 DEF PartitionShape
<1>4. Listing(Members(p.cohort), Of(p.cohort)) /\ Len(Members(p.cohort)) = Size(p.cohort)
    BY <1>1, <1>3, MembersAre, SizeIs
<1>5. Len(Members(p.cohort)) \in Nat
    BY <1>4, LenProperties DEF Listing
<1>6. m \in 1..Len(Members(p.cohort))
    BY <1>1, <1>2, <1>3, <1>4, <1>5
<1>7. i \in Of(p.cohort)
    BY <1>2, <1>4, <1>6, ElementOfSeq DEF Listing
<1>8. QED
    BY <1>7 DEF Of, p

-----------------------------------------------------------------------------
(* Each pattern once. *)

\* The cohort a pattern goes to.
CohortOf(i) == IF ~ mixed THEN "all" ELSE IF builder.patterns[i] THEN "bearing" ELSE "free"

\* Every registered pattern is scanned by exactly one partition, and with cohorts no
\* partition mixes patterns with and without assertions (compile_partitions and
\* build_matcher, for every builder).
THEOREM EachPatternOnce == Spec => []EveryPatternOnce
<1>1. Init => Sorted
    BY DEF Init, Sorted
<1>2. Spec => []Sorted
    BY <1>1, StepSorted, Invariant, PTL DEF Spec
<1>3. Inv /\ Sorted => EveryPatternOnce
    <2> SUFFICES ASSUME Inv, Sorted, phase = "built" PROVE EveryPatternOnce
        BY DEF EveryPatternOnce
    <2>1. /\ builder.patterns \in Seq(BOOLEAN)
          /\ partitions \in Seq(PartitionShape)
          /\ Len(builder.patterns) \in Nat /\ Len(partitions) \in Nat
          /\ DOMAIN builder.patterns = 1..Len(builder.patterns)
          /\ DOMAIN partitions = 1..Len(partitions)
        BY Counts, LenProperties DEF Inv, TypeOK
    <2>2. \A i \in 1..Len(builder.patterns) : builder.patterns[i] \in BOOLEAN
        BY <2>1, ElementOfSeq
    <2>3. ASSUME NEW k \in 1..Len(partitions), NEW i \in PatternsOf(partitions[k])
          PROVE  /\ i \in 1..Len(builder.patterns)
                 /\ partitions[k].cohort = CohortOf(i)
        <3>1. i \in 1..Len(builder.patterns) /\ Belongs(i, partitions[k].cohort)
            BY PatternsBelong
        <3>2. partitions[k].cohort = CohortAt(k)
            BY DEF Sorted
        <3>3. QED
            BY <3>1, <3>2 DEF Belongs, CohortAt, CohortOf
    <2>4. ASSUME NEW i \in 1..Len(builder.patterns)
          PROVE  Cardinality({ k \in 1..Len(partitions) : i \in PatternsOf(partitions[k]) }) = 1
        <3> DEFINE c == CohortOf(i)
                   K == { k \in 1..Len(partitions) : i \in PatternsOf(partitions[k]) }
        <3>1. c \in Cohort /\ (mixed <=> c # "all") /\ Belongs(i, c)
            BY <2>2 DEF CohortOf, Cohort, Belongs
        <3> HIDE DEF c
        <3>2. PICK j \in 1..Size(c) :
                 \A k \in 1..Len(partitions) :
                    partitions[k].cohort = c =>
                       (i \in PatternsOf(partitions[k])
                          <=> partitions[k].start < j /\ j <= partitions[k].end)
            BY <3>1, PatternsAre
        <3>3. PICK k \in 1..Len(partitions) :
                 /\ partitions[k].cohort = c /\ partitions[k].start < j /\ j <= partitions[k].end
                 /\ \A l \in 1..Len(partitions) :
                       /\ partitions[l].cohort = c
                       /\ partitions[l].start < j /\ j <= partitions[l].end
                       => l = k
            BY <3>1, OneSlice
        <3>4. k \in K
            BY <3>2, <3>3
        <3>5. ASSUME NEW l \in K PROVE l = k
            <4>1. l \in 1..Len(partitions) /\ i \in PatternsOf(partitions[l])
                OBVIOUS
            <4>2. partitions[l].cohort = c
                BY <2>3, <4>1 DEF c
            <4>3. QED
                BY <3>2, <3>3, <4>1, <4>2
        <3>6. K = {k}
            BY <3>4, <3>5
        <3>7. QED
            BY <3>6, FS_Singleton
    <2>5. ASSUME mixed, NEW k \in 1..Len(partitions),
                 NEW i \in PatternsOf(partitions[k]), NEW j \in PatternsOf(partitions[k])
          PROVE  builder.patterns[i] = builder.patterns[j]
        <3>1. /\ i \in 1..Len(builder.patterns) /\ j \in 1..Len(builder.patterns)
              /\ CohortOf(i) = CohortOf(j)
            BY <2>3
        <3>2. builder.patterns[i] \in BOOLEAN /\ builder.patterns[j] \in BOOLEAN
            BY <2>2, <3>1
        <3>3. QED
            BY <2>5, <3>1, <3>2 DEF CohortOf
    <2>6. QED
        BY <2>1, <2>4, <2>5 DEF EveryPatternOnce
<1>4. QED
    BY <1>2, <1>3, Invariant, PTL

-----------------------------------------------------------------------------
(* What a database reaches on an input, for the two-view matcher. *)

\* A closure from nothing marked has what its seeds reach.
LEMMA ClosureIsHull ==
    ASSUME NEW states, IsFiniteSet(states), NEW edges \in SUBSET (states \X states),
           NEW seeds \in SUBSET states
    PROVE  ExtendClosure(states, edges, seeds, {}) = Hull(states, edges, seeds)
<1> DEFINE grow[reached \in SUBSET states] ==
             LET more == { e[2] : e \in { f \in edges : /\ f[1] \in reached
                                                        /\ f[2] \notin reached
                                                        /\ f[2] \notin {} } }
             IN  IF more = {} THEN reached ELSE grow[reached \cup more]
           Raw(f) == [reached \in SUBSET states |->
             LET more == { e[2] : e \in { x \in edges : /\ x[1] \in reached
                                                        /\ x[2] \notin reached
                                                        /\ x[2] \notin {} } }
             IN  IF more = {} THEN reached ELSE f[reached \cup more]]
           Step(f) == [R \in SUBSET states |->
                         IF More(edges, R) = {} THEN R ELSE f[R \cup More(edges, R)]]
<1>1. ExtendClosure(states, edges, seeds, {}) = states \cap grow[seeds \ {}]
    BY Zenon DEF ExtendClosure
<1>2. grow = CHOOSE f : f = Step(f)
    <2>1. grow = CHOOSE f : f = Raw(f)
        BY Zenon
    <2>2. ASSUME NEW f PROVE Raw(f) = Step(f)
        <3>1. ASSUME NEW R
              PROVE  { e[2] : e \in { x \in edges : /\ x[1] \in R
                                                    /\ x[2] \notin R
                                                    /\ x[2] \notin {} } } = More(edges, R)
            BY DEF More
        <3>2. QED
            BY <3>1, Zenon
    <2> HIDE DEF grow, Raw, Step
    <2>3. QED
        BY <2>1, <2>2, Zenon
<1> HIDE DEF grow, Step
<1>3. grow[seeds] = Hull(states, edges, seeds)
    BY <1>2, GrownIsHull, Zenon DEF Step
<1>4. seeds \ {} = seeds
    OBVIOUS
<1>5. Hull(states, edges, seeds) \in SUBSET states
    BY HullFacts
<1>6. QED
    BY <1>1, <1>3, <1>4, <1>5


\* A database whose edges stay within its finitely many states.
WellFormed(db) ==
    /\ IsFiniteSet(db.state)
    /\ db.epsilon \subseteq db.state \X db.state
    /\ db.assertion \subseteq db.state \X Assertion \X db.state
    /\ db.consuming \subseteq db.state \X (SUBSET Symbol) \X db.state

Grid(db, text) == (0..Len(text)) \X db.state \X BOOLEAN

\* A set of configurations that no edge leads out of.
Kept(db, text, S) ==
    \A p \in 0..Len(text), c \in BOOLEAN :
        /\ \A e \in db.epsilon : << p, e[1], c >> \in S => << p, e[2], c >> \in S
        /\ \A e \in db.assertion :
              AssertionMatches(e[2], text, p, c) /\ << p, e[1], c >> \in S => << p, e[3], c >> \in S
        /\ \A e \in db.consuming :
              p < Len(text) /\ text[p + 1] \in e[2] /\ << p, e[1], c >> \in S
                  => << p + 1, e[3], TRUE >> \in S

\* One step, by its kind.
Follows(db, text, x) ==
    \E p \in 0..Len(text), c \in BOOLEAN : \E e \in db.epsilon :
        x = << << p, e[1], c >>, << p, e[2], c >> >>
Asserts(db, text, x) ==
    \E p \in 0..Len(text), c \in BOOLEAN : \E e \in db.assertion :
        /\ AssertionMatches(e[2], text, p, c)
        /\ x = << << p, e[1], c >>, << p, e[3], c >> >>
Reads(db, text, x) ==
    \E p \in 0..(Len(text) - 1), c \in BOOLEAN : \E e \in db.consuming :
        /\ text[p + 1] \in e[2]
        /\ x = << << p, e[1], c >>, << p + 1, e[3], TRUE >> >>

LEMMA StepsAre ==
    ASSUME NEW db, NEW text, NEW x
    PROVE  x \in ConfigurationStep(db, text) <=>
              Follows(db, text, x) \/ Asserts(db, text, x) \/ Reads(db, text, x)
<1> DEFINE eps == { << << p, e[1], c >>, << p, e[2], c >> >> :
                      p \in 0..Len(text), e \in db.epsilon, c \in BOOLEAN }
           asserting(p, c) == { << << p, e[1], c >>, << p, e[3], c >> >> :
                 e \in { a \in db.assertion : AssertionMatches(a[2], text, p, c) } }
           reading(p, c) == { << << p, e[1], c >>, << p + 1, e[3], TRUE >> >> :
                 e \in { f \in db.consuming : text[p + 1] \in f[2] } }
<1>1. ConfigurationStep(db, text)
        = eps \cup (UNION { asserting(p, c) : p \in 0..Len(text), c \in BOOLEAN })
              \cup (UNION { reading(p, c) : p \in 0..(Len(text) - 1), c \in BOOLEAN })
    BY DEF ConfigurationStep
<1>2. x \in eps <=> Follows(db, text, x)
    BY DEF Follows
<1>3. (\E p \in 0..Len(text), c \in BOOLEAN : x \in asserting(p, c)) <=> Asserts(db, text, x)
    <2>1. \A p, c : x \in asserting(p, c) <=> \E e \in db.assertion :
                        /\ AssertionMatches(e[2], text, p, c)
                        /\ x = << << p, e[1], c >>, << p, e[3], c >> >>
        OBVIOUS
    <2> HIDE DEF asserting
    <2>2. QED
        BY <2>1, Zenon DEF Asserts
<1>4. (\E p \in 0..(Len(text) - 1), c \in BOOLEAN : x \in reading(p, c)) <=> Reads(db, text, x)
    <2>1. \A p, c : x \in reading(p, c) <=> \E e \in db.consuming :
                        /\ text[p + 1] \in e[2]
                        /\ x = << << p, e[1], c >>, << p + 1, e[3], TRUE >> >>
        OBVIOUS
    <2> HIDE DEF reading
    <2>2. QED
        BY <2>1, Zenon DEF Reads
<1> HIDE DEF eps, asserting, reading
<1>5. x \in ConfigurationStep(db, text) <=>
         \/ x \in eps
         \/ \E p \in 0..Len(text), c \in BOOLEAN : x \in asserting(p, c)
         \/ \E p \in 0..(Len(text) - 1), c \in BOOLEAN : x \in reading(p, c)
    BY <1>1
<1>6. QED
    BY <1>2, <1>3, <1>4, <1>5, Zenon

LEMMA GridIsFinite ==
    ASSUME NEW db, WellFormed(db), NEW text, Len(text) \in Nat
    PROVE  IsFiniteSet(Grid(db, text))
<1>1. IsFiniteSet(0..Len(text))
    BY FS_Interval
<1>2. IsFiniteSet(BOOLEAN)
    <2>1. BOOLEAN = {TRUE} \cup {FALSE}
        BY Zenon
    <2>2. IsFiniteSet({TRUE}) /\ IsFiniteSet({FALSE})
        BY FS_Singleton
    <2>3. IsFiniteSet({TRUE} \cup {FALSE})
        BY <2>2, FS_Union
    <2>4. QED
        BY <2>1, <2>3
<1>3. QED
    BY <1>1, <1>2, TripleFinite DEF WellFormed, Grid

\* What a start reaches is the least set of configurations that holds it and is kept.
LEMMA ReachIs ==
    ASSUME NEW db, WellFormed(db), NEW text, Len(text) \in Nat,
           NEW root \in db.state, NEW s \in 0..Len(text)
    PROVE  /\ ReachableConfigurations(db, root, text, s) \subseteq Grid(db, text)
           /\ << s, root, FALSE >> \in ReachableConfigurations(db, root, text, s)
           /\ Kept(db, text, ReachableConfigurations(db, root, text, s))
           /\ \A S : << s, root, FALSE >> \in S /\ Kept(db, text, S)
                        => ReachableConfigurations(db, root, text, s) \subseteq S
<1> DEFINE grid == Grid(db, text)
           edges == ConfigurationStep(db, text)
           seeds == { << s, root, FALSE >> }
           R == ReachableConfigurations(db, root, text, s)
<1>1. R = ExtendClosure(grid, edges, seeds, {})
    BY Zenon DEF ReachableConfigurations, Grid
<1>2. edges \in SUBSET (grid \X grid)
    <2>1. ASSUME NEW x \in edges PROVE x \in grid \X grid
        <3>1. CASE Follows(db, text, x)
            BY <3>1 DEF WellFormed, Grid, Follows
        <3>2. CASE Asserts(db, text, x)
            BY <3>2 DEF WellFormed, Grid, Asserts
        <3>3. CASE Reads(db, text, x)
            <4>1. PICK p \in 0..(Len(text) - 1), c \in BOOLEAN, e \in db.consuming :
                      x = << << p, e[1], c >>, << p + 1, e[3], TRUE >> >>
                BY <3>3, Zenon DEF Reads
            <4>2. p \in 0..Len(text) /\ p + 1 \in 0..Len(text)
                OBVIOUS
            <4>3. e[1] \in db.state /\ e[3] \in db.state
                BY DEF WellFormed
            <4>4. << p, e[1], c >> \in grid /\ << p + 1, e[3], TRUE >> \in grid
                BY <4>2, <4>3 DEF Grid
            <4>5. QED
                BY <4>1, <4>4
        <3>4. Follows(db, text, x) \/ Asserts(db, text, x) \/ Reads(db, text, x)
            BY StepsAre, Zenon
        <3>5. QED
            BY <3>1, <3>2, <3>3, <3>4
    <2> HIDE DEF edges, grid
    <2>2. QED
        BY <2>1
<1>3. seeds \in SUBSET grid /\ IsFiniteSet(grid)
    <2>1. << s, root, FALSE >> \in grid
        BY DEF Grid
    <2>2. IsFiniteSet(grid)
        BY GridIsFinite
    <2> HIDE DEF grid
    <2>3. QED
        BY <2>1, <2>2
<1> HIDE DEF grid, edges, seeds
<1>4. R = Hull(grid, edges, seeds)
    BY <1>1, <1>2, <1>3, ClosureIsHull
<1> HIDE DEF R
<1>5. /\ R \in SUBSET grid /\ seeds \subseteq R
      /\ \A x \in edges : x[1] \in R /\ x[2] \in grid => x[2] \in R
    BY <1>3, <1>4, HullFacts
<1>6. \A a, b : << a, b >> \in edges /\ a \in R => b \in R
    BY <1>2, <1>5
<1>7. Kept(db, text, R)
    <2> SUFFICES ASSUME NEW p \in 0..Len(text), NEW c \in BOOLEAN
                 PROVE  /\ \A e \in db.epsilon : << p, e[1], c >> \in R => << p, e[2], c >> \in R
                        /\ \A e \in db.assertion :
                              AssertionMatches(e[2], text, p, c) /\ << p, e[1], c >> \in R
                                  => << p, e[3], c >> \in R
                        /\ \A e \in db.consuming :
                              p < Len(text) /\ text[p + 1] \in e[2] /\ << p, e[1], c >> \in R
                                  => << p + 1, e[3], TRUE >> \in R
        BY Zenon DEF Kept
    <2>1. \A e \in db.epsilon : << << p, e[1], c >>, << p, e[2], c >> >> \in edges
        BY StepsAre, Zenon DEF edges, Follows
    <2>2. \A e \in db.assertion : AssertionMatches(e[2], text, p, c)
             => << << p, e[1], c >>, << p, e[3], c >> >> \in edges
        BY StepsAre, Zenon DEF edges, Asserts
    <2>3. ASSUME p < Len(text) PROVE \A e \in db.consuming : text[p + 1] \in e[2]
             => << << p, e[1], c >>, << p + 1, e[3], TRUE >> >> \in edges
        <3>1. p \in 0..(Len(text) - 1)
            BY <2>3
        <3>2. QED
            BY <3>1, StepsAre, Zenon DEF edges, Reads
    <2>4. QED
        BY <1>6, <2>1, <2>2, <2>3, Zenon
<1>8. ASSUME NEW S, << s, root, FALSE >> \in S, Kept(db, text, S)
      PROVE  R \subseteq S
    <2> DEFINE T == S \cap grid
    <2>1. seeds \subseteq T
        BY <1>3, <1>8 DEF seeds
    <2>2. ASSUME NEW x \in edges, x[1] \in S PROVE x[2] \in S
        <3>1. CASE Follows(db, text, x)
            <4>1. PICK p \in 0..Len(text), c \in BOOLEAN, e \in db.epsilon :
                      x = << << p, e[1], c >>, << p, e[2], c >> >>
                BY <3>1, Zenon DEF Follows
            <4>2. << p, e[1], c >> \in S
                BY <2>2, <4>1
            <4>3. << p, e[2], c >> \in S
                BY <1>8, <4>2, Zenon DEF Kept
            <4>4. QED
                BY <4>1, <4>3
        <3>2. CASE Asserts(db, text, x)
            <4>1. PICK p \in 0..Len(text), c \in BOOLEAN, e \in db.assertion :
                      /\ AssertionMatches(e[2], text, p, c)
                      /\ x = << << p, e[1], c >>, << p, e[3], c >> >>
                BY <3>2, Zenon DEF Asserts
            <4>2. << p, e[1], c >> \in S
                BY <2>2, <4>1
            <4>3. << p, e[3], c >> \in S
                BY <1>8, <4>1, <4>2, Zenon DEF Kept
            <4>4. QED
                BY <4>1, <4>3
        <3>3. CASE Reads(db, text, x)
            <4>1. PICK p \in 0..(Len(text) - 1), c \in BOOLEAN, e \in db.consuming :
                      /\ text[p + 1] \in e[2]
                      /\ x = << << p, e[1], c >>, << p + 1, e[3], TRUE >> >>
                BY <3>3, Zenon DEF Reads
            <4>2. p \in 0..Len(text) /\ p < Len(text)
                OBVIOUS
            <4>3. << p, e[1], c >> \in S
                BY <2>2, <4>1
            <4>4. << p + 1, e[3], TRUE >> \in S
                BY <1>8, <4>1, <4>2, <4>3, Zenon DEF Kept
            <4>5. QED
                BY <4>1, <4>4
        <3>4. Follows(db, text, x) \/ Asserts(db, text, x) \/ Reads(db, text, x)
            BY StepsAre, Zenon DEF edges
        <3>5. QED
            BY <3>1, <3>2, <3>3, <3>4
    <2>3. Closed(edges, T)
        BY <1>2, <2>2 DEF Closed
    <2>4. T \in SUBSET grid
        OBVIOUS
    <2>5. R \subseteq T
        <3> HIDE DEF T
        <3>1. QED
            BY <1>4, <2>1, <2>3, <2>4, HullWithin
    <2>6. QED
        BY <2>5
<1>9. QED
    BY <1>5, <1>7, <1>8 DEF R, grid, seeds

-----------------------------------------------------------------------------
(* Putting a fragment behind the states of a compilation. *)

\* A compilation: nothing leads back to a root, and no root accepts.
CompilationOf(B, roots) ==
    LET states == 0..(B.graph.size - 1)
        inner == roots..(B.graph.size - 1)
    IN  /\ B.graph.size \in Nat /\ B.graph.size >= roots
        /\ B.graph.epsilon \subseteq states \X inner
        /\ B.graph.assertion \subseteq states \X Assertion \X inner
        /\ B.graph.consuming \subseteq states \X (SUBSET Symbol) \X inner
        /\ DOMAIN B.terminals \subseteq inner

LEMMA EmptyIsCompilation ==
    ASSUME NEW roots \in Nat
    PROVE  CompilationOf(EmptyCompilation(roots), roots)
BY DEF CompilationOf, EmptyCompilation, EmptyGraph

LEMMA FragmentIsCompilation ==
    ASSUME NEW f, IsFragment(f)
    PROVE  CompilationOf(f, 1)
<1> DEFINE inner == 1..(f.graph.size - 1)
           states == 0..(f.graph.size - 1)
<1>1. f.graph.size \in Nat /\ f.graph.size >= 3
    BY DEF IsFragment
<1>2. f.graph.epsilon \subseteq states \X inner
    <2>1. ASSUME NEW e \in f.graph.epsilon PROVE e \in states \X inner
        <3>1. CASE e = << 0, 1 >>
            BY <1>1, <3>1
        <3>2. CASE e # << 0, 1 >>
            BY <1>1, <3>2 DEF IsFragment
        <3>3. QED
            BY <3>1, <3>2
    <2>2. QED
        BY <2>1
<1>3. /\ f.graph.assertion \subseteq inner \X Assertion \X inner
      /\ f.graph.consuming \subseteq inner \X (SUBSET Symbol) \X inner
    BY DEF IsFragment
<1>4. inner \subseteq states
    OBVIOUS
<1>5. /\ f.graph.assertion \subseteq states \X Assertion \X inner
      /\ f.graph.consuming \subseteq states \X (SUBSET Symbol) \X inner
    <2> HIDE DEF states, inner
    <2>1. QED
        BY <1>3, <1>4
<1>6. DOMAIN f.terminals = {2}
    BY DEF IsFragment
<1>7. DOMAIN f.terminals \subseteq inner
    BY <1>1, <1>6
<1>8. QED
    BY <1>1, <1>2, <1>5, <1>7 DEF CompilationOf

LEMMA FrozenIsWellFormed ==
    ASSUME NEW B, NEW roots \in Nat, CompilationOf(B, roots)
    PROVE  /\ WellFormed(Freeze(B))
           /\ Freeze(B).state = 0..(B.graph.size - 1)
           /\ Freeze(B).epsilon = B.graph.epsilon
           /\ Freeze(B).assertion = B.graph.assertion
           /\ Freeze(B).consuming = B.graph.consuming
<1>1. /\ Freeze(B).state = 0..(B.graph.size - 1)
      /\ Freeze(B).epsilon = B.graph.epsilon
      /\ Freeze(B).assertion = B.graph.assertion
      /\ Freeze(B).consuming = B.graph.consuming
    BY DEF Freeze
<1>2. roots..(B.graph.size - 1) \subseteq 0..(B.graph.size - 1)
    BY DEF CompilationOf
<1>3. IsFiniteSet(0..(B.graph.size - 1))
    BY FS_Interval DEF CompilationOf
<1>4. B.graph.epsilon \subseteq (0..(B.graph.size - 1)) \X (0..(B.graph.size - 1))
    BY <1>2 DEF CompilationOf
<1>5. B.graph.assertion \subseteq (0..(B.graph.size - 1)) \X Assertion \X (0..(B.graph.size - 1))
    BY <1>2 DEF CompilationOf
<1>6. B.graph.consuming
        \subseteq (0..(B.graph.size - 1)) \X (SUBSET Symbol) \X (0..(B.graph.size - 1))
    BY <1>2 DEF CompilationOf
<1>7. QED
    BY <1>1, <1>3, <1>4, <1>5, <1>6 DEF WellFormed

\* What the fields of the larger compilation are.
HasFields(P, B, f, n, root) ==
    LET at(q) == PlaceOf(q, B.graph.size, root)
    IN  /\ P.graph.size = (B.graph.size + f.graph.size) - 1
        /\ P.graph.epsilon
              = B.graph.epsilon \cup { << at(e[1]), at(e[2]) >> : e \in f.graph.epsilon }
        /\ P.graph.assertion
              = B.graph.assertion \cup { << at(e[1]), e[2], at(e[3]) >> : e \in f.graph.assertion }
        /\ P.graph.consuming
              = B.graph.consuming \cup { << at(e[1]), e[2], at(e[3]) >> : e \in f.graph.consuming }
        /\ DOMAIN P.terminals = DOMAIN B.terminals \cup { at(2) }
        /\ \A q \in DOMAIN P.terminals :
              P.terminals[q] = IF q = at(2) THEN {n} ELSE B.terminals[q]

LEMMA PlacedFields ==
    ASSUME NEW B, NEW f, NEW n, NEW root
    PROVE  HasFields(Placed(B, f, n, root), B, f, n, root)
BY DEF Placed, HasFields

LEMMA PlacedIsCompilation ==
    ASSUME NEW B, NEW roots \in Nat, NEW n, CompilationOf(B, roots),
           NEW f, IsFragment(f), NEW root \in 0..(roots - 1)
    PROVE  CompilationOf(Placed(B, f, n, root), roots)
<1> DEFINE P == Placed(B, f, n, root)
           size == B.graph.size
           at(q) == PlaceOf(q, size, root)
           states == 0..(P.graph.size - 1)
           inner == roots..(P.graph.size - 1)
<1>0. HasFields(P, B, f, n, root)
    BY PlacedFields
<1>1. /\ size \in Nat /\ size >= roots /\ root \in 0..(size - 1)
      /\ f.graph.size \in Nat /\ f.graph.size >= 3
    BY DEF CompilationOf, IsFragment
<1>2. P.graph.size = (size + f.graph.size) - 1
    BY <1>0 DEF HasFields
<1>3. P.graph.size \in Nat /\ P.graph.size >= roots
    BY <1>1, <1>2
<1>4. 0..(size - 1) \subseteq states /\ roots..(size - 1) \subseteq inner
    BY <1>1, <1>2
<1>5. \A q \in 0..(f.graph.size - 1) : at(q) \in states
    BY <1>1, <1>2 DEF PlaceOf
<1>6. \A q \in 1..(f.graph.size - 1) : at(q) \in inner
    BY <1>1, <1>2 DEF PlaceOf
<1>7. CompilationOf(f, 1)
    BY FragmentIsCompilation
<1>8. P.graph.epsilon \subseteq states \X inner
    <2>1. B.graph.epsilon \subseteq states \X inner
        BY <1>4 DEF CompilationOf
    <2>2. ASSUME NEW e \in f.graph.epsilon PROVE << at(e[1]), at(e[2]) >> \in states \X inner
        BY <1>5, <1>6, <1>7 DEF CompilationOf
    <2>3. P.graph.epsilon = B.graph.epsilon \cup { << at(e[1]), at(e[2]) >> : e \in f.graph.epsilon }
        BY <1>0 DEF HasFields
    <2> HIDE DEF at, states, inner, P
    <2>4. QED
        BY <2>1, <2>2, <2>3
<1>9. P.graph.assertion \subseteq states \X Assertion \X inner
    <2>1. B.graph.assertion \subseteq states \X Assertion \X inner
        BY <1>4 DEF CompilationOf
    <2>2. ASSUME NEW e \in f.graph.assertion
          PROVE  << at(e[1]), e[2], at(e[3]) >> \in states \X Assertion \X inner
        BY <1>5, <1>6, <1>7 DEF CompilationOf
    <2>3. P.graph.assertion
            = B.graph.assertion \cup { << at(e[1]), e[2], at(e[3]) >> : e \in f.graph.assertion }
        BY <1>0 DEF HasFields
    <2> HIDE DEF at, states, inner, P
    <2>4. QED
        BY <2>1, <2>2, <2>3
<1>10. P.graph.consuming \subseteq states \X (SUBSET Symbol) \X inner
    <2>1. B.graph.consuming \subseteq states \X (SUBSET Symbol) \X inner
        BY <1>4 DEF CompilationOf
    <2>2. ASSUME NEW e \in f.graph.consuming
          PROVE  << at(e[1]), e[2], at(e[3]) >> \in states \X (SUBSET Symbol) \X inner
        BY <1>5, <1>6, <1>7 DEF CompilationOf
    <2>3. P.graph.consuming
            = B.graph.consuming \cup { << at(e[1]), e[2], at(e[3]) >> : e \in f.graph.consuming }
        BY <1>0 DEF HasFields
    <2> HIDE DEF at, states, inner, P
    <2>4. QED
        BY <2>1, <2>2, <2>3
<1>11. DOMAIN P.terminals \subseteq inner
    <2>1. DOMAIN B.terminals \subseteq inner
        BY <1>4 DEF CompilationOf
    <2>2. at(2) \in inner
        BY <1>1, <1>6
    <2>3. DOMAIN P.terminals = DOMAIN B.terminals \cup { at(2) }
        BY <1>0 DEF HasFields
    <2> HIDE DEF at, inner, P
    <2>4. QED
        BY <2>1, <2>2, <2>3
<1> HIDE DEF P
<1>12. QED
    BY <1>3, <1>8, <1>9, <1>10, <1>11 DEF CompilationOf, P

-----------------------------------------------------------------------------
(* What the larger compilation reaches. *)

\* ReachIs for a compilation, edge by edge.
Reach(B, r, text, s) == ReachableConfigurations(Freeze(B), r, text, s)

KeptBy(B, text, S) ==
    \A p \in 0..Len(text), c \in BOOLEAN :
        /\ \A e \in B.graph.epsilon : << p, e[1], c >> \in S => << p, e[2], c >> \in S
        /\ \A e \in B.graph.assertion :
              AssertionMatches(e[2], text, p, c) /\ << p, e[1], c >> \in S => << p, e[3], c >> \in S
        /\ \A e \in B.graph.consuming :
              p < Len(text) /\ text[p + 1] \in e[2] /\ << p, e[1], c >> \in S
                  => << p + 1, e[3], TRUE >> \in S

\* The least set with the start that is kept.
LeastKept(B, text, r, s, R) ==
    /\ R \subseteq (0..Len(text)) \X (0..(B.graph.size - 1)) \X BOOLEAN
    /\ << s, r, FALSE >> \in R
    /\ KeptBy(B, text, R)
    /\ \A S : << s, r, FALSE >> \in S /\ KeptBy(B, text, S) => R \subseteq S

LEMMA CompilationReach ==
    ASSUME NEW B, NEW roots \in Nat, CompilationOf(B, roots),
           NEW text, Len(text) \in Nat, NEW r \in 0..(roots - 1), NEW s \in 0..Len(text)
    PROVE  LeastKept(B, text, r, s, Reach(B, r, text, s))
<1> DEFINE db == Freeze(B)
<1>1. /\ WellFormed(db)
      /\ db.state = 0..(B.graph.size - 1)
      /\ db.epsilon = B.graph.epsilon
      /\ db.assertion = B.graph.assertion
      /\ db.consuming = B.graph.consuming
    BY FrozenIsWellFormed
<1>2. r \in db.state
    BY <1>1 DEF CompilationOf
<1> HIDE DEF db
<1>3. \A S : Kept(db, text, S) <=> KeptBy(B, text, S)
    <2> SUFFICES ASSUME NEW S PROVE Kept(db, text, S) <=> KeptBy(B, text, S)
        BY Zenon
    <2>1. QED
        BY ONLY <1>1 DEF Kept, KeptBy
<1>4. /\ ReachableConfigurations(db, r, text, s) \subseteq Grid(db, text)
      /\ << s, r, FALSE >> \in ReachableConfigurations(db, r, text, s)
      /\ Kept(db, text, ReachableConfigurations(db, r, text, s))
      /\ \A S : << s, r, FALSE >> \in S /\ Kept(db, text, S)
                   => ReachableConfigurations(db, r, text, s) \subseteq S
    BY <1>1, <1>2, ReachIs
<1>5. Reach(B, r, text, s) = ReachableConfigurations(db, r, text, s)
    BY DEF Reach, db
<1>6. QED
    BY <1>1, <1>3, <1>4, <1>5, Zenon DEF Grid, LeastKept

\* A root is met only where a scan starts.
EnteredAt(R, roots, r, s) ==
    \A p, c : \A q \in 0..(roots - 1) : << p, q, c >> \in R => p = s /\ q = r /\ c = FALSE

LEMMA RootsAreOnlyEntered ==
    ASSUME NEW B, NEW roots \in Nat, CompilationOf(B, roots),
           NEW text, Len(text) \in Nat, NEW r \in 0..(roots - 1), NEW s \in 0..Len(text)
    PROVE  EnteredAt(Reach(B, r, text, s), roots, r, s)
<1> SUFFICES ASSUME NEW p, NEW c, NEW q \in 0..(roots - 1), << p, q, c >> \in Reach(B, r, text, s)
             PROVE  p = s /\ q = r /\ c = FALSE
    BY Zenon DEF EnteredAt
<1> DEFINE inner == roots..(B.graph.size - 1)
           S == { << s, r, FALSE >> } \cup ((0..Len(text)) \X inner \X BOOLEAN)
<1>1. KeptBy(B, text, S)
    <2> SUFFICES ASSUME NEW i \in 0..Len(text), NEW d \in BOOLEAN
                 PROVE  /\ \A e \in B.graph.epsilon : << i, e[2], d >> \in S
                        /\ \A e \in B.graph.assertion : << i, e[3], d >> \in S
                        /\ \A e \in B.graph.consuming : i < Len(text) => << i + 1, e[3], TRUE >> \in S
        BY Zenon DEF KeptBy
    <2>1. /\ \A e \in B.graph.epsilon : e[2] \in inner
          /\ \A e \in B.graph.assertion : e[3] \in inner
          /\ \A e \in B.graph.consuming : e[3] \in inner
        BY DEF CompilationOf
    <2>2. i < Len(text) => i + 1 \in 0..Len(text)
        OBVIOUS
    <2>3. TRUE \in BOOLEAN
        OBVIOUS
    <2> HIDE DEF inner
    <2>4. QED
        BY <2>1, <2>2, <2>3
<1>2. << p, q, c >> \in S
    <2>1. << s, r, FALSE >> \in S
        OBVIOUS
    <2> HIDE DEF S
    <2>2. QED
        BY <1>1, <2>1, CompilationReach, Zenon DEF LeastKept
<1>3. q \notin inner
    OBVIOUS
<1> HIDE DEF inner
<1>4. QED
    BY <1>2, <1>3

Lift(x, size, root) == << x[1], PlaceOf(x[2], size, root), x[3] >>

JoinedReach(RB, RF, size, root, r) == RB \cup { y \in { Lift(x, size, root) : x \in RF } : r = root }

LEMMA PlacedReach ==
    ASSUME NEW B, NEW roots \in Nat, NEW n, CompilationOf(B, roots),
           NEW f, IsFragment(f), NEW root \in 0..(roots - 1),
           NEW text, Len(text) \in Nat, NEW r \in 0..(roots - 1), NEW s \in 0..Len(text)
    PROVE  Reach(Placed(B, f, n, root), r, text, s)
             = JoinedReach(Reach(B, r, text, s), Reach(f, 0, text, s), B.graph.size, root, r)
<1> DEFINE P == Placed(B, f, n, root)
           size == B.graph.size
           at(q) == PlaceOf(q, size, root)
           RB == Reach(B, r, text, s)
           RF == Reach(f, 0, text, s)
           RP == Reach(P, r, text, s)
           U == RB \cup { y \in { Lift(x, size, root) : x \in RF } : r = root }
<1>1. HasFields(P, B, f, n, root)
    BY PlacedFields
<1>2. CompilationOf(P, roots) /\ CompilationOf(f, 1)
    BY PlacedIsCompilation, FragmentIsCompilation
<1>3. /\ size \in Nat /\ size >= roots /\ root \in 0..(size - 1) /\ f.graph.size \in Nat
    BY DEF CompilationOf, IsFragment
<1> HIDE DEF P
<1>4. /\ RB \subseteq (0..Len(text)) \X (0..(size - 1)) \X BOOLEAN
      /\ << s, r, FALSE >> \in RB
      /\ KeptBy(B, text, RB)
      /\ \A S : << s, r, FALSE >> \in S /\ KeptBy(B, text, S) => RB \subseteq S
    <2>1. LeastKept(B, text, r, s, RB)
        BY CompilationReach
    <2>2. QED
        BY <2>1, Zenon DEF LeastKept
<1>5. /\ RF \subseteq (0..Len(text)) \X (0..(f.graph.size - 1)) \X BOOLEAN
      /\ << s, 0, FALSE >> \in RF
      /\ KeptBy(f, text, RF)
      /\ \A S : << s, 0, FALSE >> \in S /\ KeptBy(f, text, S) => RF \subseteq S
    <2>1. LeastKept(f, text, 0, s, RF)
        BY <1>2, CompilationReach
    <2>2. QED
        BY <2>1, Zenon DEF LeastKept
<1>6. /\ << s, r, FALSE >> \in RP
      /\ KeptBy(P, text, RP)
      /\ \A S : << s, r, FALSE >> \in S /\ KeptBy(P, text, S) => RP \subseteq S
    <2>1. LeastKept(P, text, r, s, RP)
        BY <1>2, CompilationReach
    <2>2. QED
        BY <2>1, Zenon DEF LeastKept
<1>7. EnteredAt(RB, roots, r, s)
    BY RootsAreOnlyEntered
<1>8. EnteredAt(RF, 1, 0, s)
    BY <1>2, RootsAreOnlyEntered
<1>9. /\ at(0) = root
      /\ \A q \in Nat \ {0} : at(q) >= size
      /\ \A p, q \in Nat : at(p) = at(q) => p = q
    <2> HIDE DEF size
    <2>1. at(0) = root
        BY DEF PlaceOf
    <2>2. \A q \in Nat \ {0} : at(q) = (size + q) - 1
        BY DEF PlaceOf
    <2> HIDE DEF at
    <2>3. size \in Nat /\ root \in 0..(size - 1)
        BY <1>3
    <2>4. \A q \in Nat \ {0} : at(q) >= size
        BY <2>2, <2>3
    <2>5. ASSUME NEW p \in Nat, NEW q \in Nat, at(p) = at(q) PROVE p = q
        <3>1. CASE p = 0 \/ q = 0
            BY <2>1, <2>3, <2>4, <2>5, <3>1
        <3>2. CASE p # 0 /\ q # 0
            BY <2>2, <2>3, <2>5, <3>2
        <3>3. QED
            BY <3>1, <3>2
    <2>6. QED
        BY <2>1, <2>4, <2>5
<1> HIDE DEF RB, RF, RP, at
\* An old state of the union is one of the smaller compilation's, a placed one the fragment's.
<1>10. ASSUME NEW p, NEW q \in 0..(size - 1), NEW c, << p, q, c >> \in U
       PROVE  << p, q, c >> \in RB
    <2> SUFFICES ASSUME << p, q, c >> \notin RB PROVE FALSE
        OBVIOUS
    <2>1. PICK x \in RF : << p, q, c >> = Lift(x, size, root) /\ r = root
        BY <1>10
    <2>2. p = x[1] /\ q = at(x[2]) /\ c = x[3]
        BY <2>1 DEF Lift, at
    <2>3. x = << x[1], x[2], x[3] >> /\ x[2] \in Nat
        BY <1>3, <1>5
    <2>4. x[2] = 0
        BY <1>3, <1>9, <2>2, <2>3
    <2>5. x[1] = s /\ x[3] = FALSE
        BY <1>8, <2>3, <2>4 DEF EnteredAt
    <2>6. QED
        BY <1>4, <1>9, <2>1, <2>2, <2>4, <2>5
<1>11. ASSUME NEW p, NEW q \in 0..(f.graph.size - 1), NEW c, << p, at(q), c >> \in U
       PROVE  << p, q, c >> \in RF /\ r = root
    <2>1. CASE << p, at(q), c >> \in RB
        <3>1. at(q) \in 0..(size - 1)
            BY <1>4, <2>1
        <3>2. q = 0
            BY <1>3, <1>9, <3>1
        <3>3. p = s /\ root = r /\ c = FALSE
            BY <1>7, <1>9, <2>1, <3>2 DEF EnteredAt
        <3>4. QED
            BY <1>5, <3>2, <3>3
    <2>2. CASE << p, at(q), c >> \notin RB
        <3>1. PICK x \in RF : << p, at(q), c >> = Lift(x, size, root) /\ r = root
            BY <1>11, <2>2
        <3>2. p = x[1] /\ at(q) = at(x[2]) /\ c = x[3]
            BY <3>1 DEF Lift, at
        <3>3. x = << x[1], x[2], x[3] >> /\ x[2] \in Nat
            BY <1>3, <1>5
        <3>4. x[2] = q
            BY <1>3, <1>9, <3>2, <3>3
        <3>5. QED
            BY <3>1, <3>2, <3>3, <3>4
    <2>3. QED
        BY <2>1, <2>2
<1>12. ASSUME NEW p, NEW q, NEW c, << p, q, c >> \in RF, r = root
       PROVE  << p, at(q), c >> \in U
    <2>1. Lift(<< p, q, c >>, size, root) = << p, at(q), c >>
        BY DEF Lift, at
    <2>2. QED
        BY <1>12, <2>1
<1>13. ASSUME NEW x \in RB PROVE x \in U
    OBVIOUS
<1> HIDE DEF U
<1>14. KeptBy(P, text, U)
    <2> SUFFICES ASSUME NEW p \in 0..Len(text), NEW c \in BOOLEAN
                 PROVE  /\ \A e \in P.graph.epsilon : << p, e[1], c >> \in U => << p, e[2], c >> \in U
                        /\ \A e \in P.graph.assertion :
                              AssertionMatches(e[2], text, p, c) /\ << p, e[1], c >> \in U
                                  => << p, e[3], c >> \in U
                        /\ \A e \in P.graph.consuming :
                              p < Len(text) /\ text[p + 1] \in e[2] /\ << p, e[1], c >> \in U
                                  => << p + 1, e[3], TRUE >> \in U
        BY Zenon DEF KeptBy
    <2>1. ASSUME NEW e \in P.graph.epsilon, << p, e[1], c >> \in U PROVE << p, e[2], c >> \in U
        <3>1. CASE e \in B.graph.epsilon
            <4>1. e[1] \in 0..(size - 1)
                BY <3>1 DEF CompilationOf
            <4>2. << p, e[1], c >> \in RB
                BY <1>10, <2>1, <4>1
            <4>3. << p, e[2], c >> \in RB
                BY <1>4, <3>1, <4>2, Zenon DEF KeptBy
            <4>4. QED
                BY <1>13, <4>3
        <3>2. CASE e \notin B.graph.epsilon
            <4>1. PICK d \in f.graph.epsilon : e = << at(d[1]), at(d[2]) >>
                BY <1>1, <3>2 DEF HasFields, at
            <4>2. d[1] \in 0..(f.graph.size - 1)
                BY <1>2 DEF CompilationOf
            <4>3. << p, d[1], c >> \in RF /\ r = root
                BY <1>11, <2>1, <4>1, <4>2
            <4>4. << p, d[2], c >> \in RF
                BY <1>5, <4>3, Zenon DEF KeptBy
            <4>5. << p, at(d[2]), c >> \in U
                BY <1>12, <4>3, <4>4
            <4>6. QED
                BY <4>1, <4>5
        <3>3. QED
            BY <3>1, <3>2
    <2>2. ASSUME NEW e \in P.graph.assertion, AssertionMatches(e[2], text, p, c), << p, e[1], c >> \in U
          PROVE  << p, e[3], c >> \in U
        <3>1. CASE e \in B.graph.assertion
            <4>1. e[1] \in 0..(size - 1)
                BY <3>1 DEF CompilationOf
            <4>2. << p, e[1], c >> \in RB
                BY <1>10, <2>2, <4>1
            <4>3. << p, e[3], c >> \in RB
                BY <1>4, <2>2, <3>1, <4>2, Zenon DEF KeptBy
            <4>4. QED
                BY <1>13, <4>3
        <3>2. CASE e \notin B.graph.assertion
            <4>1. PICK d \in f.graph.assertion : e = << at(d[1]), d[2], at(d[3]) >>
                BY <1>1, <3>2 DEF HasFields, at
            <4>2. d[1] \in 0..(f.graph.size - 1)
                BY <1>2 DEF CompilationOf
            <4>3. << p, d[1], c >> \in RF /\ r = root
                BY <1>11, <2>2, <4>1, <4>2
            <4>4. AssertionMatches(d[2], text, p, c)
                BY <2>2, <4>1
            <4>5. << p, d[3], c >> \in RF
                BY <1>5, <4>3, <4>4, Zenon DEF KeptBy
            <4>6. << p, at(d[3]), c >> \in U
                BY <1>12, <4>3, <4>5
            <4>7. QED
                BY <4>1, <4>6
        <3>3. QED
            BY <3>1, <3>2
    <2>3. ASSUME NEW e \in P.graph.consuming, p < Len(text), text[p + 1] \in e[2], << p, e[1], c >> \in U
          PROVE  << p + 1, e[3], TRUE >> \in U
        <3>1. CASE e \in B.graph.consuming
            <4>1. e[1] \in 0..(size - 1)
                BY <3>1 DEF CompilationOf
            <4>2. << p, e[1], c >> \in RB
                BY <1>10, <2>3, <4>1
            <4>3. << p + 1, e[3], TRUE >> \in RB
                BY <1>4, <2>3, <3>1, <4>2, Zenon DEF KeptBy
            <4>4. QED
                BY <1>13, <4>3
        <3>2. CASE e \notin B.graph.consuming
            <4>1. PICK d \in f.graph.consuming : e = << at(d[1]), d[2], at(d[3]) >>
                BY <1>1, <3>2 DEF HasFields, at
            <4>2. d[1] \in 0..(f.graph.size - 1)
                BY <1>2 DEF CompilationOf
            <4>3. << p, d[1], c >> \in RF /\ r = root
                BY <1>11, <2>3, <4>1, <4>2
            <4>4. text[p + 1] \in d[2]
                BY <2>3, <4>1
            <4>5. << p + 1, d[3], TRUE >> \in RF
                BY <1>5, <2>3, <4>3, <4>4, Zenon DEF KeptBy
            <4>6. << p + 1, at(d[3]), TRUE >> \in U
                BY <1>12, <4>3, <4>5
            <4>7. QED
                BY <4>1, <4>6
        <3>3. QED
            BY <3>1, <3>2
    <2>4. QED
        BY <2>1, <2>2, <2>3, Zenon
<1>15. RP \subseteq U
    BY <1>4, <1>6, <1>13, <1>14
\* The larger compilation has the edges of the smaller one, and the fragment's.
<1>16. RB \subseteq RP
    <2>1. /\ B.graph.epsilon \subseteq P.graph.epsilon
          /\ B.graph.assertion \subseteq P.graph.assertion
          /\ B.graph.consuming \subseteq P.graph.consuming
        BY <1>1 DEF HasFields
    <2>2. KeptBy(B, text, RP)
        BY <1>6, <2>1, Zenon DEF KeptBy
    <2>3. QED
        BY <1>4, <1>6, <2>2
<1>17. ASSUME r = root PROVE \A x \in RF : Lift(x, size, root) \in RP
    <2> DEFINE S == { x \in (0..Len(text)) \X (0..(f.graph.size - 1)) \X BOOLEAN :
                        << x[1], at(x[2]), x[3] >> \in RP }
    <2>1. << s, 0, FALSE >> \in S
        <3>1. << s, 0, FALSE >> \in (0..Len(text)) \X (0..(f.graph.size - 1)) \X BOOLEAN
            BY <1>5
        <3>2. QED
            BY <1>6, <1>9, <1>17, <3>1
    <2>2. KeptBy(f, text, S)
        <3> SUFFICES ASSUME NEW p \in 0..Len(text), NEW c \in BOOLEAN
                     PROVE  /\ \A e \in f.graph.epsilon : << p, e[1], c >> \in S => << p, e[2], c >> \in S
                            /\ \A e \in f.graph.assertion :
                                  AssertionMatches(e[2], text, p, c) /\ << p, e[1], c >> \in S
                                      => << p, e[3], c >> \in S
                            /\ \A e \in f.graph.consuming :
                                  p < Len(text) /\ text[p + 1] \in e[2] /\ << p, e[1], c >> \in S
                                      => << p + 1, e[3], TRUE >> \in S
            BY Zenon DEF KeptBy
        <3>0. \A i, q, d : << i, q, d >> \in S <=>
                 /\ i \in 0..Len(text) /\ q \in 0..(f.graph.size - 1) /\ d \in BOOLEAN
                 /\ << i, at(q), d >> \in RP
            OBVIOUS
        <3> HIDE DEF S
        <3>1. ASSUME NEW e \in f.graph.epsilon, << p, e[1], c >> \in S PROVE << p, e[2], c >> \in S
            <4>1. << at(e[1]), at(e[2]) >> \in P.graph.epsilon
                BY <1>1 DEF HasFields, at
            <4>2. << p, << at(e[1]), at(e[2]) >>[1], c >> \in RP
                BY <3>0, <3>1
            <4>3. << p, << at(e[1]), at(e[2]) >>[2], c >> \in RP
                BY <1>6, <4>1, <4>2, Zenon DEF KeptBy
            <4>4. e[2] \in 0..(f.graph.size - 1)
                BY <1>2 DEF CompilationOf
            <4>5. QED
                BY <3>0, <4>3, <4>4
        <3>2. ASSUME NEW e \in f.graph.assertion, AssertionMatches(e[2], text, p, c), << p, e[1], c >> \in S
              PROVE  << p, e[3], c >> \in S
            <4> DEFINE g == << at(e[1]), e[2], at(e[3]) >>
            <4>1. g \in P.graph.assertion
                BY <1>1 DEF HasFields, at
            <4>2. << p, g[1], c >> \in RP /\ AssertionMatches(g[2], text, p, c)
                BY <3>0, <3>2
            <4>3. g[3] = at(e[3])
                OBVIOUS
            <4> HIDE DEF g
            <4>4. << p, g[3], c >> \in RP
                BY <1>6, <4>1, <4>2, Zenon DEF KeptBy
            <4>5. e[3] \in 0..(f.graph.size - 1)
                BY <1>2 DEF CompilationOf
            <4>6. QED
                BY <3>0, <4>3, <4>4, <4>5
        <3>3. ASSUME NEW e \in f.graph.consuming, p < Len(text), text[p + 1] \in e[2], << p, e[1], c >> \in S
              PROVE  << p + 1, e[3], TRUE >> \in S
            <4> DEFINE g == << at(e[1]), e[2], at(e[3]) >>
            <4>1. g \in P.graph.consuming
                BY <1>1 DEF HasFields, at
            <4>2. << p, g[1], c >> \in RP /\ text[p + 1] \in g[2]
                BY <3>0, <3>3
            <4>3. g[3] = at(e[3])
                OBVIOUS
            <4> HIDE DEF g
            <4>4. << p + 1, g[3], TRUE >> \in RP
                BY <1>6, <3>3, <4>1, <4>2, Zenon DEF KeptBy
            <4>5. e[3] \in 0..(f.graph.size - 1) /\ p + 1 \in 0..Len(text)
                BY <1>2, <3>3 DEF CompilationOf
            <4>6. QED
                BY <3>0, <4>3, <4>4, <4>5
        <3>4. QED
            BY <3>1, <3>2, <3>3, Zenon
    <2>3. RF \subseteq S
        <3> HIDE DEF S
        <3>1. QED
            BY <1>5, <2>1, <2>2
    <2>4. QED
        BY <2>3 DEF Lift, at
<1>18. U \subseteq RP
    BY <1>16, <1>17 DEF U
<1>19. RP = U
    BY <1>15, <1>18
<1>20. U = JoinedReach(RB, RF, size, root, r)
    BY Zenon DEF U, JoinedReach
<1>21. QED
    BY <1>19, <1>20, Zenon DEF RP, RB, RF, P

-----------------------------------------------------------------------------
(* What the compilation of a list matches. *)

EndsOf(B, r, text, s, o) == AcceptedEnds(Reach(B, r, text, s), Freeze(B), o)
FragmentEnds(f, text, s) == EndsOf(f, 0, text, s, 0)

LEMMA EndsAre ==
    ASSUME NEW R, NEW db, NEW o, NEW e
    PROVE  e \in AcceptedEnds(R, db, o) <=> \E c \in R : c[3] /\ o \in db.terminals[c[2]] /\ e = c[1]
BY DEF AcceptedEnds

LEMMA FrozenTerminals ==
    ASSUME NEW B, NEW q \in 0..(B.graph.size - 1)
    PROVE  Freeze(B).terminals[q] = IF q \in DOMAIN B.terminals THEN B.terminals[q] ELSE {}
BY DEF Freeze

LEMMA PlacedEnds ==
    ASSUME NEW B, NEW roots \in Nat, NEW n, CompilationOf(B, roots),
           NEW f, IsFragment(f), NEW root \in 0..(roots - 1),
           NEW text, Len(text) \in Nat, NEW r \in 0..(roots - 1), NEW s \in 0..Len(text), NEW o
    PROVE  EndsOf(Placed(B, f, n, root), r, text, s, o)
             = EndsOf(B, r, text, s, o) \cup { e \in FragmentEnds(f, text, s) : r = root /\ o = n }
<1> DEFINE P == Placed(B, f, n, root)
           size == B.graph.size
           at(q) == PlaceOf(q, size, root)
           RB == Reach(B, r, text, s)
           RF == Reach(f, 0, text, s)
           RP == Reach(P, r, text, s)
<1>1. HasFields(P, B, f, n, root)
    BY PlacedFields
<1>2. CompilationOf(P, roots) /\ CompilationOf(f, 1)
    BY PlacedIsCompilation, FragmentIsCompilation
<1>3. /\ size \in Nat /\ size >= roots /\ root \in 0..(size - 1)
      /\ f.graph.size \in Nat /\ f.graph.size >= 3
      /\ P.graph.size = (size + f.graph.size) - 1
    BY <1>1 DEF CompilationOf, IsFragment, HasFields
<1>4. RP = RB \cup { y \in { Lift(x, size, root) : x \in RF } : r = root }
    <2>1. RP = JoinedReach(RB, RF, size, root, r)
        BY PlacedReach
    <2>2. QED
        BY <2>1, Zenon DEF JoinedReach
<1>5. RB \subseteq (0..Len(text)) \X (0..(size - 1)) \X BOOLEAN
    <2>1. LeastKept(B, text, r, s, RB)
        BY CompilationReach
    <2>2. QED
        BY <2>1, Zenon DEF LeastKept
<1>6. RF \subseteq (0..Len(text)) \X (0..(f.graph.size - 1)) \X BOOLEAN
    <2>1. LeastKept(f, text, 0, s, RF)
        BY <1>2, CompilationReach
    <2>2. QED
        BY <2>1, Zenon DEF LeastKept
<1>7. at(0) = root /\ at(2) = size + 1 /\ \A q \in Nat \ {0} : at(q) = (size + q) - 1
    <2> HIDE DEF size
    <2>1. at(0) = root /\ \A q \in Nat \ {0} : at(q) = (size + q) - 1
        BY DEF PlaceOf
    <2> HIDE DEF at
    <2>2. at(2) = (size + 2) - 1
        BY <2>1
    <2>3. QED
        BY <1>3, <2>1, <2>2
<1>8. DOMAIN B.terminals \subseteq roots..(size - 1)
    BY DEF CompilationOf
<1>9. /\ DOMAIN P.terminals = DOMAIN B.terminals \cup { at(2) }
      /\ \A q \in DOMAIN P.terminals :
            P.terminals[q] = IF q = at(2) THEN {n} ELSE B.terminals[q]
    BY <1>1 DEF HasFields
<1> HIDE DEF P, RB, RF, RP, at, size
<1>10. ASSUME NEW q \in 0..(size - 1)
       PROVE  Freeze(P).terminals[q] = Freeze(B).terminals[q]
    <2>1. q # at(2)
        BY <1>3, <1>7
    <2>2. q \in 0..(P.graph.size - 1)
        BY <1>3
    <2>3. /\ Freeze(P).terminals[q] = IF q \in DOMAIN P.terminals THEN P.terminals[q] ELSE {}
          /\ Freeze(B).terminals[q] = IF q \in DOMAIN B.terminals THEN B.terminals[q] ELSE {}
        BY <2>2, FrozenTerminals DEF size
    <2>4. QED
        BY <1>9, <2>1, <2>3
<1>11. ASSUME NEW q \in 1..(f.graph.size - 1)
       PROVE  Freeze(P).terminals[at(q)] = IF q = 2 THEN {n} ELSE {}
    <2>1. at(q) = (size + q) - 1 /\ at(2) = size + 1
        BY <1>3, <1>7
    <2>2. at(q) \in 0..(P.graph.size - 1) /\ at(q) \notin DOMAIN B.terminals
        <3>1. at(q) \in 0..(P.graph.size - 1) /\ at(q) >= size
            BY <1>3, <2>1
        <3>2. at(q) \notin roots..(size - 1)
            BY <1>3, <3>1
        <3>3. QED
            BY <1>8, <3>1, <3>2
    <2>3. at(q) = at(2) <=> q = 2
        BY <1>3, <2>1
    <2>4. Freeze(P).terminals[at(q)]
            = IF at(q) \in DOMAIN P.terminals THEN P.terminals[at(q)] ELSE {}
        BY <2>2, FrozenTerminals
    <2>5. QED
        BY <1>9, <2>2, <2>3, <2>4
<1>12. Freeze(P).terminals[at(0)] = {}
    <2>1. at(0) \in 0..(size - 1) /\ at(0) \notin DOMAIN B.terminals
        <3>1. root \notin roots..(size - 1)
            OBVIOUS
        <3>2. at(0) = root
            BY <1>7
        <3>3. QED
            BY <1>3, <1>8, <3>1, <3>2
    <2>2. Freeze(B).terminals[at(0)] = {}
        BY <2>1, FrozenTerminals DEF size
    <2>3. QED
        BY <1>10, <2>1, <2>2
<1>13. Freeze(f).terminals[2] = {0}
       /\ \A q \in 0..(f.graph.size - 1) : q # 2 => Freeze(f).terminals[q] = {}
    <2>1. DOMAIN f.terminals = {2} /\ f.terminals[2] = {0}
        BY DEF IsFragment
    <2>2. 2 \in 0..(f.graph.size - 1)
        BY <1>3
    <2>3. \A q \in 0..(f.graph.size - 1) :
             Freeze(f).terminals[q] = IF q \in DOMAIN f.terminals THEN f.terminals[q] ELSE {}
        BY FrozenTerminals
    <2>4. QED
        BY <2>1, <2>2, <2>3
<1>14. ASSUME NEW e, e \in AcceptedEnds(RP, Freeze(P), o)
       PROVE  \/ e \in AcceptedEnds(RB, Freeze(B), o)
              \/ e \in AcceptedEnds(RF, Freeze(f), 0) /\ r = root /\ o = n
    <2>1. PICK y \in RP : y[3] /\ o \in Freeze(P).terminals[y[2]] /\ e = y[1]
        BY <1>14, EndsAre
    <2>2. CASE y \in RB
        <3>1. y[2] \in 0..(size - 1)
            BY <1>5, <2>2
        <3>2. o \in Freeze(B).terminals[y[2]]
            BY <1>10, <2>1, <3>1
        <3>3. QED
            BY <2>1, <2>2, <3>2, EndsAre
    <2>3. CASE y \notin RB
        <3>1. PICK x \in RF : y = Lift(x, size, root) /\ r = root
            BY <1>4, <2>3
        <3>2. y[1] = x[1] /\ y[2] = at(x[2]) /\ y[3] = x[3]
            BY <3>1 DEF Lift, at
        <3>3. x[2] \in 0..(f.graph.size - 1)
            BY <1>6
        <3>4. x[2] # 0
            BY <1>12, <2>1, <3>2
        <3>5. x[2] \in 1..(f.graph.size - 1)
            BY <1>3, <3>3, <3>4
        <3>6. x[2] = 2 /\ o = n
            BY <1>11, <2>1, <3>2, <3>5
        <3>7. 0 \in Freeze(f).terminals[x[2]]
            BY <1>13, <3>6
        <3>8. e \in AcceptedEnds(RF, Freeze(f), 0)
            BY <2>1, <3>2, <3>7, EndsAre
        <3>9. QED
            BY <3>1, <3>6, <3>8
    <2>4. QED
        BY <2>2, <2>3
<1>15. ASSUME NEW e, e \in AcceptedEnds(RB, Freeze(B), o)
       PROVE  e \in AcceptedEnds(RP, Freeze(P), o)
    <2>1. PICK y \in RB : y[3] /\ o \in Freeze(B).terminals[y[2]] /\ e = y[1]
        BY <1>15, EndsAre
    <2>2. y[2] \in 0..(size - 1) /\ y \in RP
        BY <1>4, <1>5
    <2>3. o \in Freeze(P).terminals[y[2]]
        BY <1>10, <2>1, <2>2
    <2>4. QED
        BY <2>1, <2>2, <2>3, EndsAre
<1>16. ASSUME NEW e, e \in AcceptedEnds(RF, Freeze(f), 0), r = root, o = n
       PROVE  e \in AcceptedEnds(RP, Freeze(P), o)
    <2>1. PICK x \in RF : x[3] /\ 0 \in Freeze(f).terminals[x[2]] /\ e = x[1]
        BY <1>16, EndsAre
    <2>2. x[2] \in 0..(f.graph.size - 1)
        BY <1>6
    <2>3. x[2] = 2
        BY <1>13, <2>1, <2>2
    <2>4. Lift(x, size, root) \in RP
        BY <1>4, <1>16
    <2>5. o \in Freeze(P).terminals[at(2)]
        BY <1>3, <1>11, <1>16
    <2>6. /\ Lift(x, size, root)[1] = x[1] /\ Lift(x, size, root)[2] = at(2)
          /\ Lift(x, size, root)[3] = x[3]
        BY <2>3 DEF Lift, at
    <2>7. QED
        BY <2>1, <2>4, <2>5, <2>6, EndsAre
<1>17. AcceptedEnds(RP, Freeze(P), o)
         = AcceptedEnds(RB, Freeze(B), o)
             \cup { e \in AcceptedEnds(RF, Freeze(f), 0) : r = root /\ o = n }
    BY <1>14, <1>15, <1>16
<1>18. QED
    BY <1>17, Zenon DEF EndsOf, FragmentEnds, P, RB, RF, RP

\* The compilations of a list whose members are fragments, each placed below its root.
Chain(C, F, root_of, roots, N) ==
    /\ C[0] = EmptyCompilation(roots)
    /\ \A n \in 1..N : /\ IsFragment(F[n]) /\ root_of[n] \in 0..(roots - 1)
                        /\ C[n] = Placed(C[n - 1], F[n], n - 1, root_of[n])

OwnEnds(B, F, root_of, N, r, text, s) ==
    \A o : EndsOf(B, r, text, s, o)
            = { e \in FragmentEnds(F[o + 1], text, s) : o \in 0..(N - 1) /\ root_of[o + 1] = r }

LEMMA ChainEnds ==
    ASSUME NEW C, NEW F, NEW root_of, NEW roots \in Nat, NEW N \in Nat,
           Chain(C, F, root_of, roots, N),
           NEW text, Len(text) \in Nat, NEW r \in 0..(roots - 1), NEW s \in 0..Len(text)
    PROVE  CompilationOf(C[N], roots) /\ OwnEnds(C[N], F, root_of, N, r, text, s)
<1> DEFINE Right(n) ==
             \A o : EndsOf(C[n], r, text, s, o)
                     = { e \in FragmentEnds(F[o + 1], text, s) : o \in 0..(n - 1) /\ root_of[o + 1] = r }
           Good == { n \in 0..N : CompilationOf(C[n], roots) /\ Right(n) }
<1>1. 0 \in Good
    <2>1. C[0] = EmptyCompilation(roots)
        BY DEF Chain
    <2>2. CompilationOf(C[0], roots)
        BY <2>1, EmptyIsCompilation
    <2>3. ASSUME NEW o, NEW e, e \in EndsOf(C[0], r, text, s, o) PROVE FALSE
        <3>1. LeastKept(C[0], text, r, s, Reach(C[0], r, text, s))
            BY <2>2, CompilationReach
        <3>2. PICK c \in Reach(C[0], r, text, s) : o \in Freeze(C[0]).terminals[c[2]]
            BY <2>3, EndsAre DEF EndsOf
        <3>3. c[2] \in 0..(C[0].graph.size - 1)
            BY <3>1 DEF LeastKept
        <3>4. DOMAIN C[0].terminals = {}
            BY <2>1 DEF EmptyCompilation
        <3>5. Freeze(C[0]).terminals[c[2]] = {}
            BY <3>3, <3>4, FrozenTerminals
        <3>6. QED
            BY <3>2, <3>5
    <2>4. ASSUME NEW o PROVE o \notin 0..(0 - 1)
        OBVIOUS
    <2>5. Right(0)
        BY <2>3, <2>4
    <2> HIDE DEF Right
    <2>6. QED
        BY <2>2, <2>5
<1>2. ASSUME NEW n \in 1..N, n - 1 \in Good PROVE n \in Good
    <2>1. /\ IsFragment(F[n]) /\ root_of[n] \in 0..(roots - 1)
          /\ C[n] = Placed(C[n - 1], F[n], n - 1, root_of[n])
        BY Zenon DEF Chain
    <2>2. CompilationOf(C[n - 1], roots) /\ Right(n - 1)
        BY <1>2
    <2>3. CompilationOf(C[n], roots)
        BY <2>1, <2>2, PlacedIsCompilation
    <2>4. ASSUME NEW o
          PROVE  EndsOf(C[n], r, text, s, o)
                   = EndsOf(C[n - 1], r, text, s, o)
                       \cup { e \in FragmentEnds(F[n], text, s) : r = root_of[n] /\ o = n - 1 }
        BY <2>1, <2>2, PlacedEnds
    <2>5. ASSUME NEW o
          PROVE  EndsOf(C[n], r, text, s, o)
                   = { e \in FragmentEnds(F[o + 1], text, s) : o \in 0..(n - 1) /\ root_of[o + 1] = r }
        <3>1. EndsOf(C[n - 1], r, text, s, o)
                = { e \in FragmentEnds(F[o + 1], text, s) :
                      o \in 0..((n - 1) - 1) /\ root_of[o + 1] = r }
            BY <2>2
        <3>2. CASE o = n - 1
            <4>1. o + 1 = n /\ o \notin 0..((n - 1) - 1) /\ o \in 0..(n - 1)
                BY <3>2
            <4>2. QED
                BY <2>4, <3>1, <3>2, <4>1
        <3>3. CASE o # n - 1
            <4>1. o \in 0..((n - 1) - 1) <=> o \in 0..(n - 1)
                BY <3>3
            <4>2. QED
                BY <2>4, <3>1, <3>3, <4>1
        <3>4. QED
            BY <3>2, <3>3
    <2>6. Right(n)
        BY <2>5
    <2> HIDE DEF Right
    <2>7. QED
        BY <2>3, <2>6
<1> HIDE DEF Good, Right
<1>3. 0..N \subseteq Good
    BY <1>1, <1>2, Induction
<1>4. N \in Good
    BY <1>3
<1>5. CompilationOf(C[N], roots) /\ Right(N)
    BY <1>4 DEF Good
<1>6. QED
    BY <1>5, Zenon DEF Right, OwnEnds

\* What the expressions of one root match.
MatchesBelow(F, root_of, N, r, text, s) ==
    { << s, o, Max(FragmentEnds(F[o + 1], text, s)) >> :
        o \in { q \in Ordinal : /\ q \in 0..(N - 1) /\ root_of[q + 1] = r
                                /\ FragmentEnds(F[q + 1], text, s) # {} } }

LEMMA ChainMatches ==
    ASSUME NEW C, NEW F, NEW root_of, NEW roots \in Nat, NEW N \in Nat,
           Chain(C, F, root_of, roots, N),
           NEW text, Len(text) \in Nat, NEW r \in 0..(roots - 1), NEW s \in 0..Len(text)
    PROVE  LongestMatches(Freeze(C[N]), r, text, s) = MatchesBelow(F, root_of, N, r, text, s)
<1> DEFINE ends(o) == EndsOf(C[N], r, text, s, o)
           below(o) == FragmentEnds(F[o + 1], text, s)
           mine(o) == o \in 0..(N - 1) /\ root_of[o + 1] = r
<1>1. \A o : ends(o) = { e \in below(o) : mine(o) }
    <2>1. OwnEnds(C[N], F, root_of, N, r, text, s)
        BY ChainEnds
    <2>2. QED
        BY <2>1, Zenon DEF OwnEnds
<1>2. LongestMatches(Freeze(C[N]), r, text, s)
        = { << s, o, Max(ends(o)) >> : o \in { q \in Ordinal : ends(q) # {} } }
    BY Zenon DEF LongestMatches, EndsOf, Reach
<1>3. MatchesBelow(F, root_of, N, r, text, s)
        = { << s, o, Max(below(o)) >> : o \in { q \in Ordinal : mine(q) /\ below(q) # {} } }
    BY DEF MatchesBelow
<1> HIDE DEF ends, below, mine
<1>4. \A o : ends(o) # {} <=> mine(o) /\ below(o) # {}
    BY <1>1
<1>5. \A o : mine(o) => ends(o) = below(o)
    BY <1>1
<1>6. QED
    BY <1>2, <1>3, <1>4, <1>5

-----------------------------------------------------------------------------
(* A fragment that requires units. *)

\* A match of one shows the units where it starts.
Shows(text, s, units) ==
    s + Len(units) <= Len(text) /\ \A i \in 1..Len(units) : text[s + i] = units[i]

LEMMA RequiredIsShown ==
    ASSUME NEW f, IsFragment(f), NEW units, Len(units) \in Nat, Requires(f, units),
           NEW text, Len(text) \in Nat, NEW s \in 0..Len(text), FragmentEnds(f, text, s) # {}
    PROVE  Shows(text, s, units)
<1> DEFINE inner == 1..(f.graph.size - 1)
           P == Len(units)
<1>1. PICK level \in [inner -> 0..P] :
        /\ level[1] = 0 /\ level[2] = P
        /\ \A e \in f.graph.epsilon \ { << 0, 1 >> } : level[e[2]] = level[e[1]]
        /\ \A e \in f.graph.assertion : level[e[3]] = level[e[1]]
        /\ \A e \in f.graph.consuming :
              IF level[e[1]] = P THEN level[e[3]] = P
              ELSE level[e[3]] = level[e[1]] + 1 /\ e[2] = { units[level[e[1]] + 1] }
    BY Zenon DEF Requires
<1>2. /\ f.graph.size \in Nat /\ f.graph.size >= 3
      /\ f.graph.epsilon \ { << 0, 1 >> } \subseteq inner \X inner
      /\ f.graph.assertion \subseteq inner \X Assertion \X inner
      /\ f.graph.consuming \subseteq inner \X (SUBSET Symbol) \X inner
    BY DEF IsFragment
<1>3. CompilationOf(f, 1)
    BY FragmentIsCompilation
<1> DEFINE Fits(p, q) == /\ p >= s + level[q]
                         /\ level[q] < P => p = s + level[q]
                         /\ \A i \in 1..level[q] : text[s + i] = units[i]
           S == { << s, 0, FALSE >> }
                  \cup { x \in (0..Len(text)) \X inner \X BOOLEAN : Fits(x[1], x[2]) }
<1>4. \A p, q, c : << p, q, c >> \in S <=>
          \/ p = s /\ q = 0 /\ c = FALSE
          \/ p \in 0..Len(text) /\ q \in inner /\ c \in BOOLEAN /\ Fits(p, q)
    <2> HIDE DEF inner, Fits
    <2>1. QED
        OBVIOUS
<1>5. << s, 0, FALSE >> \in S
    OBVIOUS
<1> HIDE DEF S, inner, P
<1>6. 0 \notin inner /\ 1 \in inner /\ 2 \in inner
    BY <1>2 DEF inner
<1>7. KeptBy(f, text, S)
    <2> SUFFICES ASSUME NEW p \in 0..Len(text), NEW c \in BOOLEAN
                 PROVE  /\ \A e \in f.graph.epsilon : << p, e[1], c >> \in S => << p, e[2], c >> \in S
                        /\ \A e \in f.graph.assertion :
                              AssertionMatches(e[2], text, p, c) /\ << p, e[1], c >> \in S
                                  => << p, e[3], c >> \in S
                        /\ \A e \in f.graph.consuming :
                              p < Len(text) /\ text[p + 1] \in e[2] /\ << p, e[1], c >> \in S
                                  => << p + 1, e[3], TRUE >> \in S
        BY Zenon DEF KeptBy
    <2>1. ASSUME NEW e \in f.graph.epsilon, << p, e[1], c >> \in S PROVE << p, e[2], c >> \in S
        <3>1. CASE e = << 0, 1 >>
            <4>1. p = s
                BY <1>4, <1>6, <2>1, <3>1
            <4>2. Fits(p, 1)
                BY <1>1, <4>1
            <4>3. e[2] = 1
                BY <3>1
            <4> HIDE DEF Fits
            <4>4. QED
                BY <1>4, <1>6, <4>2, <4>3
        <3>2. CASE e # << 0, 1 >>
            <4>1. e[1] \in inner /\ e[2] \in inner /\ level[e[2]] = level[e[1]]
                BY <1>1, <1>2, <3>2
            <4>2. Fits(p, e[1])
                <5> HIDE DEF Fits
                <5>1. QED
                    BY <1>4, <1>6, <2>1, <4>1
            <4>3. Fits(p, e[2])
                BY <4>1, <4>2
            <4> HIDE DEF Fits
            <4>4. QED
                BY <1>4, <4>1, <4>3
        <3>3. QED
            BY <3>1, <3>2
    <2>2. ASSUME NEW e \in f.graph.assertion, << p, e[1], c >> \in S PROVE << p, e[3], c >> \in S
        <3>1. e[1] \in inner /\ e[3] \in inner /\ level[e[3]] = level[e[1]]
            BY <1>1, <1>2
        <3>2. Fits(p, e[1])
            <4> HIDE DEF Fits
            <4>1. QED
                BY <1>4, <1>6, <2>2, <3>1
        <3>3. Fits(p, e[3])
            BY <3>1, <3>2
        <3> HIDE DEF Fits
        <3>4. QED
            BY <1>4, <3>1, <3>3
    <2>3. ASSUME NEW e \in f.graph.consuming, p < Len(text), text[p + 1] \in e[2], << p, e[1], c >> \in S
          PROVE  << p + 1, e[3], TRUE >> \in S
        <3>1. e[1] \in inner /\ e[3] \in inner
            BY <1>2
        <3>2. Fits(p, e[1])
            <4> HIDE DEF Fits
            <4>1. QED
                BY <1>4, <1>6, <2>3, <3>1
        <3>3. level[e[1]] \in 0..P /\ level[e[3]] \in 0..P /\ P \in Nat
            BY <3>1 DEF P
        <3>4. IF level[e[1]] = P THEN level[e[3]] = P
              ELSE level[e[3]] = level[e[1]] + 1 /\ e[2] = { units[level[e[1]] + 1] }
            BY <1>1
        <3>5. CASE level[e[1]] = P
            <4>1. p + 1 >= s + level[e[3]] /\ ~ (level[e[3]] < P)
                <5>1. level[e[3]] = P
                    BY <3>4, <3>5
                <5>2. p >= s + P
                    BY <3>2, <3>5
                <5>3. QED
                    BY <3>3, <5>1, <5>2
            <4>2. \A i \in 1..level[e[3]] : text[s + i] = units[i]
                BY <3>2, <3>4, <3>5
            <4>3. QED
                <5>1. Fits(p + 1, e[3])
                    BY <4>1, <4>2
                <5>2. p + 1 \in 0..Len(text) /\ TRUE \in BOOLEAN
                    BY <2>3
                <5> HIDE DEF Fits
                <5>3. QED
                    BY <1>4, <3>1, <5>1, <5>2
        <3>6. CASE level[e[1]] # P
            <4>1. p = s + level[e[1]] /\ level[e[3]] = level[e[1]] + 1
                <5>1. level[e[1]] < P
                    BY <3>3, <3>6
                <5>2. QED
                    BY <3>2, <3>4, <3>6, <5>1
            <4>2. text[p + 1] = units[level[e[1]] + 1]
                BY <2>3, <3>4, <3>6
            <4>3. p + 1 = s + level[e[3]]
                BY <3>3, <4>1
            <4>4. ASSUME NEW i \in 1..level[e[3]] PROVE text[s + i] = units[i]
                <5>1. CASE i = level[e[3]]
                    BY <4>1, <4>2, <4>3, <5>1
                <5>2. CASE i # level[e[3]]
                    <6>1. i \in 1..level[e[1]]
                        BY <3>3, <4>1, <5>2
                    <6>2. QED
                        BY <3>2, <6>1
                <5>3. QED
                    BY <5>1, <5>2
            <4>5. Fits(p + 1, e[3])
                BY <3>3, <4>3, <4>4
            <4>6. p + 1 \in 0..Len(text) /\ TRUE \in BOOLEAN
                BY <2>3
            <4> HIDE DEF Fits
            <4>7. QED
                BY <1>4, <3>1, <4>5, <4>6
        <3>7. QED
            BY <3>5, <3>6
    <2>4. QED
        BY <2>1, <2>2, <2>3, Zenon
<1>8. LeastKept(f, text, 0, s, Reach(f, 0, text, s))
    BY <1>3, CompilationReach
<1>9. Reach(f, 0, text, s) \subseteq S
    BY <1>5, <1>7, <1>8, Zenon DEF LeastKept
<1>10. PICK e : e \in AcceptedEnds(Reach(f, 0, text, s), Freeze(f), 0)
    BY DEF FragmentEnds, EndsOf
<1>11. PICK x \in Reach(f, 0, text, s) : 0 \in Freeze(f).terminals[x[2]]
    BY <1>10, EndsAre
<1>12. x \in (0..Len(text)) \X (0..(f.graph.size - 1)) \X BOOLEAN
    BY <1>8 DEF LeastKept
<1>13. x[2] = 2
    <2>1. DOMAIN f.terminals = {2}
        BY DEF IsFragment
    <2>2. Freeze(f).terminals[x[2]] = IF x[2] \in DOMAIN f.terminals THEN f.terminals[x[2]] ELSE {}
        BY <1>12, FrozenTerminals
    <2>3. QED
        BY <1>11, <2>1, <2>2
<1>14. << x[1], 2, x[3] >> \in S
    BY <1>9, <1>12, <1>13
<1>15. Fits(x[1], 2)
    <2> HIDE DEF Fits
    <2>1. QED
        BY <1>4, <1>14
<1>16. s + P <= Len(text)
    <2>1. x[1] >= s + P
        BY <1>1, <1>15
    <2>2. x[1] \in 0..Len(text) /\ P \in Nat
        BY <1>12 DEF P
    <2>3. QED
        BY <2>1, <2>2
<1>17. \A i \in 1..P : text[s + i] = units[i]
    BY <1>1, <1>15
<1>18. QED
    BY <1>16, <1>17 DEF Shows, P

-----------------------------------------------------------------------------
(* Events in order. *)

Distinct(S) ==
    /\ \A x \in S : x[1] \in Nat /\ x[2] \in Nat
    /\ \A x, y \in S : x[1] = y[1] /\ x[2] = y[2] => x = y

LEMMA InOrderFacts ==
    ASSUME NEW S, IsFiniteSet(S), Distinct(S)
    PROVE  InOrder(S) \in Seq(S) /\ Len(InOrder(S)) = Cardinality(S) /\ ToSet(InOrder(S)) = S
<1> DEFINE P == { w \in S \X S : Comes(w[1], w[2]) }
           n == Cardinality(S)
           R == RankIn(P, S)
           I == InOrder(S)
<1>1. Orders(P, S)
    <2>1. \A x, y \in S : << x, y >> \in P <=> Comes(x, y)
        OBVIOUS
    <2> HIDE DEF P
    <2>2. \A x \in S : << x, x >> \notin P
        BY <2>1 DEF Comes, Distinct
    <2>3. \A x, y, z \in S : << x, y >> \in P /\ << y, z >> \in P => << x, z >> \in P
        <3> SUFFICES ASSUME NEW x \in S, NEW y \in S, NEW z \in S, Comes(x, y), Comes(y, z)
                     PROVE  Comes(x, z)
            BY <2>1
        <3>1. /\ x[1] \in Nat /\ y[1] \in Nat /\ z[1] \in Nat
              /\ x[2] \in Nat /\ y[2] \in Nat /\ z[2] \in Nat
            BY DEF Distinct
        <3>2. QED
            BY <3>1 DEF Comes
    <2>4. \A x, y \in S : x = y \/ << x, y >> \in P \/ << y, x >> \in P
        <3> SUFFICES ASSUME NEW x \in S, NEW y \in S, ~ Comes(x, y), ~ Comes(y, x)
                     PROVE  x = y
            BY <2>1
        <3>1. x[1] \in Nat /\ y[1] \in Nat /\ x[2] \in Nat /\ y[2] \in Nat
            BY DEF Distinct
        <3>2. x[1] = y[1] /\ x[2] = y[2]
            BY <3>1 DEF Comes
        <3>3. QED
            BY <3>2 DEF Distinct
    <2>5. QED
        BY <2>2, <2>3, <2>4 DEF Orders
<1>2. n \in Nat /\ Ranks(R, P, S, n)
    BY <1>1, RanksInOrder
<1>3. ASSUME NEW x \in S PROVE R[x] = Cardinality({ y \in S : Comes(y, x) })
    <2>1. Lower(P, S, x) = { y \in S : Comes(y, x) }
        BY DEF Lower
    <2>2. R[x] = Cardinality(Lower(P, S, x))
        BY DEF RankIn
    <2>3. QED
        BY <2>1, <2>2
<1> HIDE DEF n, R, P
<1>4. I = [i \in 1..n |-> CHOOSE x \in S : Cardinality({ y \in S : Comes(y, x) }) = i - 1]
    BY Zenon DEF InOrder, n
<1> HIDE DEF I
<1>5. ASSUME NEW i \in 1..n PROVE I[i] \in S /\ R[I[i]] = i - 1
    <2>1. PICK x \in S : R[x] = i - 1
        BY <1>2 DEF Ranks
    <2>2. Cardinality({ y \in S : Comes(y, x) }) = i - 1
        BY <1>3, <2>1
    <2>3. I[i] \in S /\ Cardinality({ y \in S : Comes(y, I[i]) }) = i - 1
        BY <1>4, <2>2, Zenon
    <2>4. QED
        BY <1>3, <2>3
<1>6. I \in Seq(S) /\ Len(I) = n /\ DOMAIN I = 1..n
    <2>1. I \in [1..n -> S]
        BY <1>4, <1>5
    <2>2. QED
        BY <1>2, <2>1, IsASeq, LenProperties
<1>7. ASSUME NEW x \in S PROVE \E i \in 1..n : I[i] = x
    <2>1. R[x] + 1 \in 1..n
        BY <1>2 DEF Ranks
    <2>2. I[R[x] + 1] \in S /\ R[I[R[x] + 1]] = (R[x] + 1) - 1
        BY <1>5, <2>1
    <2>3. R[I[R[x] + 1]] = R[x]
        BY <1>2, <2>2 DEF Ranks
    <2>4. I[R[x] + 1] = x
        BY <1>2, <2>2, <2>3 DEF Ranks
    <2>5. QED
        BY <2>1, <2>4
<1>8. ToSet(I) = S
    BY <1>5, <1>6, <1>7 DEF ToSet
<1>9. QED
    BY <1>6, <1>8 DEF I, n

-----------------------------------------------------------------------------
(* The two databases of a list. *)

\* The compilations follow one another.
LEMMA CompilationsFollow ==
    ASSUME NEW list, Len(list) \in Nat, NEW roots, NEW root_of
    PROVE  /\ Compilations(list, roots, root_of)[0] = EmptyCompilation(roots)
           /\ \A n \in 1..Len(list) :
                 Compilations(list, roots, root_of)[n]
                   = CompileOf(Compilations(list, roots, root_of)[n - 1], list[n], n - 1, root_of[n])
<1> DEFINE N == Len(list)
           compiled_to[n \in 0..Len(list)] ==
             IF n = 0 THEN EmptyCompilation(roots)
             ELSE CompileOf(compiled_to[n - 1], list[n], n - 1, root_of[n])
           Made(f, m) == /\ f[0] = EmptyCompilation(roots)
                         /\ \A n \in 1..m : f[n] = CompileOf(f[n - 1], list[n], n - 1, root_of[n])
           Step(f) == [n \in 0..N |-> IF n = 0 THEN EmptyCompilation(roots)
                                      ELSE CompileOf(f[n - 1], list[n], n - 1, root_of[n])]
           Good == { m \in 0..N : \E f : Made(f, m) }
<1>1. Compilations(list, roots, root_of) = compiled_to
    BY Zenon DEF Compilations
<1>2. compiled_to = CHOOSE f : f = Step(f)
    BY Zenon
<1> HIDE DEF compiled_to
<1>3. 0 \in Good
    <2>1. Made([i \in 0..0 |-> EmptyCompilation(roots)], 0)
        OBVIOUS
    <2> HIDE DEF Made
    <2>2. QED
        BY <2>1
<1>4. ASSUME NEW m \in 1..N, m - 1 \in Good PROVE m \in Good
    <2>1. PICK f : Made(f, m - 1)
        BY <1>4
    <2> DEFINE h == [i \in 0..m |-> IF i = m THEN CompileOf(f[m - 1], list[m], m - 1, root_of[m])
                                    ELSE f[i]]
    <2>2. h[m] = CompileOf(f[m - 1], list[m], m - 1, root_of[m])
        OBVIOUS
    <2>3. \A i \in 0..(m - 1) : h[i] = f[i]
        OBVIOUS
    <2> HIDE DEF h
    <2>4. h[0] = EmptyCompilation(roots)
        BY <2>1, <2>3
    <2>5. ASSUME NEW n \in 1..m PROVE h[n] = CompileOf(h[n - 1], list[n], n - 1, root_of[n])
        <3>1. n - 1 \in 0..(m - 1)
            OBVIOUS
        <3>2. h[n - 1] = f[n - 1]
            BY <2>3, <3>1
        <3>3. CASE n = m
            BY <2>2, <3>2, <3>3
        <3>4. CASE n # m
            <4>1. n \in 1..(m - 1) /\ n \in 0..(m - 1)
                BY <3>4
            <4>2. h[n] = f[n]
                BY <2>3, <4>1
            <4>3. f[n] = CompileOf(f[n - 1], list[n], n - 1, root_of[n])
                BY <2>1, <4>1
            <4>4. QED
                BY <3>2, <4>2, <4>3
        <3>5. QED
            BY <3>3, <3>4
    <2>6. Made(h, m)
        BY <2>4, <2>5
    <2>7. m \in 0..N
        OBVIOUS
    <2> HIDE DEF Made
    <2>8. QED
        BY <2>6, <2>7
<1>5. N \in Nat
    OBVIOUS
<1>6. N \in Good
    <2> HIDE DEF Good, N
    <2>1. 0..N \subseteq Good
        BY <1>3, <1>4, <1>5, Induction
    <2>2. QED
        BY <1>5, <2>1
<1>7. PICK f : Made(f, N)
    BY <1>6
<1> DEFINE g == [n \in 0..N |-> f[n]]
<1>8. g = Step(g)
    <2>1. \A n \in 0..N : g[n] = f[n]
        OBVIOUS
    <2> HIDE DEF g
    <2>2. ASSUME NEW n \in 0..N
          PROVE  f[n] = IF n = 0 THEN EmptyCompilation(roots)
                        ELSE CompileOf(g[n - 1], list[n], n - 1, root_of[n])
        <3>1. CASE n = 0
            BY <1>7, <3>1
        <3>2. CASE n # 0
            <4>1. n \in 1..N /\ n - 1 \in 0..N
                BY <1>5, <3>2
            <4>2. g[n - 1] = f[n - 1]
                BY <2>1, <4>1
            <4>3. f[n] = CompileOf(f[n - 1], list[n], n - 1, root_of[n])
                BY <1>7, <4>1
            <4>4. QED
                BY <3>2, <4>2, <4>3
        <3>3. QED
            BY <3>1, <3>2
    <2> HIDE DEF N
    <2>3. g = [n \in 0..N |-> f[n]]
        BY DEF g
    <2>4. QED
        BY <2>2, <2>3, Zenon
<1>9. compiled_to = Step(compiled_to)
    <2> HIDE DEF Step, g
    <2>1. QED
        BY <1>2, <1>8, Zenon
<1>10. \A n \in 0..N : compiled_to[n] = IF n = 0 THEN EmptyCompilation(roots)
                            ELSE CompileOf(compiled_to[n - 1], list[n], n - 1, root_of[n])
    <2> HIDE DEF N
    <2>1. QED
        BY <1>9, Zenon
<1>11. compiled_to[0] = EmptyCompilation(roots)
    BY <1>10
<1>12. \A n \in 1..N : compiled_to[n] = CompileOf(compiled_to[n - 1], list[n], n - 1, root_of[n])
    BY <1>10
<1> HIDE DEF Made, Step, Good, g
<1>13. QED
    BY <1>1, <1>11, <1>12, Zenon DEF N

Fragments(list) == [n \in 1..Len(list) |-> Fragment(list[n])]
RootsOf(list) == [n \in 1..Len(list) |-> RootOf(list[n])]
OneRoot(list) == [n \in 1..Len(list) |-> 0]

LEMMA ListFacts ==
    ASSUME NEW list \in PatternSets
    PROVE  /\ Len(list) \in Nat /\ 0..(Len(list) - 1) \subseteq Ordinal
           /\ \A n \in 1..Len(list) :
                 /\ IsFragment(Fragment(list[n]))
                 /\ \A units \in StrictPrefix(list[n]) : Requires(Fragment(list[n]), units)
BY CompilerAssumption

LEMMA SharedFollows ==
    ASSUME NEW list \in PatternSets
    PROVE  /\ SharedCompilations(list)[0] = EmptyCompilation(2)
           /\ \A n \in 1..Len(list) :
                 SharedCompilations(list)[n]
                   = CompileOf(SharedCompilations(list)[n - 1], list[n], n - 1, RootOf(list[n]))
<1> DEFINE root_of == [n \in 1..Len(list) |-> RootOf(list[n])]
           C == Compilations(list, 2, root_of)
<1>1. C[0] = EmptyCompilation(2)
      /\ \A n \in 1..Len(list) : C[n] = CompileOf(C[n - 1], list[n], n - 1, root_of[n])
    BY ListFacts, CompilationsFollow
<1>2. \A n \in 1..Len(list) : root_of[n] = RootOf(list[n])
    OBVIOUS
<1>3. SharedCompilations(list) = C
    BY Zenon DEF SharedCompilations
<1> HIDE DEF C, root_of
<1>4. QED
    BY <1>1, <1>2, <1>3

LEMMA SharedChain ==
    ASSUME NEW list \in PatternSets
    PROVE  Chain(SharedCompilations(list), Fragments(list), RootsOf(list), 2, Len(list))
<1>1. \A n \in 1..Len(list) :
         /\ IsFragment(Fragment(list[n]))
         /\ SharedCompilations(list)[n] =
               Placed(SharedCompilations(list)[n - 1], Fragment(list[n]), n - 1, RootOf(list[n]))
    BY CompilerAssumption
<1>2. \A n \in 1..Len(list) : /\ Fragments(list)[n] = Fragment(list[n])
                              /\ RootsOf(list)[n] = RootOf(list[n])
    BY DEF Fragments, RootsOf
<1>3. \A n \in 1..Len(list) : RootOf(list[n]) \in 0..(2 - 1)
    BY DEF RootOf, AssertionFreeRoot, AssertionBearingRoot
<1>4. SharedCompilations(list)[0] = EmptyCompilation(2)
    BY SharedFollows
<1>5. QED
    BY <1>1, <1>2, <1>3, <1>4, Zenon DEF Chain

LEMMA OrdinaryChain ==
    ASSUME NEW list \in PatternSets
    PROVE  Chain(OrdinaryCompilations(list), Fragments(list), OneRoot(list), 1, Len(list))
<1>1. \A n \in 1..Len(list) :
         /\ IsFragment(Fragment(list[n]))
         /\ OrdinaryCompilations(list)[n] =
               Placed(OrdinaryCompilations(list)[n - 1], Fragment(list[n]), n - 1, 0)
    BY CompilerAssumption
<1>2. \A n \in 1..Len(list) : /\ Fragments(list)[n] = Fragment(list[n])
                              /\ OneRoot(list)[n] = 0
    BY DEF Fragments, OneRoot
<1>3. 0 \in 0..(1 - 1)
    OBVIOUS
<1>4. OrdinaryCompilations(list)[0] = EmptyCompilation(1)
    <2> DEFINE root_of == [n \in 1..Len(list) |-> 0]
    <2>1. OrdinaryCompilations(list) = Compilations(list, 1, root_of)
        BY Zenon DEF OrdinaryCompilations
    <2> HIDE DEF root_of
    <2>2. Len(list) \in Nat
        BY ListFacts
    <2>3. QED
        BY <2>1, <2>2, CompilationsFollow
<1>5. QED
    BY <1>1, <1>2, <1>3, <1>4, Zenon DEF Chain

\* What a pattern matches from a start, whichever database it was compiled into.
Owed(list, text, s, o) == o \in 0..(Len(list) - 1) /\ FragmentEnds(Fragment(list[o + 1]), text, s) # {}
Event(list, text, s, o) == << s, o, Max(FragmentEnds(Fragment(list[o + 1]), text, s)) >>

SharedFrom(list, r, text, s) == LongestMatches(Freeze(SharedCompilations(list)[Len(list)]), r, text, s)
OrdinaryFrom(list, text, s) == LongestMatches(Freeze(OrdinaryCompilations(list)[Len(list)]), 0, text, s)

LEMMA SharedFromIs ==
    ASSUME NEW list \in PatternSets, NEW r \in {0, 1}, NEW text, Len(text) \in Nat,
           NEW s \in 0..Len(text), NEW x
    PROVE  x \in SharedFrom(list, r, text, s) <=>
              \E o \in Ordinal : Owed(list, text, s, o) /\ RootOf(list[o + 1]) = r /\ x = Event(list, text, s, o)
<1> DEFINE N == Len(list)
           F == Fragments(list)
           root_of == RootsOf(list)
<1>1. N \in Nat
    BY ListFacts
<1>2. r \in 0..(2 - 1) /\ 2 \in Nat
    OBVIOUS
<1>3. Chain(SharedCompilations(list), F, root_of, 2, N)
    BY SharedChain
<1>4. \A o \in 0..(N - 1) : F[o + 1] = Fragment(list[o + 1]) /\ root_of[o + 1] = RootOf(list[o + 1])
    BY <1>1 DEF Fragments, RootsOf
<1> HIDE DEF F, root_of, N
<1>5. LongestMatches(Freeze(SharedCompilations(list)[N]), r, text, s) = MatchesBelow(F, root_of, N, r, text, s)
    BY <1>1, <1>2, <1>3, ChainMatches
<1>6. x \in MatchesBelow(F, root_of, N, r, text, s) <=>
          \E o \in Ordinal : /\ o \in 0..(N - 1) /\ root_of[o + 1] = r
                             /\ FragmentEnds(F[o + 1], text, s) # {}
                             /\ x = << s, o, Max(FragmentEnds(F[o + 1], text, s)) >>
    BY DEF MatchesBelow
<1>7. ASSUME NEW o \in 0..(N - 1)
      PROVE  /\ F[o + 1] = Fragment(list[o + 1])
             /\ root_of[o + 1] = RootOf(list[o + 1])
    BY <1>4
<1>8. QED
    BY <1>5, <1>6, <1>7, Zenon DEF SharedFrom, Owed, Event, N

LEMMA OrdinaryFromIs ==
    ASSUME NEW list \in PatternSets, NEW text, Len(text) \in Nat,
           NEW s \in 0..Len(text), NEW x
    PROVE  x \in OrdinaryFrom(list, text, s) <=>
              \E o \in Ordinal : Owed(list, text, s, o) /\ x = Event(list, text, s, o)
<1> DEFINE N == Len(list)
           F == Fragments(list)
           root_of == OneRoot(list)
<1>1. N \in Nat
    BY ListFacts
<1>2. 0 \in 0..(1 - 1) /\ 1 \in Nat
    OBVIOUS
<1>3. Chain(OrdinaryCompilations(list), F, root_of, 1, N)
    BY OrdinaryChain
<1>4. \A o \in 0..(N - 1) : F[o + 1] = Fragment(list[o + 1]) /\ root_of[o + 1] = 0
    BY <1>1 DEF Fragments, OneRoot
<1> HIDE DEF F, root_of, N
<1>5. LongestMatches(Freeze(OrdinaryCompilations(list)[N]), 0, text, s) = MatchesBelow(F, root_of, N, 0, text, s)
    BY <1>1, <1>2, <1>3, ChainMatches
<1>6. x \in MatchesBelow(F, root_of, N, 0, text, s) <=>
          \E o \in Ordinal : /\ o \in 0..(N - 1) /\ root_of[o + 1] = 0
                             /\ FragmentEnds(F[o + 1], text, s) # {}
                             /\ x = << s, o, Max(FragmentEnds(F[o + 1], text, s)) >>
    BY DEF MatchesBelow
<1>7. ASSUME NEW o \in 0..(N - 1)
      PROVE  F[o + 1] = Fragment(list[o + 1]) /\ root_of[o + 1] = 0
    BY <1>4
<1>8. QED
    BY <1>5, <1>6, <1>7, Zenon DEF OrdinaryFrom, Owed, Event, N

-----------------------------------------------------------------------------
(* The events of a call. *)

Starts(text) == 0..(Len(text) - 1)
SharedMatches(list, r, text, starts) == UNION { SharedFrom(list, r, text, s) : s \in starts }
OrdinaryMatches(list, text) == UNION { OrdinaryFrom(list, text, s) : s \in Starts(text) }
ViewEvents(list, text) ==
    InOrder(SharedMatches(list, 0, text, Starts(text))) \o InOrder(SharedMatches(list, 1, text, Starts(text)))

\* The two views split the events between them, and an event is known by its start and
\* its ordinal.
LEMMA MatchesSplit ==
    ASSUME NEW list \in PatternSets, NEW text, Len(text) \in Nat
    PROVE  /\ OrdinaryMatches(list, text) = SharedMatches(list, 0, text, Starts(text))
                                              \cup SharedMatches(list, 1, text, Starts(text))
           /\ SharedMatches(list, 0, text, Starts(text))
                 \cap SharedMatches(list, 1, text, Starts(text)) = {}
           /\ IsFiniteSet(OrdinaryMatches(list, text))
           /\ Distinct(OrdinaryMatches(list, text))
<1> DEFINE All == OrdinaryMatches(list, text)
           first == SharedMatches(list, 0, text, Starts(text))
           second == SharedMatches(list, 1, text, Starts(text))
<1>1. ASSUME NEW x
      PROVE  x \in All <=> \E s \in Starts(text), o \in Ordinal : Owed(list, text, s, o) /\ x = Event(list, text, s, o)
    <2>1. \A s \in Starts(text) : x \in OrdinaryFrom(list, text, s) <=>
              \E o \in Ordinal : Owed(list, text, s, o) /\ x = Event(list, text, s, o)
        <3>1. Starts(text) \subseteq 0..Len(text)
            BY DEF Starts
        <3>2. QED
            BY <3>1, OrdinaryFromIs
    <2>2. x \in All <=> \E s \in Starts(text) : x \in OrdinaryFrom(list, text, s)
        BY DEF OrdinaryMatches
    <2>3. QED
        BY <2>1, <2>2, Zenon
<1>2. ASSUME NEW r \in {0, 1}, NEW x
      PROVE  x \in SharedMatches(list, r, text, Starts(text)) <=>
                \E s \in Starts(text), o \in Ordinal :
                    Owed(list, text, s, o) /\ RootOf(list[o + 1]) = r /\ x = Event(list, text, s, o)
    <2>1. \A s \in Starts(text) : x \in SharedFrom(list, r, text, s) <=>
              \E o \in Ordinal : /\ Owed(list, text, s, o) /\ RootOf(list[o + 1]) = r
                                 /\ x = Event(list, text, s, o)
        <3>1. Starts(text) \subseteq 0..Len(text)
            BY DEF Starts
        <3>2. QED
            BY <3>1, SharedFromIs
    <2>2. x \in SharedMatches(list, r, text, Starts(text))
             <=> \E s \in Starts(text) : x \in SharedFrom(list, r, text, s)
        BY DEF SharedMatches
    <2>3. QED
        BY <2>1, <2>2, Zenon
<1>3. \A o : RootOf(list[o + 1]) = 0 \/ RootOf(list[o + 1]) = 1
    BY DEF RootOf, AssertionFreeRoot, AssertionBearingRoot
<1>4. \A s, o : Event(list, text, s, o)[1] = s /\ Event(list, text, s, o)[2] = o
    BY DEF Event
<1> HIDE DEF All, first, second
<1>5. All = first \cup second
    <2>1. ASSUME NEW x PROVE x \in All <=> x \in first \/ x \in second
        BY <1>1, <1>2, <1>3, Zenon DEF first, second
    <2>2. QED
        BY <2>1
<1>6. first \cap second = {}
    <2> SUFFICES ASSUME NEW x, x \in first, x \in second PROVE FALSE
        BY Zenon
    <2>1. PICK s \in Starts(text), o \in Ordinal : RootOf(list[o + 1]) = 0 /\ x = Event(list, text, s, o)
        BY <1>2, Zenon DEF first
    <2>2. PICK t \in Starts(text), p \in Ordinal : RootOf(list[p + 1]) = 1 /\ x = Event(list, text, t, p)
        BY <1>2, Zenon DEF second
    <2>3. x[2] = o
        BY <1>4, <2>1
    <2>4. x[2] = p
        BY <1>4, <2>2
    <2>5. QED
        BY <2>1, <2>2, <2>3, <2>4
<1>7. Distinct(All)
    <2>1. ASSUME NEW x \in All PROVE x[1] \in Nat /\ x[2] \in Nat
        <3>1. PICK s \in Starts(text), o \in Ordinal : x = Event(list, text, s, o)
            BY <1>1
        <3>2. s \in Nat /\ o \in Nat
            BY AlphabetAssumption DEF Starts
        <3>3. QED
            BY <1>4, <3>1, <3>2
    <2>2. ASSUME NEW x \in All, NEW y \in All, x[1] = y[1], x[2] = y[2] PROVE x = y
        <3>1. PICK s \in Starts(text), o \in Ordinal : x = Event(list, text, s, o)
            BY <1>1
        <3>2. PICK t \in Starts(text), p \in Ordinal : y = Event(list, text, t, p)
            BY <1>1
        <3>3. s = t /\ o = p
            BY <1>4, <2>2, <3>1, <3>2
        <3>4. QED
            BY <3>1, <3>2, <3>3
    <2>3. QED
        BY <2>1, <2>2 DEF Distinct
<1>8. IsFiniteSet(All)
    <2> DEFINE D == Starts(text) \X Ordinal
               g == [y \in D |-> Event(list, text, y[1], y[2])]
               T == { g[y] : y \in D }
    <2>1. IsFiniteSet(Starts(text)) /\ IsFiniteSet(Ordinal)
        BY FS_Interval, AlphabetAssumption DEF Starts
    <2>2. IsFiniteSet(D)
        BY <2>1, FS_Product
    <2>3. g \in Surjection(D, T)
        <3> HIDE DEF D
        <3>1. g \in [D -> T]
            OBVIOUS
        <3> HIDE DEF g
        <3>2. QED
            BY <3>1 DEF Surjection
    <2>4. IsFiniteSet(T)
        <3> HIDE DEF D, g, T
        <3>1. QED
            BY <2>2, <2>3, FS_Surjection
    <2>5. ASSUME NEW x \in All PROVE x \in T
        <3>1. PICK s \in Starts(text), o \in Ordinal : x = Event(list, text, s, o)
            BY <1>1
        <3>2. << s, o >> \in D
            OBVIOUS
        <3>3. g[<< s, o >>] = x
            BY <3>1, <3>2
        <3> HIDE DEF D, g
        <3>4. QED
            BY <3>2, <3>3
    <2>6. All \in SUBSET T
        BY <2>5
    <2> HIDE DEF T
    <2>7. QED
        BY <2>4, <2>6, FS_Subset
<1>9. QED
    BY <1>5, <1>6, <1>7, <1>8 DEF All, first, second

LEMMA ConcatenationOf ==
    ASSUME NEW S, NEW a \in Seq(S), NEW b \in Seq(S)
    PROVE  ToSet(a \o b) = ToSet(a) \cup ToSet(b)
<1>1. /\ a \o b \in Seq(S) /\ Len(a \o b) = Len(a) + Len(b)
      /\ \A i \in 1..(Len(a) + Len(b)) : (a \o b)[i] = IF i <= Len(a) THEN a[i] ELSE b[i - Len(a)]
    BY ConcatProperties
<1>2. Len(a) \in Nat /\ Len(b) \in Nat
    BY LenProperties
<1>3. /\ ToSet(a \o b) = { (a \o b)[i] : i \in 1..(Len(a) + Len(b)) }
      /\ ToSet(a) = { a[i] : i \in 1..Len(a) } /\ ToSet(b) = { b[i] : i \in 1..Len(b) }
    BY <1>1, LenProperties DEF ToSet
<1>4. ASSUME NEW x \in ToSet(a \o b) PROVE x \in ToSet(a) \cup ToSet(b)
    <2>1. PICK i \in 1..(Len(a) + Len(b)) : x = (a \o b)[i]
        BY <1>3
    <2>2. CASE i <= Len(a)
        BY <1>1, <1>2, <1>3, <2>1, <2>2
    <2>3. CASE ~ (i <= Len(a))
        <3>1. i - Len(a) \in 1..Len(b)
            BY <1>2, <2>3
        <3>2. x = b[i - Len(a)]
            BY <1>1, <2>1, <2>3
        <3>3. QED
            BY <1>3, <3>1, <3>2
    <2>4. QED
        BY <2>2, <2>3
<1>5. ASSUME NEW x \in ToSet(a) PROVE x \in ToSet(a \o b)
    <2>1. PICK i \in 1..Len(a) : x = a[i]
        BY <1>3
    <2>2. i \in 1..(Len(a) + Len(b)) /\ i <= Len(a)
        BY <1>2
    <2>3. QED
        BY <1>1, <1>3, <2>1, <2>2
<1>6. ASSUME NEW x \in ToSet(b) PROVE x \in ToSet(a \o b)
    <2>1. PICK i \in 1..Len(b) : x = b[i]
        BY <1>3
    <2>2. /\ Len(a) + i \in 1..(Len(a) + Len(b)) /\ ~ (Len(a) + i <= Len(a))
          /\ (Len(a) + i) - Len(a) = i
        BY <1>2
    <2>3. (a \o b)[Len(a) + i] = x
        BY <1>1, <2>1, <2>2
    <2>4. QED
        BY <1>3, <2>2, <2>3
<1>7. QED
    BY <1>4, <1>5, <1>6

\* The views' events, one view after the other, are the ordinary ones, each once.
LEMMA ViewsDeliver ==
    ASSUME NEW list \in PatternSets, NEW text, Len(text) \in Nat
    PROVE  /\ ViewEvents(list, text) \in Seq(OrdinaryMatches(list, text))
           /\ ToSet(ViewEvents(list, text)) = OrdinaryMatches(list, text)
           /\ Len(ViewEvents(list, text)) = Cardinality(OrdinaryMatches(list, text))
<1> DEFINE All == OrdinaryMatches(list, text)
           first == SharedMatches(list, 0, text, Starts(text))
           second == SharedMatches(list, 1, text, Starts(text))
<1>1. All = first \cup second /\ first \cap second = {} /\ IsFiniteSet(All) /\ Distinct(All)
    BY MatchesSplit
<1>2. ViewEvents(list, text) = InOrder(first) \o InOrder(second)
    BY Zenon DEF ViewEvents
<1> HIDE DEF All, first, second
<1>3. IsFiniteSet(first) /\ IsFiniteSet(second)
    BY <1>1, FS_Subset
<1>4. Distinct(first) /\ Distinct(second)
    BY <1>1 DEF Distinct
<1>5. /\ InOrder(first) \in Seq(first) /\ Len(InOrder(first)) = Cardinality(first)
      /\ ToSet(InOrder(first)) = first
      /\ InOrder(second) \in Seq(second) /\ Len(InOrder(second)) = Cardinality(second)
      /\ ToSet(InOrder(second)) = second
    BY <1>3, <1>4, InOrderFacts
<1>6. InOrder(first) \in Seq(All) /\ InOrder(second) \in Seq(All)
    <2>1. first \subseteq All /\ second \subseteq All
        BY <1>1
    <2>2. QED
        BY <1>5, <2>1
<1>7. /\ InOrder(first) \o InOrder(second) \in Seq(All)
      /\ Len(InOrder(first) \o InOrder(second)) = Cardinality(first) + Cardinality(second)
    BY <1>5, <1>6, ConcatProperties
<1>8. ToSet(InOrder(first) \o InOrder(second)) = All
    BY <1>1, <1>5, <1>6, ConcatenationOf
<1>9. Cardinality(All) = Cardinality(first) + Cardinality(second)
    <2>1. Cardinality(first \cup second)
            = Cardinality(first) + Cardinality(second) - Cardinality(first \cap second)
        BY <1>3, FS_Union, Zenon
    <2>2. Cardinality(first \cap second) = 0
        BY <1>1, FS_EmptySet
    <2>3. Cardinality(first) \in Nat /\ Cardinality(second) \in Nat
        BY <1>3, FS_CardinalityType
    <2>4. QED
        BY <1>1, <2>1, <2>2, <2>3
<1>10. QED
    BY <1>2, <1>7, <1>8, <1>9 DEF All

-----------------------------------------------------------------------------
(* The starts that show the prefix. *)

LEMMA PrefixUnits ==
    ASSUME NEW e, NEW units \in StrictPrefix(e)
    PROVE  /\ units \in [1..PrefixLength -> PrefixSymbol]
           /\ \A other \in StrictPrefix(e) : other = units
<1> DEFINE leading == { i \in DOMAIN e.items : \A j \in 1..i :
                          e.items[j].kind \in {"Assertion", "Epsilon"} }
           item(i) == e.items[Cardinality(leading) + i]
           strict == /\ e.kind = "Sequence"
                     /\ \E i \in leading : e.items[i].kind = "Assertion"
                     /\ Cardinality(leading) + PrefixLength <= Len(e.items)
                     /\ \A i \in 1..PrefixLength :
                          item(i).kind = "Symbol" /\ item(i).symbol \in PrefixSymbol
           found == [i \in 1..PrefixLength |-> item(i).symbol]
<1>1. StrictPrefix(e) = IF strict THEN { found } ELSE {}
    BY Zenon DEF StrictPrefix
<1>2. strict => found \in [1..PrefixLength -> PrefixSymbol]
    <2> HIDE DEF leading
    <2>1. QED
        OBVIOUS
<1> HIDE DEF found, strict
<1>3. QED
    BY <1>1, <1>2

\* The starts of an input that show one of the prefixes.
Showing(text, pre) ==
    { s \in Starts(text) : /\ s + PrefixLength <= Len(text)
                          /\ SubSeq(text, s + 1, s + PrefixLength) \in pre }

LEMMA ShownUnits ==
    ASSUME NEW text \in Seq(Symbol), NEW s \in Starts(text),
           NEW units \in [1..PrefixLength -> PrefixSymbol], Shows(text, s, units)
    PROVE  s + PrefixLength <= Len(text) /\ SubSeq(text, s + 1, s + PrefixLength) = units
<1> DEFINE P == PrefixLength
           part == SubSeq(text, s + 1, s + P)
<1>1. P \in Nat /\ P >= 1 /\ s \in Nat /\ Len(text) \in Nat
    BY PrefixAssumption DEF Starts
<1>2. units \in Seq(PrefixSymbol) /\ Len(units) = P
    <2> HIDE DEF P
    <2>1. units \in [1..P -> PrefixSymbol]
        BY DEF P
    <2>2. QED
        BY <1>1, <2>1
<1>3. s + P <= Len(text) /\ \A i \in 1..P : text[s + i] = units[i]
    BY <1>2 DEF Shows
<1> HIDE DEF P
<1>4. \A i \in (s + 1)..(s + P) : text[i] \in Symbol
    <2>1. \A i \in 1..Len(text) : text[i] \in Symbol
        OBVIOUS
    <2>2. QED
        BY <1>1, <1>3, <2>1
<1>5. s + 1 \in Int /\ s + P \in Int
    BY <1>1
<1>6. /\ part \in Seq(Symbol)
      /\ Len(part) = IF s + 1 <= s + P THEN (s + P) - (s + 1) + 1 ELSE 0
      /\ \A i \in 1..((s + P) - (s + 1) + 1) : part[i] = text[(s + 1) + i - 1]
    BY <1>4, <1>5, SubSeqProperties
<1>7. Len(part) = P
    BY <1>1, <1>6
<1>8. ASSUME NEW i \in 1..P PROVE part[i] = units[i]
    <2>1. i \in 1..((s + P) - (s + 1) + 1) /\ (s + 1) + i - 1 = s + i
        BY <1>1
    <2>2. part[i] = text[(s + 1) + i - 1]
        BY <1>6, <2>1
    <2>3. QED
        BY <1>3, <2>1, <2>2
<1> HIDE DEF part
<1>9. part = units
    <2>1. part = [i \in 1..P |-> part[i]]
        BY <1>6, <1>7, LenProperties
    <2>2. units = [i \in 1..P |-> units[i]]
        BY DEF P
    <2>3. QED
        BY <1>8, <2>1, <2>2, Zenon
<1>10. QED
    BY <1>3, <1>9 DEF part, P

\* Every bearing pattern of the list has the prefix.
HasPrefix(list, pre, n) ==
    pre # {} /\ \A m \in 1..n : HasAssertions(list[m]) => StrictPrefix(list[m]) = pre

LEMMA CandidatesSuffice ==
    ASSUME NEW list \in PatternSets, NEW text \in Seq(Symbol), NEW pre,
           HasPrefix(list, pre, Len(list))
    PROVE  SharedMatches(list, 1, text, Showing(text, pre)) = SharedMatches(list, 1, text, Starts(text))
<1>1. ASSUME NEW s \in Starts(text), NEW x \in SharedFrom(list, 1, text, s)
      PROVE  s \in Showing(text, pre)
    <2>1. s \in 0..Len(text) /\ Len(text) \in Nat
        BY DEF Starts
    <2>2. PICK o \in Ordinal : Owed(list, text, s, o) /\ RootOf(list[o + 1]) = 1
        BY <2>1, SharedFromIs
    <2> DEFINE e == list[o + 1]
    <2>3. o + 1 \in 1..Len(list) /\ FragmentEnds(Fragment(e), text, s) # {}
        BY <2>2, ListFacts DEF Owed
    <2>4. HasAssertions(e)
        BY <2>2 DEF RootOf, AssertionFreeRoot, AssertionBearingRoot
    <2>5. StrictPrefix(e) = pre /\ pre # {}
        BY <2>3, <2>4 DEF HasPrefix
    <2>6. PICK units \in StrictPrefix(e) : TRUE
        BY <2>5
    <2>7. units \in [1..PrefixLength -> PrefixSymbol]
        BY PrefixUnits
    <2>8. Len(units) \in Nat
        BY <2>7, PrefixAssumption
    <2>9. IsFragment(Fragment(e)) /\ Requires(Fragment(e), units)
        BY <2>3, ListFacts
    <2> HIDE DEF e
    <2>10. Shows(text, s, units)
        BY <2>1, <2>3, <2>8, <2>9, RequiredIsShown
    <2>11. s + PrefixLength <= Len(text) /\ SubSeq(text, s + 1, s + PrefixLength) = units
        BY <2>7, <2>10, ShownUnits
    <2>12. QED
        BY <2>5, <2>6, <2>11 DEF Showing
<1>2. Showing(text, pre) \subseteq Starts(text)
    BY DEF Showing
<1>3. QED
    BY <1>1, <1>2 DEF SharedMatches

-----------------------------------------------------------------------------
(* The invariant. *)

Passes(text, pre) ==
    LET end == Min({ Len(text), SampleLength })
    IN  /\ ~ (Len(text) < MinInput)
        /\ ~ (2 * Cardinality({ s \in 0..(end - 1) :
                      /\ s + PrefixLength <= Len(text)
                      /\ SubSeq(text, s + 1, s + PrefixLength) \in pre }) >= end)

Unserved == {"compile", "ready", "preflight", "free", "plan", "bearing"}

Building ==
    /\ patterns \in PatternSets /\ compiled \in 0..Len(patterns)
    /\ built = SharedCompilations(patterns)[compiled]
    /\ prefix # {} => HasPrefix(patterns, prefix, compiled)
    /\ prefix = {} /\ prefix_possible => \A m \in 1..compiled : ~ HasAssertions(patterns[m])
    /\ stage \in {"compile", "ineligible"} \/ (prefix # {} /\ compiled = Len(patterns))

\* The arguments, and what preflight and plan decided.
Decided ==
    /\ stage \in {"compile", "ineligible", "ready"}
          \/ (input \in Texts /\ policy \in {"RequireSpecialized", "AllowExactFallback"})
    /\ stage \in Unserved \ {"bearing"} => decision = None
    /\ stage = "preflight" => policy = "RequireSpecialized"
    /\ stage \in {"free", "plan"} /\ policy = "RequireSpecialized" => Passes(input, prefix)
    /\ stage \in {"bearing", "deliver"} /\ policy = "RequireSpecialized" => decision = "Activated"
    /\ stage = "bearing" /\ decision = "Activated" => candidates = Showing(input, prefix)

\* What was buffered, delivered and returned.
Served ==
    /\ stage \in Unserved => outcome = None /\ delivered = << >>
    /\ stage \in {"plan", "bearing"} => events = InOrder(SharedMatches(patterns, 0, input, Starts(input)))
    /\ stage = "ineligible" =>
          /\ delivered = << >>
          /\ outcome \in {"NoAssertionBearingPatterns", "TooFewAssertionBearingPatterns",
                          "NoSharedFiveUnitAsciiPrefix"}
    /\ stage = "deliver" =>
          /\ events = ViewEvents(patterns, input) /\ outcome = None
          /\ Len(delivered) \in 0..Len(events) /\ delivered = SubSeq(events, 1, Len(delivered))
    /\ stage = "ended" =>
          \/ /\ outcome = "SpecializationUnavailable" /\ policy = "RequireSpecialized"
             /\ decision = None /\ delivered = << >>
          \/ outcome = "Matcher" /\ delivered = << >>
          \/ /\ outcome = "panic" /\ events = ViewEvents(patterns, input)
             /\ delivered = SubSeq(events, 1, Len(delivered))
          \/ /\ outcome \in {"AssertionPrefixV1", "GenericExactFallback"}
             /\ events = ViewEvents(patterns, input) /\ delivered = events
             /\ outcome = "GenericExactFallback" => policy = "AllowExactFallback"

PrefixInv ==
    /\ stage \in Unserved \cup {"ineligible", "deliver", "ended"}
    /\ Building /\ Decided /\ Served

LEMMA TextFacts ==
    ASSUME NEW text \in Texts
    PROVE  text \in Seq(Symbol) /\ Len(text) \in Nat
BY PrefixAssumption

LEMMA PrefixBegins == ASSUME PrefixInit PROVE PrefixInv
<1> USE DEF PrefixInit
<1>1. stage = "compile"
    OBVIOUS
<1>2. Building
    <2>1. Len(patterns) \in Nat
        BY ListFacts
    <2>2. built = SharedCompilations(patterns)[0]
        BY SharedFollows
    <2>3. QED
        BY <2>1, <2>2 DEF Building
<1>3. Decided
    BY DEF Decided, Unserved
<1>4. Served
    BY DEF Served, Unserved
<1>5. QED
    BY <1>1, <1>2, <1>3, <1>4 DEF PrefixInv, Unserved

\* The build.
LEMMA CompileFreeInv == ASSUME PrefixInv, CompileFree PROVE PrefixInv'
<1> USE DEF CompileFree
<1>1. stage = "compile" /\ stage' = stage
    OBVIOUS
<1>2. Building'
    <2>1. /\ patterns \in PatternSets /\ compiled \in 0..Len(patterns)
          /\ Len(patterns) \in Nat /\ patterns' = patterns
        BY ListFacts DEF PrefixInv, Building
    <2>2. compiled' = compiled + 1 /\ compiled' \in 1..Len(patterns) /\ compiled' - 1 = compiled
        BY <2>1
    <2>3. RootOf(patterns[compiled']) = AssertionFreeRoot
        BY <2>2 DEF RootOf
    <2>4. built' = SharedCompilations(patterns)[compiled']
        <3>1. SharedCompilations(patterns)[compiled']
                = CompileOf(SharedCompilations(patterns)[compiled' - 1], patterns[compiled'], compiled' - 1,
                            RootOf(patterns[compiled']))
            BY <2>1, <2>2, SharedFollows
        <3>2. built = SharedCompilations(patterns)[compiled]
            BY DEF PrefixInv, Building
        <3>3. built' = CompileOf(built, patterns[compiled'], compiled, AssertionFreeRoot)
            BY <2>2
        <3>4. QED
            BY <2>2, <2>3, <3>1, <3>2, <3>3
    <2>5. \A m \in 1..compiled' : m \in 1..compiled \/ m = compiled'
        BY <2>1, <2>2
    <2>6. ~ HasAssertions(patterns[compiled'])
        BY <2>2
    <2>7. prefix # {} => HasPrefix(patterns, prefix, compiled')
        BY <2>5, <2>6 DEF PrefixInv, Building, HasPrefix
    <2>8. prefix = {} /\ prefix_possible => \A m \in 1..compiled' : ~ HasAssertions(patterns[m])
        BY <2>5, <2>6 DEF PrefixInv, Building
    <2>9. prefix' = prefix /\ prefix_possible' = prefix_possible
        OBVIOUS
    <2>10. compiled' \in 0..Len(patterns)
        BY <2>2
    <2>11. QED
        BY <1>1, <2>1, <2>4, <2>7, <2>8, <2>9, <2>10 DEF Building
<1>3. Decided' /\ Served'
    BY <1>1 DEF PrefixInv, Decided, Served, Unserved, callVars, argumentVars
<1>4. QED
    BY <1>1, <1>2, <1>3 DEF PrefixInv, Unserved

LEMMA CompileBearingInv == ASSUME PrefixInv, CompileBearing PROVE PrefixInv'
<1> USE DEF CompileBearing
<1>1. stage = "compile" /\ stage' = stage
    OBVIOUS
<1>2. Building'
    <2>1. /\ patterns \in PatternSets /\ compiled \in 0..Len(patterns)
          /\ Len(patterns) \in Nat /\ patterns' = patterns
        BY ListFacts DEF PrefixInv, Building
    <2>2. compiled' = compiled + 1 /\ compiled' \in 1..Len(patterns) /\ compiled' - 1 = compiled
        BY <2>1
    <2> DEFINE e == patterns[compiled']
    <2>3. HasAssertions(e) /\ RootOf(e) = AssertionBearingRoot /\ NotePrefix(e)
        BY <2>2 DEF RootOf
    <2>4. built' = SharedCompilations(patterns)[compiled']
        <3>1. SharedCompilations(patterns)[compiled']
                = CompileOf(SharedCompilations(patterns)[compiled' - 1], e, compiled' - 1, RootOf(e))
            BY <2>1, <2>2, SharedFollows
        <3>2. built = SharedCompilations(patterns)[compiled]
            BY DEF PrefixInv, Building
        <3>3. built' = CompileOf(built, e, compiled, AssertionBearingRoot)
            BY <2>2
        <3>4. QED
            BY <2>2, <2>3, <3>1, <3>2, <3>3
    <2>5. \A m \in 1..compiled' : m \in 1..compiled \/ m = compiled'
        BY <2>1, <2>2
    <2>6. prefix' # {} => HasPrefix(patterns, prefix', compiled')
        <3> SUFFICES ASSUME prefix' # {} PROVE HasPrefix(patterns, prefix', compiled')
            OBVIOUS
        <3>1. /\ prefix_possible /\ StrictPrefix(e) # {} /\ prefix \subseteq StrictPrefix(e)
              /\ prefix' = StrictPrefix(e)
            BY <2>3 DEF NotePrefix
        <3>2. ASSUME NEW m \in 1..compiled, HasAssertions(patterns[m])
              PROVE  StrictPrefix(patterns[m]) = prefix'
            <4>1. prefix # {}
                BY <3>1, <3>2 DEF PrefixInv, Building
            <4>2. StrictPrefix(patterns[m]) = prefix
                BY <3>2, <4>1 DEF PrefixInv, Building, HasPrefix
            <4>3. prefix = StrictPrefix(e)
                BY <3>1, <4>1, PrefixUnits
            <4>4. QED
                BY <3>1, <4>2, <4>3
        <3> HIDE DEF e
        <3>3. QED
            BY <2>5, <3>1, <3>2 DEF HasPrefix, e
    <2>7. prefix' = {} => ~ prefix_possible'
        BY <2>3 DEF NotePrefix
    <2>8. compiled' \in 0..Len(patterns)
        BY <2>2
    <2> HIDE DEF e
    <2>9. QED
        BY <1>1, <2>1, <2>4, <2>6, <2>7, <2>8 DEF Building
<1>3. Decided' /\ Served'
    BY <1>1 DEF PrefixInv, Decided, Served, Unserved, callVars, argumentVars
<1>4. QED
    BY <1>1, <1>2, <1>3 DEF PrefixInv, Unserved

\* A step that leaves the build behind it.
LEMMA BuildingKept ==
    ASSUME PrefixInv, UNCHANGED matcherVars, stage \notin {"compile", "ineligible"}
    PROVE  Building'
BY DEF PrefixInv, Building, matcherVars

LEMMA BuildEndsInv == ASSUME PrefixInv, Ineligible \/ FinishBuild PROVE PrefixInv'
<1>1. Building'
    BY DEF PrefixInv, Building, Ineligible, FinishBuild, Compiled, matcherVars
<1>2. Decided' /\ Served' /\ stage' \in {"ineligible", "ready"}
    BY DEF PrefixInv, Decided, Served, Unserved, Ineligible, FinishBuild, Compiled, callVars, argumentVars
<1>3. QED
    BY <1>1, <1>2 DEF PrefixInv, Unserved

\* The call up to the plan.
LEMMA CallBeginsInv ==
    ASSUME PrefixInv, NEW text \in Texts, NEW requested \in {"RequireSpecialized", "AllowExactFallback"},
           ScanWithPolicy(text, requested)
    PROVE  PrefixInv'
<1>1. stage = "ready" /\ stage' \in {"preflight", "free"}
      /\ (stage' = "free" => requested = "AllowExactFallback")
    BY DEF ScanWithPolicy
<1>2. Building'
    BY <1>1, BuildingKept DEF ScanWithPolicy
<1>3. Decided'
    BY <1>1 DEF PrefixInv, Decided, Unserved, ScanWithPolicy
<1>4. Served'
    BY <1>1 DEF PrefixInv, Served, Unserved, ScanWithPolicy
<1>5. QED
    BY <1>1, <1>2, <1>3, <1>4 DEF PrefixInv, Unserved

\* Preflight and plan look at the same sample.
LEMMA PreflightIs ==
    PreflightDecision = "Activated" <=> Passes(input, prefix)
BY DEF PreflightDecision, Passes, ScanPrefix, SampleEnd

LEMMA PreflightInv == ASSUME PrefixInv, Preflight PROVE PrefixInv'
<1>1. stage = "preflight" /\ stage' = "free" /\ Passes(input, prefix)
    BY PreflightIs DEF Preflight
<1>2. Building'
    BY <1>1, BuildingKept DEF Preflight
<1>3. prefix' = prefix /\ input' = input
    BY DEF Preflight, matcherVars, callVars, argumentVars
<1>4. Passes(input', prefix')
    BY <1>1, <1>3
<1>5. Decided'
    BY <1>1, <1>4 DEF PrefixInv, Decided, Unserved, Preflight, callVars, argumentVars
<1>6. Served'
    BY <1>1 DEF PrefixInv, Served, Unserved, Preflight, callVars, argumentVars
<1>7. QED
    BY <1>1, <1>2, <1>5, <1>6 DEF PrefixInv, Unserved

LEMMA RefuseInv == ASSUME PrefixInv, Refuse PROVE PrefixInv'
<1>1. stage = "preflight" /\ stage' = "ended"
    BY DEF Refuse
<1>2. Building'
    BY <1>1, BuildingKept DEF Refuse
<1>3. Decided'
    BY <1>1 DEF PrefixInv, Decided, Unserved, Refuse, argumentVars
<1>4. policy = "RequireSpecialized"
    BY <1>1 DEF PrefixInv, Decided
<1>5. Served'
    BY <1>1, <1>4 DEF PrefixInv, Decided, Served, Unserved, Refuse, argumentVars
<1>6. QED
    BY <1>1, <1>2, <1>3, <1>5 DEF PrefixInv, Unserved

\* What the engine reports is what the database matches.
LEMMA EventsFromIs ==
    ASSUME Building, stage \notin {"compile", "ineligible"}, NEW root, NEW starts
    PROVE  EventsFrom(root, starts) = InOrder(SharedMatches(patterns, root, input, starts))
<1>1. built = SharedCompilations(patterns)[Len(patterns)]
    BY DEF Building
<1>2. SharedMatches(patterns, root, input, starts)
        = UNION { LongestMatches(Freeze(built), root, input, s) : s \in starts }
    BY <1>1, Zenon DEF SharedMatches, SharedFrom
<1>3. QED
    BY <1>2, Zenon DEF EventsFrom

LEMMA ScanFreeViewInv == ASSUME PrefixInv, ScanFreeView PROVE PrefixInv'
<1>1. stage = "free" /\ stage' = "plan"
    BY DEF ScanFreeView
<1>2. Building'
    BY <1>1, BuildingKept DEF ScanFreeView
<1>3. /\ patterns' = patterns /\ prefix' = prefix /\ input' = input
      /\ events' = EventsFrom(AssertionFreeRoot, AllStarts)
    BY DEF ScanFreeView, matcherVars, argumentVars
<1>4. events' = InOrder(SharedMatches(patterns, 0, input, Starts(input)))
    <2>1. AllStarts = Starts(input) /\ AssertionFreeRoot = 0
        BY DEF AllStarts, Starts, AssertionFreeRoot
    <2>2. EventsFrom(0, Starts(input)) = InOrder(SharedMatches(patterns, 0, input, Starts(input)))
        BY <1>1, EventsFromIs DEF PrefixInv
    <2>3. QED
        BY <1>3, <2>1, <2>2
<1>5. Decided'
    BY <1>1, <1>3 DEF PrefixInv, Decided, Unserved, ScanFreeView, argumentVars
<1>6. Served'
    BY <1>1, <1>3, <1>4 DEF PrefixInv, Served, Unserved, ScanFreeView, argumentVars
<1>7. QED
    BY <1>1, <1>2, <1>5, <1>6 DEF PrefixInv, Unserved

\* The plan.
LEMMA SampleIs ==
    ASSUME PrefixInv, stage = "plan"
    PROVE  /\ Cardinality(Sample) \in Nat /\ SampleEnd \in 0..Len(input)
           /\ Sample \cup ScanPrefix(SampleEnd, Len(input)) = Showing(input, prefix)
           /\ Passes(input, prefix) => /\ ~ (Len(input) < MinInput)
                                      /\ ~ (Cardinality(Sample) * 2 >= SampleEnd)
<1>1. Len(input) \in Nat /\ SampleLength \in Nat
    BY TextFacts, PrefixAssumption DEF PrefixInv, Decided
<1>2. SampleEnd \in 0..Len(input)
    <2> DEFINE S == { Len(input), SampleLength }
    <2>1. S \in SUBSET Nat /\ S # {} /\ Len(input) \in S
        BY <1>1
    <2>2. SampleEnd = Min(S)
        BY Zenon DEF SampleEnd
    <2> HIDE DEF S
    <2>3. Min(S) \in S /\ \A y \in S : Min(S) <= y
        BY <2>1, MinIsMember
    <2>4. Min(S) \in Nat /\ Min(S) <= Len(input)
        BY <2>1, <2>3
    <2>5. QED
        BY <1>1, <2>2, <2>4
<1>3. Cardinality(Sample) \in Nat
    <2>1. Sample \in SUBSET (0..(SampleEnd - 1))
        BY DEF Sample, ScanPrefix
    <2>2. IsFiniteSet(0..(SampleEnd - 1))
        BY <1>2, FS_Interval
    <2>3. IsFiniteSet(Sample)
        BY <2>1, <2>2, FS_Subset
    <2>4. QED
        BY <2>3, FS_CardinalityType
<1>4. Sample \cup ScanPrefix(SampleEnd, Len(input)) = Showing(input, prefix)
    <2>1. \A s : s \in 0..(Len(input) - 1) <=> s \in 0..(SampleEnd - 1) \/ s \in SampleEnd..(Len(input) - 1)
        BY <1>1, <1>2
    <2>2. QED
        BY <2>1 DEF Sample, ScanPrefix, Showing, Starts
<1>5. Passes(input, prefix) <=> ~ (Len(input) < MinInput) /\ ~ (2 * Cardinality(Sample) >= SampleEnd)
    BY DEF Passes, Sample, ScanPrefix, SampleEnd
<1>6. 2 * Cardinality(Sample) = Cardinality(Sample) * 2
    BY <1>3
<1>7. QED
    BY <1>2, <1>3, <1>4, <1>5, <1>6

LEMMA PlanInv ==
    ASSUME PrefixInv, PlanInputSize \/ PlanDense \/ PlanCandidates
    PROVE  PrefixInv'
<1> USE DEF PlanInputSize, PlanDense, PlanCandidates
<1>1. /\ stage = "plan" /\ stage' = "bearing" /\ UNCHANGED <<matcherVars, argumentVars>>
      /\ UNCHANGED <<events, delivered, outcome>>
    OBVIOUS
<1>2. Building'
    BY <1>1, BuildingKept
<1>3. prefix' = prefix /\ input' = input /\ patterns' = patterns /\ policy' = policy
    BY <1>1 DEF matcherVars, argumentVars
<1>4. policy = "RequireSpecialized" => decision' = "Activated"
    <2> SUFFICES ASSUME policy = "RequireSpecialized" PROVE PlanCandidates
        BY DEF PlanCandidates
    <2>1. Passes(input, prefix)
        BY <1>1 DEF PrefixInv, Decided
    <2>2. QED
        BY <1>1, <2>1, SampleIs
<1>5. decision' = "Activated" => candidates' = Showing(input, prefix)
    BY <1>1, SampleIs
<1>6. Decided'
    BY <1>1, <1>3, <1>4, <1>5 DEF PrefixInv, Decided, Unserved
<1>7. Served'
    BY <1>1, <1>3 DEF PrefixInv, Served, Unserved
<1>8. QED
    BY <1>1, <1>2, <1>6, <1>7 DEF PrefixInv, Unserved

\* The second view, and its errors.
LEMMA ScanBearingViewInv == ASSUME PrefixInv, ScanBearingView PROVE PrefixInv'
<1>1. /\ stage = "bearing" /\ UNCHANGED <<matcherVars, argumentVars, decision, candidates, delivered>>
      /\ events' = events \o EventsFrom(AssertionBearingRoot,
                                        IF decision = "Activated" THEN candidates ELSE AllStarts)
    BY DEF ScanBearingView
<1>2. policy = "RequireSpecialized" => decision = "Activated"
    BY <1>1 DEF PrefixInv, Decided
<1>3. stage' = "deliver" /\ outcome' = outcome
    BY <1>2 DEF ScanBearingView
<1>4. Building'
    BY <1>1, BuildingKept
<1>5. patterns' = patterns /\ prefix' = prefix /\ input' = input /\ policy' = policy
    BY <1>1 DEF matcherVars, argumentVars
<1>6. events' = ViewEvents(patterns, input)
    <2> DEFINE starts == IF decision = "Activated" THEN candidates ELSE AllStarts
    <2>1. EventsFrom(AssertionBearingRoot, starts) = InOrder(SharedMatches(patterns, 1, input, starts))
        <3>1. AssertionBearingRoot = 1
            BY DEF AssertionBearingRoot
        <3> HIDE DEF starts
        <3>2. QED
            BY <1>1, <3>1, EventsFromIs DEF PrefixInv
    <2>2. SharedMatches(patterns, 1, input, starts) = SharedMatches(patterns, 1, input, Starts(input))
        <3>1. CASE decision = "Activated"
            <4>1. starts = Showing(input, prefix)
                BY <1>1, <3>1 DEF PrefixInv, Decided
            <4>2. patterns \in PatternSets /\ HasPrefix(patterns, prefix, Len(patterns))
                BY <1>1 DEF PrefixInv, Building
            <4>3. input \in Seq(Symbol)
                BY <1>1, TextFacts DEF PrefixInv, Decided
            <4> HIDE DEF starts
            <4>4. QED
                BY <4>1, <4>2, <4>3, CandidatesSuffice
        <3>2. CASE decision # "Activated"
            BY <3>2 DEF AllStarts, Starts
        <3>3. QED
            BY <3>1, <3>2
    <2>3. events = InOrder(SharedMatches(patterns, 0, input, Starts(input)))
        BY <1>1 DEF PrefixInv, Served
    <2>4. events' = events \o EventsFrom(AssertionBearingRoot, starts)
        BY <1>1
    <2> HIDE DEF starts
    <2>5. QED
        BY <2>1, <2>2, <2>3, <2>4, Zenon DEF ViewEvents
<1>7. Decided'
    BY <1>1, <1>2, <1>3, <1>5 DEF PrefixInv, Decided, Unserved
<1>8. Served'
    <2>1. outcome = None /\ delivered' = << >>
        BY <1>1 DEF PrefixInv, Served, Unserved
    <2>2. Len(events') \in Nat
        <3>1. Len(input) \in Nat /\ patterns \in PatternSets
            BY <1>1, TextFacts DEF PrefixInv, Decided, Building
        <3>2. ViewEvents(patterns, input) \in Seq(OrdinaryMatches(patterns, input))
            BY <3>1, ViewsDeliver
        <3>3. QED
            BY <1>6, <3>2, LenProperties
    <2>3. Len(<< >>) = 0 /\ SubSeq(events', 1, 0) = << >>
        BY SubSeqEmpty
    <2>4. /\ Len(delivered') \in 0..Len(events')
          /\ delivered' = SubSeq(events', 1, Len(delivered'))
        BY <2>1, <2>2, <2>3
    <2>5. QED
        BY <1>3, <1>5, <1>6, <2>1, <2>4 DEF Served, Unserved
<1>9. QED
    BY <1>3, <1>4, <1>7, <1>8 DEF PrefixInv, Unserved

LEMMA ViewFailsInv == ASSUME PrefixInv, ViewFails PROVE PrefixInv'
<1>1. stage \in {"free", "bearing"} /\ stage' = "ended" /\ outcome' = "Matcher"
    BY DEF ViewFails
<1>2. Building'
    BY <1>1, BuildingKept DEF ViewFails
<1>3. Decided'
    BY <1>1 DEF PrefixInv, Decided, Unserved, ViewFails, argumentVars
<1>4. Served'
    BY <1>1 DEF PrefixInv, Served, Unserved, ViewFails, argumentVars
<1>5. QED
    BY <1>1, <1>2, <1>3, <1>4 DEF PrefixInv, Unserved

\* The callbacks.
LEMMA NextDelivered ==
    ASSUME NEW S, NEW E \in Seq(S), NEW d, Len(d) \in 0..Len(E), d = SubSeq(E, 1, Len(d)), Len(d) < Len(E)
    PROVE  /\ Append(d, E[Len(d) + 1]) = SubSeq(E, 1, Len(d) + 1)
           /\ Len(Append(d, E[Len(d) + 1])) = Len(d) + 1
<1> DEFINE n == Len(d)
           m == n + 1
<1>1. n \in Nat /\ m \in 1..Len(E) /\ 1 \in 1..Len(E)
    BY LenProperties
<1>2. d \in Seq(S)
    <2>1. \A i \in 1..n : E[i] \in S
        BY <1>1
    <2> HIDE DEF n
    <2>2. SubSeq(E, 1, n) \in Seq(S)
        BY <1>1, <2>1, SubSeqProperties
    <2>3. QED
        BY <2>2 DEF n
<1> HIDE DEF n
<1>3. E[m] \in S
    BY <1>1
<1>4. SubSeq(E, 1, m) = SubSeq(E, 1, m - 1) \o << E[m] >>
    BY <1>1, SubSeqRecursiveSecond
<1>5. m - 1 = n
    BY <1>1
<1>6. SubSeq(E, 1, m) = d \o << E[m] >>
    BY <1>4, <1>5 DEF n
<1>7. Append(d, E[m]) = d \o << E[m] >> /\ Len(Append(d, E[m])) = Len(d) + 1
    BY <1>2, <1>3
<1>8. QED
    BY <1>6, <1>7 DEF n

LEMMA DeliverInv == ASSUME PrefixInv, CallbackReturns \/ CallbackPanics PROVE PrefixInv'
<1> USE DEF CallbackReturns, CallbackPanics, Deliver
<1>1. /\ stage = "deliver" /\ UNCHANGED <<matcherVars, argumentVars, events, decision, candidates>>
      /\ Len(delivered) < Len(events)
      /\ delivered' = Append(delivered, events[Len(delivered) + 1])
      /\ \/ stage' = "deliver" /\ outcome' = outcome
         \/ stage' = "ended" /\ outcome' = "panic"
    OBVIOUS
<1>2. Building'
    BY <1>1, BuildingKept
<1>3. patterns' = patterns /\ prefix' = prefix /\ input' = input /\ policy' = policy
    BY <1>1 DEF matcherVars, argumentVars
<1>4. Decided'
    BY <1>1, <1>3 DEF PrefixInv, Decided, Unserved
<1>5. /\ events = ViewEvents(patterns, input) /\ outcome = None
      /\ Len(delivered) \in 0..Len(events) /\ delivered = SubSeq(events, 1, Len(delivered))
    BY <1>1 DEF PrefixInv, Served
<1>6. events \in Seq(OrdinaryMatches(patterns, input))
    <2>1. Len(input) \in Nat /\ patterns \in PatternSets
        BY <1>1, TextFacts DEF PrefixInv, Decided, Building
    <2>2. QED
        BY <1>5, <2>1, ViewsDeliver
<1>7. delivered' = SubSeq(events, 1, Len(delivered) + 1) /\ Len(delivered') = Len(delivered) + 1
    BY <1>1, <1>5, <1>6, NextDelivered
<1>8. Len(delivered') \in 0..Len(events) /\ delivered' = SubSeq(events, 1, Len(delivered'))
    <2>1. Len(events) \in Nat
        BY <1>6, LenProperties
    <2>2. QED
        BY <1>1, <1>5, <1>7, <2>1
<1>9. Served'
    BY <1>1, <1>3, <1>5, <1>8 DEF Served, Unserved
<1>10. QED
    BY <1>1, <1>2, <1>4, <1>9 DEF PrefixInv, Unserved

LEMMA ReportInv == ASSUME PrefixInv, Report PROVE PrefixInv'
<1>1. /\ stage = "deliver" /\ stage' = "ended" /\ Len(delivered) = Len(events)
      /\ UNCHANGED <<matcherVars, argumentVars, events, decision, candidates, delivered>>
      /\ outcome' = IF decision = "Activated" THEN "AssertionPrefixV1" ELSE "GenericExactFallback"
    BY DEF Report
<1>2. Building'
    BY <1>1, BuildingKept
<1>3. patterns' = patterns /\ prefix' = prefix /\ input' = input /\ policy' = policy
    BY <1>1 DEF matcherVars, argumentVars
<1>4. Decided'
    BY <1>1, <1>3 DEF PrefixInv, Decided, Unserved
<1>5. events = ViewEvents(patterns, input) /\ delivered = SubSeq(events, 1, Len(delivered))
    BY <1>1 DEF PrefixInv, Served
<1>6. /\ policy \in {"RequireSpecialized", "AllowExactFallback"}
      /\ policy = "RequireSpecialized" => decision = "Activated"
    BY <1>1 DEF PrefixInv, Decided
<1>7. delivered = events
    <2>1. Len(input) \in Nat /\ patterns \in PatternSets
        BY <1>1, TextFacts DEF PrefixInv, Decided, Building
    <2>2. events \in Seq(OrdinaryMatches(patterns, input))
        BY <1>5, <2>1, ViewsDeliver
    <2>3. SubSeq(events, 1, Len(events)) = events
        BY <2>2, SubSeqFull
    <2>4. QED
        BY <1>1, <1>5, <2>3
<1>8. Served'
    BY <1>1, <1>3, <1>5, <1>6, <1>7 DEF Served, Unserved
<1>9. QED
    BY <1>1, <1>2, <1>4, <1>8 DEF PrefixInv, Unserved

LEMMA PrefixStutterInv == ASSUME PrefixInv, UNCHANGED prefixVars PROVE PrefixInv'
BY DEF PrefixInv, Building, Decided, Served, prefixVars, matcherVars, callVars, argumentVars

LEMMA PrefixInvariant == PrefixSpec => []PrefixInv
<1>1. PrefixInit => PrefixInv
    BY PrefixBegins
<1>2. PrefixInv /\ [PrefixNext]_prefixVars => PrefixInv'
    <2> SUFFICES ASSUME PrefixInv, [PrefixNext]_prefixVars PROVE PrefixInv'
        OBVIOUS
    <2>1. CASE CompileFree
        BY <2>1, CompileFreeInv
    <2>2. CASE CompileBearing
        BY <2>2, CompileBearingInv
    <2>3. CASE Ineligible \/ FinishBuild
        BY <2>3, BuildEndsInv
    <2>4. CASE \E text \in Texts, requested \in {"RequireSpecialized", "AllowExactFallback"} :
                  ScanWithPolicy(text, requested)
        BY <2>4, CallBeginsInv
    <2>5. CASE Preflight
        BY <2>5, PreflightInv
    <2>6. CASE Refuse
        BY <2>6, RefuseInv
    <2>7. CASE ScanFreeView
        BY <2>7, ScanFreeViewInv
    <2>8. CASE PlanInputSize \/ PlanDense \/ PlanCandidates
        BY <2>8, PlanInv
    <2>9. CASE ScanBearingView
        BY <2>9, ScanBearingViewInv
    <2>10. CASE ViewFails
        BY <2>10, ViewFailsInv
    <2>11. CASE CallbackReturns \/ CallbackPanics
        BY <2>11, DeliverInv
    <2>12. CASE Report
        BY <2>12, ReportInv
    <2>13. CASE UNCHANGED prefixVars
        BY <2>13, PrefixStutterInv
    <2>14. QED
        BY <2>1, <2>2, <2>3, <2>4, <2>5, <2>6, <2>7, <2>8, <2>9, <2>10, <2>11, <2>12, <2>13
           DEF PrefixNext
<1>3. QED
    BY <1>1, <1>2, PTL DEF PrefixSpec

LEMMA ServedAsOrdinary == PrefixInv => EventsAreTheOrdinaryOnes
<1> SUFFICES ASSUME PrefixInv, delivered # << >> \/ outcome \in {"AssertionPrefixV1", "GenericExactFallback"}
             PROVE  /\ ToSet(events) = OrdinaryEvents
                    /\ Len(events) = Cardinality(OrdinaryEvents)
                    /\ delivered = SubSeq(events, 1, Len(delivered))
                    /\ outcome # "panic" /\ stage = "ended" => delivered = events
    BY DEF EventsAreTheOrdinaryOnes
<1>1. /\ stage \in {"deliver", "ended"} /\ events = ViewEvents(patterns, input)
      /\ \/ delivered = SubSeq(events, 1, Len(delivered)) /\ (stage = "deliver" \/ outcome = "panic")
         \/ delivered = events
    BY DEF PrefixInv, Served, Unserved, None
<1>2. Len(input) \in Nat /\ patterns \in PatternSets
    BY <1>1, TextFacts DEF PrefixInv, Decided, Building
<1>3. OrdinaryEvents = OrdinaryMatches(patterns, input)
    <2> DEFINE database == Freeze(OrdinaryCompilations(patterns)[Len(patterns)])
    <2>1. database.root = 0
        BY DEF Freeze
    <2>2. OrdinaryEvents = UNION { LongestMatches(database, database.root, input, s) : s \in AllStarts }
        BY Zenon DEF OrdinaryEvents
    <2>3. AllStarts = Starts(input)
        BY DEF AllStarts, Starts
    <2>4. OrdinaryMatches(patterns, input) = UNION { LongestMatches(database, 0, input, s) : s \in Starts(input) }
        BY Zenon DEF OrdinaryMatches, OrdinaryFrom
    <2> HIDE DEF database
    <2>5. QED
        BY <2>1, <2>2, <2>3, <2>4
<1>4. /\ events \in Seq(OrdinaryEvents) /\ ToSet(events) = OrdinaryEvents
      /\ Len(events) = Cardinality(OrdinaryEvents)
    BY <1>1, <1>2, <1>3, ViewsDeliver
<1>5. SubSeq(events, 1, Len(events)) = events
    BY <1>4, SubSeqFull
<1>6. QED
    BY <1>1, <1>4, <1>5

THEOREM PrefixEventsOrdinary == PrefixSpec => []EventsAreTheOrdinaryOnes
<1>1. QED
    BY PrefixInvariant, ServedAsOrdinary, PTL

THEOREM RefusedEarly == PrefixSpec => []RefusedBeforeScanning
<1>1. PrefixInv => RefusedBeforeScanning
    BY DEF PrefixInv, Served, Unserved, RefusedBeforeScanning, None
<1>2. QED
    BY <1>1, PrefixInvariant, PTL
===============================================================================
