--------------------------- MODULE InductionLemmas ----------------------------
(***************************************************************************)
(* Induction and recursion over the numbers up to n, for properties given   *)
(* as sets of numbers and values given as functions, and what the operators *)
(* of the community modules come to that are defined by recursion.          *)
(***************************************************************************)
EXTENDS Integers, FiniteSets, SequencesExt, TLAPS, SequenceTheorems, FiniteSetTheorems,
        WellFoundedInduction

\* A nonempty set of numbers has a least one.
LEMMA LeastOf ==
    ASSUME NEW S \in SUBSET Nat, S # {}
    PROVE  \E x \in S : \A y \in S : x <= y
<1>1. PICK x \in S : \A y \in S : ~ (<<y, x>> \in OpToRel(<, Nat))
    BY NatLessThanWellFounded, WFMin
<1>2. OpToRel(<, Nat) = { p \in Nat \X Nat : p[1] < p[2] }
    BY DEF OpToRel
<1>3. ASSUME NEW y \in S PROVE x <= y
    <2>1. <<y, x>> \in Nat \X Nat /\ ~ (<<y, x>> \in { p \in Nat \X Nat : p[1] < p[2] })
        BY <1>1, <1>2
    <2>2. QED
        BY <2>1
<1>4. QED
    BY <1>3

\* It is what Min finds.
LEMMA MinIsMember ==
    ASSUME NEW S \in SUBSET Nat, S # {}
    PROVE  Min(S) \in S /\ \A y \in S : Min(S) <= y
<1>1. \E x \in S : \A y \in S : x <= y
    BY LeastOf
<1>2. QED
    BY <1>1, Zenon DEF Min

\* Induction up to n, for a property given as the set of numbers that have it.
LEMMA Induction ==
    ASSUME NEW n \in Nat, NEW S, 0 \in S, \A i \in 1..n : i - 1 \in S => i \in S
    PROVE  0..n \subseteq S
<1> DEFINE Bad == (0..n) \ S
<1> SUFFICES ASSUME Bad # {} PROVE FALSE
    OBVIOUS
<1>1. PICK x \in Bad : \A y \in Bad : x <= y
    <2>1. Bad \in SUBSET Nat
        OBVIOUS
    <2> HIDE DEF Bad
    <2>2. QED
        BY <2>1, LeastOf
<1>2. x # 0 /\ x - 1 \in 0..n /\ x \in 1..n
    BY <1>1
<1>3. x - 1 \in S
    BY <1>1, <1>2
<1>4. QED
    BY <1>1, <1>2, <1>3

\* The functions along 0..n that begin with a and take each value from the one before.
Along(S, n, a, g) ==
    { f \in [0..n -> S] : f[0] = a /\ \A i \in 1..n : f[i] = g[<<i, f[i - 1]>>] }

\* There is one.
LEMMA Recursion ==
    ASSUME NEW S, NEW n \in Nat, NEW a \in S, NEW g \in [(1..n) \X S -> S]
    PROVE  Along(S, n, a, g) # {}
<1> DEFINE Upto(m) == { f \in [0..m -> S] : f[0] = a /\ \A i \in 1..m : f[i] = g[<<i, f[i - 1]>>] }
           Good == { m \in 0..n : Upto(m) # {} }
<1>1. 0 \in Good
    <2>1. [i \in 0..0 |-> a] \in Upto(0)
        OBVIOUS
    <2>2. QED
        BY <2>1
<1>2. ASSUME NEW m \in 1..n, m - 1 \in Good PROVE m \in Good
    <2>1. PICK f \in [0..(m - 1) -> S] : f[0] = a /\ \A i \in 1..(m - 1) : f[i] = g[<<i, f[i - 1]>>]
        BY <1>2
    <2> DEFINE h == [i \in 0..m |-> IF i = m THEN g[<<m, f[m - 1]>>] ELSE f[i]]
    <2>2. g[<<m, f[m - 1]>>] \in S
        BY <2>1
    <2>3. h \in [0..m -> S]
        BY <2>1, <2>2
    <2>4. h[0] = a
        BY <2>1
    <2>5. ASSUME NEW i \in 1..m PROVE h[i] = g[<<i, h[i - 1]>>]
        <3>1. CASE i = m
            <4>1. i - 1 \in 0..(m - 1) /\ i - 1 # m /\ i \in 0..m
                BY <3>1
            <4>2. h[i] = g[<<m, f[m - 1]>>] /\ h[i - 1] = f[i - 1]
                BY <4>1, <3>1
            <4>3. QED
                BY <4>2, <3>1
        <3>2. CASE i # m
            <4>1. i \in 1..(m - 1) /\ i - 1 \in 0..(m - 1) /\ i - 1 # m
                BY <3>2
            <4>2. QED
                BY <4>1, <3>2, <2>1
        <3>3. QED
            BY <3>1, <3>2
    <2>6. h \in Upto(m)
        BY <2>3, <2>4, <2>5
    <2>7. m \in 0..n
        OBVIOUS
    <2> HIDE DEF Upto
    <2>8. QED
        BY <2>6, <2>7
<1>3. 0..n \subseteq Good
    <2> HIDE DEF Good
    <2>1. QED
        BY <1>1, <1>2, Induction
<1>4. n \in 0..n
    OBVIOUS
<1>5. QED
    BY <1>3, <1>4 DEF Along

\* FlattenSeq appends one sequence after the other.
LEMMA FlattenIs ==
    ASSUME NEW T, NEW ss \in Seq(Seq(T)), Len(ss) > 0,
           NEW F \in [0..Len(ss) -> Seq(T)], F[0] = << >>,
           \A i \in 1..Len(ss) : F[i] = F[i - 1] \o ss[i]
    PROVE  FlattenSeq(ss) = F[Len(ss)]
<1> DEFINE flatten[i \in 1..Len(ss)] == IF i = 1 THEN ss[i] ELSE flatten[i - 1] \o ss[i]
           Step(f) == [i \in 1..Len(ss) |-> IF i = 1 THEN ss[i] ELSE f[i - 1] \o ss[i]]
<1>1. Len(ss) \in Nat /\ Len(ss) # 0
    BY LenProperties
<1>2. FlattenSeq(ss) = flatten[Len(ss)]
    BY <1>1, Zenon DEF FlattenSeq
<1>3. flatten = CHOOSE f : f = Step(f)
    BY Zenon
<1>0. ASSUME NEW i \in 1..Len(ss)
      PROVE  F[i] = IF i = 1 THEN ss[i] ELSE F[i - 1] \o ss[i]
    <2>1. ss[i] \in Seq(T)
        BY ElementOfSeq
    <2>2. << >> \o ss[i] = ss[i]
        BY <2>1, ConcatEmptySeq
    <2>3. CASE i = 1
        <3>1. F[i - 1] = << >>
            BY <2>3
        <3>2. F[i] = F[i - 1] \o ss[i]
            OBVIOUS
        <3>3. QED
            BY <2>2, <2>3, <3>1, <3>2
    <2>4. QED
        BY <2>3
<1> DEFINE G == [i \in 1..Len(ss) |-> F[i]]
<1>4. Step(G) = G
    <2>1. ASSUME NEW i \in 1..Len(ss)
          PROVE  F[i] = IF i = 1 THEN ss[i] ELSE G[i - 1] \o ss[i]
        <3>1. i # 1 => i - 1 \in 1..Len(ss)
            BY <1>1
        <3>2. i # 1 => G[i - 1] = F[i - 1]
            BY <3>1
        <3>3. QED
            BY <3>2, <1>0
    <2>2. QED
        BY <2>1
<1> HIDE DEF G, Step, flatten
<1>5. flatten = Step(flatten)
    BY <1>3, <1>4
<1> USE DEF Step
<1>6. \A i \in 1..Len(ss) : flatten[i] = IF i = 1 THEN ss[i] ELSE flatten[i - 1] \o ss[i]
    BY <1>5
<1> DEFINE Same == { i \in 0..Len(ss) : i = 0 \/ flatten[i] = F[i] }
<1>7. ASSUME NEW i \in 1..Len(ss), i - 1 \in Same PROVE i \in Same
    <2>1. i # 1 => flatten[i - 1] = F[i - 1]
        BY <1>7
    <2>2. QED
        BY <2>1, <1>0, <1>6
<1>8. 0..Len(ss) \subseteq Same
    <2>1. 0 \in Same
        BY <1>1
    <2> HIDE DEF Same
    <2>2. QED
        BY <2>1, <1>7, <1>1, Induction
<1>9. QED
    BY <1>8, <1>1, <1>2

-----------------------------------------------------------------------------
(* Closures: what a set becomes that grows along edges until it lacks nothing. *)

Closed(edges, S) == \A e \in edges : e[1] \in S => e[2] \in S

\* What every closed set around R has.
Hull(states, edges, R) ==
    { x \in states : \A S \in SUBSET states : R \subseteq S /\ Closed(edges, S) => x \in S }

\* The states one step beyond R.
More(edges, R) == { e[2] : e \in { f \in edges : f[1] \in R /\ f[2] \notin R } }

\* They belong to whatever is closed around R.
LEMMA HullOfMore ==
    ASSUME NEW states, NEW edges \in SUBSET (states \X states), NEW R \in SUBSET states
    PROVE  /\ R \cup More(edges, R) \in SUBSET states
           /\ Hull(states, edges, R \cup More(edges, R)) = Hull(states, edges, R)
           /\ More(edges, R) = {} => Hull(states, edges, R) = R
<1>1. R \cup More(edges, R) \in SUBSET states
    BY DEF More
<1>2. ASSUME NEW S \in SUBSET states, Closed(edges, S), R \subseteq S
      PROVE  R \cup More(edges, R) \subseteq S
    BY <1>2 DEF More, Closed
<1>3. Hull(states, edges, R \cup More(edges, R)) = Hull(states, edges, R)
    BY <1>2 DEF Hull
<1>4. ASSUME More(edges, R) = {} PROVE Hull(states, edges, R) = R
    <2>1. ASSUME NEW e \in edges, e[1] \in R, e[2] \notin R PROVE FALSE
        <3>1. e[2] \in More(edges, R)
            BY <2>1 DEF More
        <3>2. QED
            BY <3>1, <1>4
    <2>2. Closed(edges, R)
        BY <2>1 DEF Closed
    <2>3. QED
        BY <2>2 DEF Hull
<1>5. QED
    BY <1>1, <1>3, <1>4

Grows(states, edges, f) ==
    \A R \in SUBSET states :
        f[R] = IF More(edges, R) = {} THEN R ELSE f[R \cup More(edges, R)]

\* A set that grows by what it lacks until it lacks nothing becomes the least closed one.
LEMMA GrowsToHull ==
    ASSUME NEW states, IsFiniteSet(states), NEW edges \in SUBSET (states \X states),
           NEW grow, Grows(states, edges, grow), NEW R \in SUBSET states
    PROVE  grow[R] = Hull(states, edges, R)
<1> DEFINE Bad == { S \in SUBSET states : grow[S] # Hull(states, edges, S) }
           left == [S \in SUBSET states |-> Cardinality(states \ S)]
           Sizes == { left[S] : S \in Bad }
<1> SUFFICES ASSUME Bad # {} PROVE FALSE
    OBVIOUS
<1>0. \A S \in SUBSET states :
          grow[S] = IF More(edges, S) = {} THEN S ELSE grow[S \cup More(edges, S)]
    BY DEF Grows
<1>1. ASSUME NEW S \in SUBSET states PROVE IsFiniteSet(states \ S) /\ left[S] \in Nat
    <2>1. IsFiniteSet(states \ S)
        BY FS_Subset
    <2>2. QED
        BY <2>1, FS_CardinalityType
<1>2. Bad \in SUBSET (SUBSET states)
    OBVIOUS
<1>3. ASSUME NEW S \in Bad
      PROVE  /\ S \cup More(edges, S) \in Bad
             /\ left[S \cup More(edges, S)] < left[S]
    <2> DEFINE T == S \cup More(edges, S)
    <2>1. More(edges, S) # {}
        BY <1>0, HullOfMore
    <2>2. T \in SUBSET states
        BY HullOfMore
    <2>3. T \in Bad
        <3>1. Hull(states, edges, T) = Hull(states, edges, S)
            BY HullOfMore
        <3>2. grow[S] = grow[T] /\ grow[S] # Hull(states, edges, S)
            BY <1>0, <2>1
        <3>3. QED
            BY <2>2, <3>1, <3>2
    <2>4. PICK x \in More(edges, S) : TRUE
        BY <2>1
    <2>5. x \in states \ S /\ x \notin states \ T
        BY <2>2, <2>4 DEF More
    <2>6. states \ T \in SUBSET (states \ S) /\ states \ T # states \ S
        BY <2>5
    <2>7. Cardinality(states \ T) <= Cardinality(states \ S)
          /\ Cardinality(states \ T) # Cardinality(states \ S)
        BY <2>6, <1>1, FS_Subset
    <2>8. left[T] = Cardinality(states \ T) /\ left[S] = Cardinality(states \ S)
          /\ left[T] \in Nat /\ left[S] \in Nat
        BY <1>1, <2>2
    <2>9. left[T] < left[S]
        BY <2>7, <2>8
    <2>10. QED
        BY <2>3, <2>9
<1> HIDE DEF left, Bad
<1>4. Sizes \in SUBSET Nat /\ Sizes # {}
    <2>1. \A S \in Bad : left[S] \in Nat
        BY <1>1, <1>2
    <2>2. QED
        BY <2>1
<1>5. PICK n \in Sizes : \A m \in Sizes : n <= m
    <2> HIDE DEF Sizes
    <2>1. QED
        BY <1>4, LeastOf
<1>6. PICK S \in Bad : n = left[S]
    OBVIOUS
<1>7. left[S \cup More(edges, S)] \in Sizes /\ left[S \cup More(edges, S)] < n
    BY <1>3, <1>6
<1> DEFINE smaller == left[S \cup More(edges, S)]
<1>8. n \in Nat /\ smaller \in Nat /\ smaller < n /\ n <= smaller
    BY <1>4, <1>5, <1>7
<1> HIDE DEF smaller
<1>9. QED
    BY <1>8

\* And so a recursive function that adds what is lacking reaches it.
LEMMA GrownIsHull ==
    ASSUME NEW states, IsFiniteSet(states), NEW edges \in SUBSET (states \X states),
           NEW grow, NEW seeds \in SUBSET states,
           grow = CHOOSE f : f = [R \in SUBSET states |->
                                    IF More(edges, R) = {} THEN R ELSE f[R \cup More(edges, R)]]
    PROVE  grow[seeds] = Hull(states, edges, seeds)
<1> DEFINE Step(f) == [R \in SUBSET states |->
                         IF More(edges, R) = {} THEN R ELSE f[R \cup More(edges, R)]]
           G == [R \in SUBSET states |-> Hull(states, edges, R)]
<1>1. grow = CHOOSE f : f = Step(f)
    OBVIOUS
<1>2. \A R \in SUBSET states :
          (IF More(edges, R) = {} THEN R ELSE G[R \cup More(edges, R)]) = G[R]
    BY ONLY HullOfMore, edges \in SUBSET (states \X states)
<1>3. Step(G) = G
    BY <1>2, Zenon
<1> HIDE DEF G, Step
<1>4. grow = Step(grow)
    BY <1>1, <1>3
<1> USE DEF Step
<1>5. Grows(states, edges, grow)
    BY <1>4 DEF Grows
<1> HIDE DEF Step
<1>6. QED
    BY <1>5, GrowsToHull, Zenon

\* It holds R, is closed, and lies within every closed set around R.
LEMMA HullFacts ==
    ASSUME NEW states, NEW edges, NEW R \in SUBSET states
    PROVE  /\ Hull(states, edges, R) \in SUBSET states
           /\ R \subseteq Hull(states, edges, R)
           /\ \A e \in edges : e[1] \in Hull(states, edges, R) /\ e[2] \in states
                                => e[2] \in Hull(states, edges, R)
BY DEF Hull, Closed

LEMMA HullWithin ==
    ASSUME NEW states, NEW edges, NEW R, NEW S \in SUBSET states, R \subseteq S, Closed(edges, S)
    PROVE  Hull(states, edges, R) \subseteq S
BY DEF Hull

\* A product of three finite sets is finite.
LEMMA TripleFinite ==
    ASSUME NEW A, IsFiniteSet(A), NEW B, IsFiniteSet(B), NEW C, IsFiniteSet(C)
    PROVE  IsFiniteSet(A \X B \X C)
<1> DEFINE f == [x \in (A \X B) \X C |-> <<x[1][1], x[1][2], x[2]>>]
<1>1. IsFiniteSet((A \X B) \X C)
    BY FS_Product
<1>2. f \in [(A \X B) \X C -> A \X B \X C]
    OBVIOUS
<1>3. ASSUME NEW y \in A \X B \X C PROVE \E x \in (A \X B) \X C : f[x] = y
    <2>1. << <<y[1], y[2]>>, y[3]>> \in (A \X B) \X C
        OBVIOUS
    <2>2. f[<< <<y[1], y[2]>>, y[3]>>] = y
        OBVIOUS
    <2>3. QED
        BY <2>1, <2>2
<1> HIDE DEF f
<1>4. f \in Surjection((A \X B) \X C, A \X B \X C)
    BY <1>2, <1>3 DEF Surjection
<1>5. QED
    BY <1>1, <1>4, FS_Surjection

-----------------------------------------------------------------------------
(* Orders. *)

\* A strict total order on a set, as the set of its pairs.
Orders(P, S) ==
    /\ \A x \in S : << x, x >> \notin P
    /\ \A x, y, z \in S : << x, y >> \in P /\ << y, z >> \in P => << x, z >> \in P
    /\ \A x, y \in S : x = y \/ << x, y >> \in P \/ << y, x >> \in P

Lower(P, S, x) == { y \in S : << y, x >> \in P }
RankIn(P, S) == [x \in S |-> Cardinality(Lower(P, S, x))]

Ranks(R, P, S, n) ==
    /\ R \in [S -> 0..(n - 1)]
    /\ \A x, y \in S : << x, y >> \in P => R[x] < R[y]
    /\ \A x, y \in S : R[x] = R[y] => x = y
    /\ \A k \in 0..(n - 1) : \E x \in S : R[x] = k

\* The ranks of n ordered things are 0..(n - 1), and are in their order.
LEMMA RanksInOrder ==
    ASSUME NEW S, IsFiniteSet(S), NEW P, Orders(P, S)
    PROVE  Cardinality(S) \in Nat /\ Ranks(RankIn(P, S), P, S, Cardinality(S))
<1> DEFINE n == Cardinality(S)
           R == RankIn(P, S)
<1>1. n \in Nat
    BY FS_CardinalityType
<1>2. ASSUME NEW x \in S
      PROVE  IsFiniteSet(Lower(P, S, x)) /\ Cardinality(Lower(P, S, x)) \in 0..(n - 1)
    <2>1. Lower(P, S, x) \in SUBSET S /\ x \notin Lower(P, S, x)
        BY DEF Lower, Orders
    <2>2. /\ IsFiniteSet(Lower(P, S, x)) /\ Cardinality(Lower(P, S, x)) <= n
          /\ Cardinality(Lower(P, S, x)) # n
        BY <2>1, FS_Subset
    <2>3. Cardinality(Lower(P, S, x)) \in Nat
        BY <2>2, FS_CardinalityType
    <2> HIDE DEF n
    <2>4. QED
        BY <1>1, <2>2, <2>3
<1>3. R \in [S -> 0..(n - 1)] /\ \A x \in S : R[x] = Cardinality(Lower(P, S, x))
    BY <1>2 DEF RankIn
<1>4. ASSUME NEW x \in S, NEW y \in S, << x, y >> \in P
      PROVE  R[x] < R[y]
    <2>1. /\ Lower(P, S, x) \in SUBSET Lower(P, S, y)
          /\ x \in Lower(P, S, y) /\ x \notin Lower(P, S, x)
        BY <1>4 DEF Lower, Orders
    <2>2. /\ IsFiniteSet(Lower(P, S, y)) /\ Lower(P, S, x) # Lower(P, S, y)
        BY <1>2, <2>1
    <2>3. /\ Cardinality(Lower(P, S, x)) <= Cardinality(Lower(P, S, y))
          /\ Cardinality(Lower(P, S, x)) # Cardinality(Lower(P, S, y))
        BY <2>1, <2>2, FS_Subset
    <2>4. Cardinality(Lower(P, S, x)) \in Nat /\ Cardinality(Lower(P, S, y)) \in Nat
        BY <1>2, FS_CardinalityType
    <2> HIDE DEF R
    <2>5. QED
        BY <1>3, <2>3, <2>4
<1> HIDE DEF R
<1>5. \A x, y \in S : R[x] = R[y] => x = y
    <2> SUFFICES ASSUME NEW x \in S, NEW y \in S, R[x] = R[y], x # y PROVE FALSE
        OBVIOUS
    <2>1. << x, y >> \in P \/ << y, x >> \in P
        BY DEF Orders
    <2>2. R[x] < R[y] \/ R[y] < R[x]
        BY <1>4, <2>1
    <2>3. R[x] \in Int /\ R[y] \in Int
        <3> HIDE DEF n
        <3>1. QED
            BY <1>1, <1>3
    <2>4. QED
        BY <2>2, <2>3
<1>6. R \in Injection(S, 0..(n - 1))
    BY <1>3, <1>5 DEF Injection, IsInjective
<1>7. IsFiniteSet(0..(n - 1)) /\ Cardinality(0..(n - 1)) = n
    <2> HIDE DEF n
    <2>1. QED
        BY <1>1, FS_Interval
<1>8. R \in Surjection(S, 0..(n - 1))
    BY <1>6, <1>7, FS_Injection
<1>9. \A k \in 0..(n - 1) : \E x \in S : R[x] = k
    BY <1>8 DEF Surjection
<1>10. Ranks(R, P, S, n)
    BY <1>3, <1>4, <1>5, <1>9 DEF Ranks
<1>11. QED
    BY <1>1, <1>10 DEF R
==============================================================================
