------------------------- MODULE SharedCandidateProof -------------------------
(***************************************************************************)
(* For every input, number of shards, word size and filters: the shards     *)
(* tile the bitmap, a plan that is handed out is exact, and each            *)
(* partition's starts are its own.  For every database, text and hash: a    *)
(* partition's private plan leaves out no start with a match, provided its  *)
(* patterns' hints are necessary.                                           *)
(***************************************************************************)
EXTENDS SharedCandidate, CandidatePlan, InductionLemmas, FiniteSetTheorems

-----------------------------------------------------------------------------
(* The filters. *)

\* The union admits what any of its filters admits.
LEMMA UnionAdmits ==
    ASSUME NEW filters, NEW p \in DOMAIN filters, NEW text, NEW start,
           Admits(filters[p], text, start)
    PROVE  Admits(UnionOf(filters), text, start)
<1> DEFINE shown(n) == UnitsAt(text, start, n)
<1>1. PICK n \in Tables :
        /\ start + n <= Len(text)
        /\ \/ ~ AllAscii(shown(n))
           \/ filters[p].has[n] /\ IndexOf(shown(n)) \in filters[p].table[n]
    BY DEF Admits
<1>2. /\ UnionOf(filters).has[n] = (\E i \in DOMAIN filters : filters[i].has[n])
      /\ UnionOf(filters).table[n] = UNION { filters[i].table[n] : i \in DOMAIN filters }
    BY <1>1 DEF UnionOf
<1>3. filters[p].has[n] /\ IndexOf(shown(n)) \in filters[p].table[n] =>
        UnionOf(filters).has[n] /\ IndexOf(shown(n)) \in UnionOf(filters).table[n]
    BY <1>2
<1>4. QED
    BY <1>1, <1>3 DEF Admits

\* A hint is never missed: wherever its units stand in an input, the filter compiled
\* from it admits the start, whatever the hash collides with.
THEOREM FilterAdmitsHint ==
    ASSUME NEW S, NEW literals \in SUBSET Seq(S), NEW h \in literals, Len(h) >= MinLiteral,
           NEW text \in Seq(S), NEW start \in Nat, start + Len(h) <= Len(text),
           \A i \in 1..Len(h) : text[start + i] = h[i]
    PROVE  Admits(CompileFilter(literals), text, start)
<1> DEFINE n == TableOf(h)
           shown == UnitsAt(text, start, n)
<1>1. h \in Seq(S) /\ Len(h) \in Nat /\ Len(text) \in Nat /\ MinLiteral \in Nat
    BY FilterAssumption
<1>2. n \in Tables /\ n \in Nat /\ n <= Len(h)
    BY <1>1 DEF TableOf, Tables
<1>3. start + n <= Len(text)
    BY <1>1, <1>2
<1>4. UnitsAt(h, 0, n) = shown
  <2>1. /\ SubSeq(h, 0 + 1, 0 + n) = [i \in 1..n |-> h[i]]
        /\ SubSeq(text, start + 1, start + n) = [i \in 1..n |-> text[start + i]]
    BY <1>1, <1>2, <1>3
  <2>2. \A i \in 1..n : text[start + i] = h[i]
    BY <1>1, <1>2
  <2>3. QED
    BY <2>1, <2>2 DEF UnitsAt
<1>5. /\ CompileFilter(literals).has[n] = (\E g \in literals : TableOf(g) = n)
      /\ CompileFilter(literals).table[n] =
           { IndexOf(UnitsAt(g, 0, n)) :
               g \in { f \in literals : TableOf(f) = n /\ AllAscii(UnitsAt(f, 0, n)) } }
    BY <1>2 DEF CompileFilter
<1>6. CASE AllAscii(shown)
  <2>1. IndexOf(shown) \in CompileFilter(literals).table[n]
    BY <1>4, <1>5, <1>6
  <2>2. QED
    BY <2>1, <1>2, <1>3, <1>5 DEF Admits
<1>7. CASE ~ AllAscii(shown)
    BY <1>2, <1>3, <1>7 DEF Admits
<1>8. QED
    BY <1>6, <1>7

-----------------------------------------------------------------------------
(* The shards. *)

\* Rounding a quotient up.
LEMMA DivCeilBounds ==
    ASSUME NEW m \in Nat, NEW n \in Nat \ {0}
    PROVE  /\ DivCeil(m, n) \in Nat
           /\ m <= n * DivCeil(m, n)
           /\ n * DivCeil(m, n) < m + n
           /\ m > 0 => DivCeil(m, n) > 0
<1> DEFINE q == (m + n - 1) \div n
           r == (m + n - 1) % n
<1>1. q \in Nat /\ r \in 0..(n - 1) /\ m + n - 1 = n * q + r
    OBVIOUS
<1>2. n * q \in Nat
    BY <1>1
<1>3. m <= n * q /\ n * q < m + n
    BY <1>1, <1>2
<1>4. m > 0 => q > 0
  <2>1. SUFFICES ASSUME m > 0, q = 0 PROVE FALSE
    BY <1>1
  <2>2. n * q = 0
    BY <2>1
  <2>3. QED
    BY <1>3, <2>1, <2>2
<1>5. QED
    BY <1>1, <1>3, <1>4 DEF DivCeil

\* What a call worth sharing has.
LEMMA SharedSizes ==
    ASSUME call \in Calls, Worthwhile
    PROVE  /\ Units \in Nat \ {0} /\ WordBits \in Nat \ {0}
           /\ Words \in Nat \ {0} /\ Units <= WordBits * Words
           /\ WordBits * Words < Units + WordBits
           /\ WordsPerShard \in Nat \ {0}
           /\ ShardLimit \in Nat \ {0}
           /\ Words <= WordsPerShard * ShardLimit
           /\ WordsPerShard * ShardLimit < Words + WordsPerShard
<1>1. /\ Units \in Nat /\ Units >= MinUnits /\ MinUnits \in Nat \ {0}
      /\ WordBits \in Nat \ {0} /\ MaxShards \in Nat \ {0}
      /\ Len(call.filters) \in Nat
    BY CallsAssumption DEF Worthwhile, Eligible, Units
<1>2. Units \in Nat \ {0}
    BY <1>1
<1>3. /\ Words \in Nat \ {0} /\ Units <= WordBits * Words
      /\ WordBits * Words < Units + WordBits
  <2>1. /\ DivCeil(Units, WordBits) \in Nat
        /\ Units <= WordBits * DivCeil(Units, WordBits)
        /\ WordBits * DivCeil(Units, WordBits) < Units + WordBits
        /\ Units > 0 => DivCeil(Units, WordBits) > 0
    BY <1>1, <1>2, DivCeilBounds
  <2>2. QED
    BY <1>2, <2>1 DEF Words
<1>4. ShardCount \in Nat \ {0}
    BY <1>1, <1>3 DEF ShardCount, Least
<1>5. WordsPerShard \in Nat \ {0}
  <2>1. /\ DivCeil(Words, ShardCount) \in Nat
        /\ Words <= ShardCount * DivCeil(Words, ShardCount)
        /\ ShardCount * DivCeil(Words, ShardCount) < Words + ShardCount
        /\ Words > 0 => DivCeil(Words, ShardCount) > 0
    BY <1>3, <1>4, DivCeilBounds
  <2>2. QED
    BY <1>3, <2>1 DEF WordsPerShard
<1>6. /\ ShardLimit \in Nat \ {0}
      /\ Words <= WordsPerShard * ShardLimit
      /\ WordsPerShard * ShardLimit < Words + WordsPerShard
  <2>1. /\ DivCeil(Words, WordsPerShard) \in Nat
        /\ Words <= WordsPerShard * DivCeil(Words, WordsPerShard)
        /\ WordsPerShard * DivCeil(Words, WordsPerShard) < Words + WordsPerShard
        /\ Words > 0 => DivCeil(Words, WordsPerShard) > 0
    BY <1>3, <1>5, DivCeilBounds
  <2>2. QED
    BY <1>3, <2>1 DEF ShardLimit
<1>7. QED
    BY <1>1, <1>2, <1>3, <1>5, <1>6

\* Where the shard after the first i begins; the last edge is the end of the input.
Edge(i) == IF i < ShardLimit THEN FirstStart(i) ELSE Units

\* The shards are consecutive, from the first start to the last.
LEMMA ShardsTile ==
    ASSUME call \in Calls, Worthwhile
    PROVE  /\ ShardLimit \in Nat \ {0} /\ Units \in Nat
           /\ Edge(0) = 0 /\ Edge(ShardLimit) = Units
           /\ \A i \in Shards : /\ FirstStart(i) = Edge(i) /\ EndStart(i) = Edge(i + 1)
                                /\ Edge(i) \in 0..Units /\ Edge(i + 1) \in 0..Units
                                /\ Edge(i) <= Edge(i + 1)
           /\ \A i, j \in Shards : i < j => EndStart(i) <= FirstStart(j)
           /\ \A s \in AllUnits : \E i \in Shards : FirstStart(i) <= s /\ s < EndStart(i)
<1> DEFINE W == WordsPerShard
           B == WordBits
           L == ShardLimit
           U == Units
           N == Words
<1>1. /\ U \in Nat \ {0} /\ B \in Nat \ {0} /\ N \in Nat \ {0}
      /\ W \in Nat \ {0} /\ L \in Nat \ {0}
      /\ U <= B * N /\ B * N < U + B /\ N <= W * L /\ W * L < N + W
    BY SharedSizes
<1>2. /\ \A i : FirstStart(i) = i * W * B
      /\ \A i : EndStart(i) = LET w == IF W < N - i * W THEN W ELSE N - i * W
                                  e == i * W * B + w * B
                              IN  IF e < U THEN e ELSE U
      /\ Shards = 0..(L - 1) /\ AllUnits = 0..(U - 1)
      /\ \A i : Edge(i) = IF i < L THEN i * W * B ELSE U
    BY DEF FirstStart, EndStart, ChunkWords, Least, Shards, AllUnits, Edge
<1> HIDE DEF W, B, L, U, N
<1>3. \A i \in 0..(L - 1) : /\ i * W \in Nat /\ i * W <= N - 1
                            /\ i * W * B \in Nat /\ i * W * B < U
  <2> TAKE i \in 0..(L - 1)
  <2>1. i * W \in Nat /\ i * W <= (L - 1) * W
    BY <1>1
  <2>2. (L - 1) * W = W * L - W /\ W * L \in Nat
    BY <1>1
  <2>3. i * W <= N - 1
    BY <1>1, <2>1, <2>2
  <2>4. i * W * B \in Nat /\ i * W * B <= (N - 1) * B
    BY <1>1, <2>1, <2>3
  <2>5. (N - 1) * B = B * N - B /\ B * N \in Nat
    BY <1>1
  <2>6. QED
    BY <1>1, <2>1, <2>3, <2>4, <2>5
<1>4. \A i \in 0..(L - 1) : /\ (i + 1) * W * B = i * W * B + W * B
                            /\ EndStart(i) = IF (i + 1) * W * B < U THEN (i + 1) * W * B ELSE U
  <2> TAKE i \in 0..(L - 1)
  <2> DEFINE x == i * W
  <2>1. x \in Nat /\ x <= N - 1
    BY <1>3
  <2>2. (i + 1) * W = x + W
    BY <1>1
  <2> HIDE DEF x
  <2>3. (x + W) * B = x * B + W * B /\ x * B \in Nat /\ W * B \in Nat
    BY <1>1, <2>1
  <2>4. (i + 1) * W * B = x * B + W * B
    BY <2>2, <2>3
  <2>5. CASE W < N - x
    BY <1>2, <2>3, <2>4, <2>5 DEF x
  <2>6. CASE ~ (W < N - x)
    <3>1. x * B + (N - x) * B = B * N
      BY <1>1, <2>1
    <3>2. (x + W) * B >= N * B
      BY <1>1, <2>1, <2>6
    <3>3. N * B = B * N /\ B * N \in Nat
      BY <1>1
    <3>4. EndStart(i) = U
      BY <1>1, <1>2, <2>6, <3>1, <3>3 DEF x
    <3>5. (i + 1) * W * B >= U
      BY <1>1, <2>3, <2>4, <3>2, <3>3
    <3>6. (i + 1) * W * B \in Nat
      BY <2>3, <2>4
    <3>7. QED
      BY <1>1, <2>4, <3>4, <3>5, <3>6 DEF x
  <2>7. QED
    BY <2>5, <2>6
<1>5. L * W * B >= U
  <2>1. W * L \in Nat /\ W * L = L * W
    BY <1>1
  <2>2. L * W * B >= N * B
    BY <1>1, <2>1
  <2>3. N * B = B * N /\ B * N \in Nat /\ L * W * B \in Nat
    BY <1>1, <2>1
  <2>4. QED
    BY <1>1, <2>2, <2>3
<1> DEFINE f(i) == i * W * B
<1>6. /\ f(0) = 0 /\ f(L) >= U
      /\ \A i \in 0..L : f(i) \in Nat
      /\ \A i \in 0..(L - 1) :
           /\ f(i) < U
           /\ f(i + 1) = f(i) + W * B
           /\ EndStart(i) = IF f(i + 1) < U THEN f(i + 1) ELSE U
      /\ \A i : FirstStart(i) = f(i)
      /\ \A i : Edge(i) = IF i < L THEN f(i) ELSE U
  <2>1. \A i \in 0..L : f(i) \in Nat
    BY <1>1
  <2>2. f(0) = 0
    BY <1>1
  <2>3. QED
    BY <1>2, <1>3, <1>4, <1>5, <2>1, <2>2
<1>7. \A i, j \in 0..L : i < j => f(i + 1) <= f(j)
  <2> TAKE i, j \in 0..L
  <2> HAVE i < j
  <2>1. (i + 1) * W <= j * W /\ (i + 1) * W \in Nat /\ j * W \in Nat
    BY <1>1
  <2>2. (i + 1) * W * B <= j * W * B
    BY <1>1, <2>1
  <2>3. QED
    BY <2>2
<1>8. W * B \in Nat \ {0}
  <2>1. W * B \in Nat /\ W * B > 0
    BY <1>1
  <2>2. QED
    BY <2>1
<1> DEFINE k == W * B
<1>9. \A s \in 0..(U - 1) : \E i \in Nat : f(i) <= s /\ s < f(i + 1)
  <2> TAKE s \in 0..(U - 1)
  <2> DEFINE i == s \div k
  <2>1. k \in Nat \ {0} /\ s \in Nat
    BY <1>1, <1>8
  <2> HIDE DEF k
  <2>2. i \in Nat /\ k * i <= s /\ s < k * i + k
    BY <2>1
  <2> HIDE DEF i
  <2>3. f(i) = k * i /\ f(i + 1) = k * i + k
    BY <1>1, <2>2 DEF k
  <2>4. QED
    BY <2>2, <2>3
<1>10. \A i \in Nat : i >= L => f(i) \in Nat /\ f(i) >= U
  <2> TAKE i \in Nat
  <2> HAVE i >= L
  <2>1. i * W >= L * W /\ i * W \in Nat /\ L * W \in Nat
    BY <1>1
  <2>2. i * W * B >= L * W * B /\ i * W * B \in Nat /\ L * W * B \in Nat
    BY <1>1, <2>1
  <2>3. QED
    BY <1>1, <1>6, <2>2
<1> HIDE DEF f
<1>11. Edge(0) = 0 /\ Edge(L) = U
    BY <1>1, <1>6
<1>12. \A i \in 0..(L - 1) : /\ FirstStart(i) = Edge(i) /\ EndStart(i) = Edge(i + 1)
                             /\ Edge(i) \in 0..U /\ Edge(i + 1) \in 0..U
                             /\ Edge(i) <= Edge(i + 1)
  <2> TAKE i \in 0..(L - 1)
  <2>1. i \in 0..L /\ i + 1 \in 0..L /\ i < L /\ (i + 1 < L \/ i + 1 = L)
    BY <1>1
  <2>2. f(i) \in Nat /\ f(i + 1) \in Nat /\ f(i) < U /\ f(i) <= f(i + 1)
    BY <1>1, <1>6, <1>8, <2>1
  <2>3. EndStart(i) = Edge(i + 1)
    <3>1. CASE i + 1 < L
      <4>1. i + 1 \in 0..(L - 1)
        BY <1>1, <2>1, <3>1
      <4>2. f(i + 1) < U
        BY <1>6, <4>1
      <4>3. QED
        BY <1>6, <3>1, <4>2
    <3>2. CASE i + 1 = L
      <4>1. ~ (f(i + 1) < U) /\ ~ (i + 1 < L)
        BY <1>1, <1>6, <2>2, <3>2
      <4>2. QED
        BY <1>6, <4>1
    <3>3. QED
      BY <2>1, <3>1, <3>2
  <2>4. FirstStart(i) = Edge(i) /\ Edge(i) = f(i)
    BY <1>6, <2>1
  <2>5. EndStart(i) \in 0..U /\ f(i) <= EndStart(i)
    BY <1>1, <1>6, <2>2
  <2>6. QED
    BY <1>1, <2>2, <2>3, <2>4, <2>5
<1>13. \A i, j \in 0..(L - 1) : i < j => EndStart(i) <= FirstStart(j)
  <2> TAKE i, j \in 0..(L - 1)
  <2> HAVE i < j
  <2>1. f(i + 1) <= f(j) /\ f(i + 1) \in Nat /\ f(j) \in Nat
    BY <1>1, <1>6, <1>7
  <2>2. EndStart(i) <= f(i + 1)
    BY <1>1, <1>6, <2>1
  <2>3. QED
    BY <1>1, <1>6, <2>1, <2>2
<1>14. \A s \in 0..(U - 1) : \E i \in 0..(L - 1) : FirstStart(i) <= s /\ s < EndStart(i)
  <2> TAKE s \in 0..(U - 1)
  <2>1. PICK i \in Nat : f(i) <= s /\ s < f(i + 1)
    BY <1>9
  <2>2. i \in 0..(L - 1)
    <3>1. SUFFICES ASSUME i >= L PROVE FALSE
      BY <1>1
    <3>2. f(i) \in Nat /\ f(i) >= U
      BY <1>10, <3>1
    <3>3. QED
      BY <1>1, <2>1, <3>2
  <2>3. QED
    BY <1>1, <1>6, <2>1, <2>2
<1>15. QED
    BY <1>1, <1>2, <1>11, <1>12, <1>13, <1>14 DEF L, U

-----------------------------------------------------------------------------
(* The inductive invariant. *)

Started == {"running", "done", "panic"}

\* The admitted starts from one start up to another.
AdmittedIn(m, n) == { s \in m..(n - 1) : Admits(Union, call.input, s) }

\* What is known of the result in each phase.
DecisionInv ==
    /\ Divided => Worthwhile
    /\ phase \in {"decide", "spawn", "join"} => result = "pending"
    /\ phase = "returned" => result \in {"no plan", "plan", "error"}
    /\ phase = "panicked" => result = "panic"
    /\ result = "no plan" => ~ Worthwhile
    /\ ~ Divided => candidates = {} /\ count = 0

\* A shard has tested its starts in order.
ShardInv ==
    Divided => \A i \in Shards :
        /\ FirstStart(i) <= position[i] /\ position[i] <= EndStart(i)
        /\ threads[i] = "done" => position[i] = EndStart(i)
        /\ admissions[i] = Cardinality(AdmittedIn(FirstStart(i), position[i]))

\* The bitmap holds the admitted starts among those tested.
BitmapInv ==
    Divided => candidates = { s \in AllUnits :
                                /\ Admits(Union, call.input, s)
                                /\ \E i \in Shards : FirstStart(i) <= s /\ s < position[i] }

SpawnInv ==
    phase = "spawn" =>
        /\ spawned = 0 /\ worker_panic = None /\ count = 0
        /\ \A i \in Shards : /\ i < next => threads[i] \in Started
                             /\ i >= next => threads[i] = "idle"

Joining == Divided /\ phase # "spawn"

\* The joined shards have ended, in order.
JoinOrderInv ==
    Joining =>
        /\ next <= spawned
        /\ \A i \in Shards : /\ i < spawned => threads[i] \in Started
                             /\ i = spawned => threads[i] = "refused"
                             /\ i > spawned => threads[i] = "idle"
                             /\ i < next => threads[i] # "running"
                             /\ i < next /\ worker_panic = None => threads[i] = "done"
                             /\ i < worker_panic => threads[i] = "done"
        /\ worker_panic # None => worker_panic < next /\ threads[worker_panic] = "panic"

\* Their admissions are counted.
JoinCountInv ==
    Joining =>
        /\ count <= Cardinality(AdmittedIn(0, Edge(next)))
        /\ worker_panic = None => count = Cardinality(AdmittedIn(0, Edge(next)))

JoinInv == JoinOrderInv /\ JoinCountInv

EndInv ==
    Ended /\ Divided =>
        /\ next = spawned
        /\ result = "plan" => spawned = ShardLimit /\ worker_panic = None
        /\ result = "error" => spawned < ShardLimit /\ worker_panic = None
        /\ result = "panic" => worker_panic # None

IInv == TypeOK /\ DecisionInv /\ ShardInv /\ BitmapInv /\ SpawnInv /\ JoinInv /\ EndInv

-----------------------------------------------------------------------------
(* Counting the admitted starts. *)

\* The admitted starts of a range are no more than the range has.
LEMMA AdmittedCount ==
    ASSUME NEW m \in Nat, NEW n \in Nat
    PROVE  /\ IsFiniteSet(AdmittedIn(m, n))
           /\ Cardinality(AdmittedIn(m, n)) \in Nat
           /\ m <= n => Cardinality(AdmittedIn(m, n)) <= n - m
           /\ m = n => Cardinality(AdmittedIn(m, n)) = 0
<1>1. m \in Int /\ n - 1 \in Int
    OBVIOUS
<1>2. /\ IsFiniteSet(m..(n - 1))
      /\ Cardinality(m..(n - 1)) = IF m > n - 1 THEN 0 ELSE (n - 1) - m + 1
    BY <1>1, FS_Interval
<1>3. AdmittedIn(m, n) \in SUBSET (m..(n - 1))
    BY DEF AdmittedIn
<1>4. /\ IsFiniteSet(AdmittedIn(m, n))
      /\ Cardinality(AdmittedIn(m, n)) <= Cardinality(m..(n - 1))
    BY <1>2, <1>3, FS_Subset
<1>5. Cardinality(AdmittedIn(m, n)) \in Nat
    BY <1>4, FS_CardinalityType
<1>6. QED
    BY <1>2, <1>4, <1>5

\* One more start tested.
LEMMA AdmittedNext ==
    ASSUME NEW m \in Nat, NEW n \in Nat, m <= n
    PROVE  Cardinality(AdmittedIn(m, n + 1)) =
             IF Admits(Union, call.input, n) THEN Cardinality(AdmittedIn(m, n)) + 1
             ELSE Cardinality(AdmittedIn(m, n))
<1>1. IsFiniteSet(AdmittedIn(m, n))
    BY AdmittedCount
<1>2. m..((n + 1) - 1) = (m..(n - 1)) \cup {n} /\ n \notin m..(n - 1)
    OBVIOUS
<1>3. CASE Admits(Union, call.input, n)
  <2>1. AdmittedIn(m, n + 1) = AdmittedIn(m, n) \cup {n} /\ n \notin AdmittedIn(m, n)
    BY <1>2, <1>3 DEF AdmittedIn
  <2>2. QED
    BY <1>1, <1>3, <2>1, FS_AddElement
<1>4. CASE ~ Admits(Union, call.input, n)
  <2>1. AdmittedIn(m, n + 1) = AdmittedIn(m, n)
    BY <1>2, <1>4 DEF AdmittedIn
  <2>2. QED
    BY <1>4, <2>1
<1>5. QED
    BY <1>3, <1>4

\* Two consecutive runs of starts.
LEMMA AdmittedSum ==
    ASSUME NEW m \in Nat, NEW n \in Nat, NEW k \in Nat, m <= n, n <= k
    PROVE  Cardinality(AdmittedIn(m, k)) =
             Cardinality(AdmittedIn(m, n)) + Cardinality(AdmittedIn(n, k))
<1>1. /\ IsFiniteSet(AdmittedIn(m, n)) /\ IsFiniteSet(AdmittedIn(n, k))
      /\ Cardinality(AdmittedIn(m, n)) \in Nat /\ Cardinality(AdmittedIn(n, k)) \in Nat
    BY AdmittedCount
<1>2. m..(k - 1) = (m..(n - 1)) \cup (n..(k - 1)) /\ (m..(n - 1)) \cap (n..(k - 1)) = {}
    OBVIOUS
<1>3. /\ AdmittedIn(m, k) = AdmittedIn(m, n) \cup AdmittedIn(n, k)
      /\ AdmittedIn(m, n) \cap AdmittedIn(n, k) = {}
    BY <1>2 DEF AdmittedIn
<1>4. Cardinality(AdmittedIn(m, n) \cup AdmittedIn(n, k)) =
        Cardinality(AdmittedIn(m, n)) + Cardinality(AdmittedIn(n, k))
        - Cardinality(AdmittedIn(m, n) \cap AdmittedIn(n, k))
    BY <1>1, FS_Union
<1>5. Cardinality(AdmittedIn(m, n) \cap AdmittedIn(n, k)) = 0
    BY <1>3, FS_EmptySet
<1> DEFINE both == Cardinality(AdmittedIn(m, n) \cup AdmittedIn(n, k))
           left == Cardinality(AdmittedIn(m, n))
           right == Cardinality(AdmittedIn(n, k))
           shared == Cardinality(AdmittedIn(m, n) \cap AdmittedIn(n, k))
<1>6. Cardinality(AdmittedIn(m, k)) = both
    BY <1>3
<1>7. both = left + right - shared /\ shared = 0 /\ left \in Nat /\ right \in Nat
    BY <1>1, <1>4, <1>5
<1> HIDE DEF both, left, right, shared
<1>8. both = left + right
    BY <1>7
<1>9. QED
    BY <1>6, <1>8 DEF left, right

-----------------------------------------------------------------------------
(* Every step preserves the invariant. *)

\* The call never changes, nor does anything computed from it.
LEMMA SameCall ==
    ASSUME call' = call
    PROVE  /\ Units' = Units /\ AllUnits' = AllUnits /\ Union' = Union
           /\ Shards' = Shards /\ ShardLimit' = ShardLimit /\ Worthwhile' = Worthwhile
           /\ \A i : FirstStart(i)' = FirstStart(i)
           /\ \A i : EndStart(i)' = EndStart(i)
           /\ \A i : Edge(i)' = Edge(i)
           /\ \A m, n : AdmittedIn(m, n)' = AdmittedIn(m, n)
           /\ \A s : Admits(Union, call.input, s)' = Admits(Union, call.input, s)
<1>1. /\ Units' = Units /\ Union' = Union /\ Partitions' = Partitions
    BY DEF Units, Union, Partitions
<1>2. Words' = Words
    BY <1>1 DEF Words
<1>3. ShardCount' = ShardCount
    BY <1>2 DEF ShardCount
<1>4. WordsPerShard' = WordsPerShard
    BY <1>2, <1>3 DEF WordsPerShard
<1>5. ShardLimit' = ShardLimit
    BY <1>2, <1>4 DEF ShardLimit
<1>6. /\ AllUnits' = AllUnits /\ Shards' = Shards
      /\ \A i : FirstStart(i)' = FirstStart(i)
    BY <1>1, <1>4, <1>5 DEF AllUnits, Shards, FirstStart
<1>7. \A i : ChunkWords(i)' = ChunkWords(i)
    BY <1>2, <1>4 DEF ChunkWords
<1>8. /\ \A i : EndStart(i)' = EndStart(i)
      /\ \A i : Edge(i)' = Edge(i)
    BY <1>1, <1>5, <1>6, <1>7 DEF EndStart, Edge
<1>9. \A s : Admits(Union, call.input, s)' = Admits(Union, call.input, s)
    BY <1>1
<1>10. \A m, n : AdmittedIn(m, n)' = AdmittedIn(m, n)
    BY <1>9 DEF AdmittedIn
<1>11. Worthwhile' = Worthwhile
  <2>1. Dense' = Dense
    BY <1>1, <1>6, <1>9 DEF Dense, AllowsStart, SampleEnd
  <2>2. Eligible' = Eligible
    BY <1>1 DEF Eligible
  <2>3. QED
    BY <2>1, <2>2 DEF Worthwhile
<1>12. QED
    BY <1>1, <1>5, <1>6, <1>8, <1>9, <1>10, <1>11

\* What the invariant gives while there are shards.
LEMMA DividedFacts ==
    ASSUME IInv, Divided
    PROVE  /\ call \in Calls /\ Worthwhile
           /\ ShardLimit \in Nat \ {0} /\ Units \in Nat
           /\ Shards = 0..(ShardLimit - 1)
           /\ threads \in [Shards -> {"idle", "refused", "running", "done", "panic"}]
           /\ position \in [Shards -> 0..Units] /\ admissions \in [Shards -> 0..Units]
           /\ next \in 0..ShardLimit /\ spawned \in 0..ShardLimit
           /\ worker_panic \in Shards \cup { None }
<1>1. call \in Calls /\ Worthwhile
    BY DEF IInv, TypeOK, DecisionInv
<1>2. QED
    BY <1>1, ShardsTile DEF IInv, TypeOK, Shards

\* A step that tests no start keeps what is known of the shards and the bitmap.
LEMMA ShardsKept ==
    ASSUME IInv, Divided, call' = call, UNCHANGED <<position, admissions, candidates>>,
           \A i \in Shards : threads'[i] = "done" => position[i] = EndStart(i)
    PROVE  ShardInv' /\ BitmapInv'
<1>1. /\ Shards' = Shards /\ AllUnits' = AllUnits
      /\ \A i : FirstStart(i)' = FirstStart(i) /\ EndStart(i)' = EndStart(i)
      /\ \A m, n : AdmittedIn(m, n)' = AdmittedIn(m, n)
      /\ \A t : Admits(Union, call.input, t)' = Admits(Union, call.input, t)
    BY SameCall
<1>2. /\ \A i \in Shards :
           /\ FirstStart(i) <= position[i] /\ position[i] <= EndStart(i)
           /\ admissions[i] = Cardinality(AdmittedIn(FirstStart(i), position[i]))
      /\ candidates = { t \in AllUnits :
                          /\ Admits(Union, call.input, t)
                          /\ \E i \in Shards : FirstStart(i) <= t /\ t < position[i] }
    BY DEF IInv, ShardInv, BitmapInv
<1>3. ShardInv'
  <2> SUFFICES ASSUME NEW i \in Shards
               PROVE  /\ FirstStart(i)' <= position'[i] /\ position'[i] <= EndStart(i)'
                      /\ threads'[i] = "done" => position'[i] = EndStart(i)'
                      /\ admissions'[i] = Cardinality(AdmittedIn(FirstStart(i), position[i])')
    BY <1>1 DEF ShardInv
  <2>1. AdmittedIn(FirstStart(i), position[i])' = AdmittedIn(FirstStart(i), position[i])
    BY <1>1 DEF AdmittedIn
  <2>2. QED
    BY <1>1, <1>2, <2>1
<1>4. BitmapInv'
    BY <1>1, <1>2 DEF BitmapInv
<1>5. QED
    BY <1>3, <1>4

\* The plan begins in its invariant.
LEMMA InitInv == ASSUME Init PROVE IInv
<1> USE DEF Init
<1>1. ~ Divided /\ ~ Ended
    BY DEF Divided, Ended
<1>2. call \in Calls /\ Units \in Nat
    BY CallsAssumption DEF Units
<1>3. TypeOK
    BY <1>1, <1>2 DEF TypeOK
<1>4. QED
    BY <1>1, <1>3 DEF IInv, DecisionInv, ShardInv, BitmapInv, SpawnInv,
                           JoinInv, JoinOrderInv, JoinCountInv, Joining, EndInv

\* declining keeps it,
LEMMA DeclineInv == ASSUME IInv, Decline PROVE IInv'
<1> USE DEF Decline, shardVars, joinVars
<1>1. ~ Divided /\ ~ Divided'
    BY DEF Divided
<1>2. Units' = Units /\ AllUnits' = AllUnits /\ Worthwhile' = Worthwhile
    BY SameCall
<1>3. TypeOK'
    BY <1>1, <1>2 DEF IInv, TypeOK
<1>4. DecisionInv'
    BY <1>1, <1>2 DEF IInv, DecisionInv
<1>5. QED
    BY <1>1, <1>3, <1>4 DEF IInv, ShardInv, BitmapInv, SpawnInv,
                           JoinInv, JoinOrderInv, JoinCountInv, Joining, EndInv

\* splitting the words over the shards keeps it,
LEMMA SplitInv == ASSUME IInv, Split PROVE IInv'
<1> USE DEF Split, joinVars
<1>1. ~ Divided /\ Divided' /\ result' = "pending" /\ result = "pending"
    BY DEF Divided, IInv, DecisionInv
<1>2. /\ Units' = Units /\ AllUnits' = AllUnits /\ Worthwhile' = Worthwhile
      /\ Shards' = Shards /\ ShardLimit' = ShardLimit
      /\ \A i : FirstStart(i)' = FirstStart(i) /\ EndStart(i)' = EndStart(i)
    BY SameCall
<1>3. /\ ShardLimit \in Nat \ {0} /\ Units \in Nat
      /\ \A i \in Shards : /\ FirstStart(i) \in 0..Units /\ EndStart(i) \in 0..Units
                           /\ FirstStart(i) <= EndStart(i)
    BY ShardsTile DEF IInv, TypeOK
<1>4. /\ next = 0 /\ spawned = 0 /\ worker_panic = None /\ candidates = {} /\ count = 0
      /\ call \in Calls
    BY <1>1 DEF IInv, TypeOK, DecisionInv
<1>5. TypeOK'
    BY <1>1, <1>2, <1>3, <1>4 DEF TypeOK
<1>6. DecisionInv'
    BY <1>1, <1>2, <1>4 DEF DecisionInv
<1>7. ShardInv'
  <2> SUFFICES ASSUME NEW i \in Shards
               PROVE  /\ FirstStart(i)' <= position'[i] /\ position'[i] <= EndStart(i)'
                      /\ threads'[i] = "done" => position'[i] = EndStart(i)'
                      /\ admissions'[i] = Cardinality(AdmittedIn(FirstStart(i), position[i])')
    BY <1>2 DEF ShardInv
  <2>1. position'[i] = FirstStart(i) /\ threads'[i] = "idle" /\ admissions'[i] = 0
    OBVIOUS
  <2>2. AdmittedIn(FirstStart(i), position[i])' = AdmittedIn(FirstStart(i), FirstStart(i))
    BY <1>2, <2>1, SameCall DEF AdmittedIn
  <2>3. Cardinality(AdmittedIn(FirstStart(i), FirstStart(i))) = 0
    BY <1>3, AdmittedCount
  <2>4. QED
    BY <1>2, <1>3, <2>1, <2>2, <2>3
<1>8. BitmapInv'
  <2>1. \A i \in Shards : position'[i] = FirstStart(i)'
    BY <1>2
  <2>2. \A i \in Shards : \A s \in AllUnits :
            ~ (FirstStart(i)' <= s /\ s < position'[i])
    BY <1>2, <1>3, <2>1 DEF AllUnits
  <2>3. QED
    BY <1>2, <1>4, <2>2 DEF BitmapInv
<1>9. SpawnInv'
    BY <1>2, <1>3, <1>4 DEF SpawnInv, Shards
<1>10. JoinInv' /\ EndInv'
    BY DEF JoinInv, JoinOrderInv, JoinCountInv, Joining, EndInv, Ended
<1>11. QED
    BY <1>5, <1>6, <1>7, <1>8, <1>9, <1>10 DEF IInv

\* a thread that starts keeps it,
LEMMA SpawnStepInv == ASSUME IInv, Spawn PROVE IInv'
<1> USE DEF Spawn
<1>1. Divided /\ Divided' /\ result = "pending" /\ result' = "pending"
    BY DEF Divided, IInv, DecisionInv
<1>2. /\ Units' = Units /\ AllUnits' = AllUnits /\ Worthwhile' = Worthwhile
      /\ Shards' = Shards /\ ShardLimit' = ShardLimit
    BY SameCall
<1>3. /\ ShardLimit \in Nat \ {0} /\ Shards = 0..(ShardLimit - 1)
      /\ threads \in [Shards -> {"idle", "refused", "running", "done", "panic"}]
      /\ next \in 0..ShardLimit
    BY <1>1, DividedFacts
<1>4. next \in Shards
    BY <1>3
<1>5. TypeOK'
    BY <1>1, <1>2, <1>3, <1>4 DEF IInv, TypeOK
<1>6. DecisionInv'
    BY <1>1, <1>2 DEF IInv, DecisionInv
<1>7. ShardInv' /\ BitmapInv'
  <2>1. \A i \in Shards : threads'[i] = "done" => position[i] = EndStart(i)
    BY <1>1, <1>3, <1>4 DEF IInv, ShardInv
  <2>2. QED
    BY <1>1, <2>1, ShardsKept
<1>8. SpawnInv'
    BY <1>2, <1>3, <1>4 DEF IInv, SpawnInv, Started
<1>9. JoinInv' /\ EndInv'
    BY DEF JoinInv, JoinOrderInv, JoinCountInv, Joining, EndInv, Ended
<1>10. QED
    BY <1>5, <1>6, <1>7, <1>8, <1>9 DEF IInv

\* The joins begin with nothing counted.
LEMMA NothingJoined ==
    ASSUME call \in Calls, Worthwhile
    PROVE  Cardinality(AdmittedIn(0, Edge(0))) = 0
<1>1. Edge(0) = 0
    BY ShardsTile
<1>2. QED
    BY <1>1, AdmittedCount

\* one that does not start keeps it,
LEMMA SpawnFailsInv == ASSUME IInv, SpawnFails PROVE IInv'
<1> USE DEF SpawnFails
<1>1. Divided /\ Divided' /\ result = "pending" /\ result' = "pending"
    BY DEF Divided, IInv, DecisionInv
<1>2. /\ Units' = Units /\ AllUnits' = AllUnits /\ Worthwhile' = Worthwhile
      /\ Shards' = Shards /\ ShardLimit' = ShardLimit
    BY SameCall
<1>3. /\ ShardLimit \in Nat \ {0} /\ Shards = 0..(ShardLimit - 1)
      /\ threads \in [Shards -> {"idle", "refused", "running", "done", "panic"}]
      /\ next \in 0..ShardLimit /\ call \in Calls /\ Worthwhile
    BY <1>1, DividedFacts
<1>4. next \in Shards
    BY <1>3
<1>5. TypeOK'
    BY <1>1, <1>2, <1>3, <1>4 DEF IInv, TypeOK
<1>6. DecisionInv'
    BY <1>1, <1>2 DEF IInv, DecisionInv
<1>7. ShardInv' /\ BitmapInv'
  <2>1. \A i \in Shards : threads'[i] = "done" => position[i] = EndStart(i)
    BY <1>1, <1>3, <1>4 DEF IInv, ShardInv
  <2>2. QED
    BY <1>1, <2>1, ShardsKept
<1>8. SpawnInv' /\ EndInv'
    BY DEF SpawnInv, EndInv, Ended
<1>9. JoinInv'
  <2>1. /\ \A i \in Shards : /\ i < next => threads[i] \in Started
                             /\ i >= next => threads[i] = "idle"
        /\ worker_panic' = None /\ count' = 0
    BY DEF IInv, SpawnInv
  <2>2. Cardinality(AdmittedIn(0, Edge(next))') = 0
    <3>1. AdmittedIn(0, Edge(next))' = AdmittedIn(0, Edge(0))
      BY SameCall DEF AdmittedIn, Edge
    <3>2. QED
      BY <1>3, <3>1, NothingJoined
  <2>3. \A i \in Shards : /\ i < spawned' => threads'[i] \in Started
                          /\ i = spawned' => threads'[i] = "refused"
                          /\ i > spawned' => threads'[i] = "idle"
                          /\ ~ (i < next') /\ ~ (i < worker_panic')
    BY <1>3, <1>4, <2>1 DEF None
  <2>4. next' <= spawned'
    BY <1>3
  <2>5. JoinOrderInv'
    BY <1>2, <2>1, <2>3, <2>4 DEF JoinOrderInv, None, Started
  <2>6. JoinCountInv'
    BY <2>1, <2>2 DEF JoinCountInv
  <2>7. QED
    BY <2>5, <2>6 DEF JoinInv
<1>10. QED
    BY <1>5, <1>6, <1>7, <1>8, <1>9 DEF IInv

\* going on to the first shard keeps it, and so does every step.
LEMMA AllSpawnedInv == ASSUME IInv, AllSpawned PROVE IInv'
<1> USE DEF AllSpawned, shardVars
<1>1. Divided /\ Divided' /\ result = "pending" /\ result' = "pending"
    BY DEF Divided, IInv, DecisionInv
<1>2. /\ Units' = Units /\ AllUnits' = AllUnits /\ Worthwhile' = Worthwhile
      /\ Shards' = Shards /\ ShardLimit' = ShardLimit
    BY SameCall
<1>3. /\ ShardLimit \in Nat \ {0} /\ Shards = 0..(ShardLimit - 1)
      /\ threads \in [Shards -> {"idle", "refused", "running", "done", "panic"}]
      /\ next \in 0..ShardLimit /\ call \in Calls /\ Worthwhile
    BY <1>1, DividedFacts
<1>4. TypeOK'
    BY <1>1, <1>2, <1>3 DEF IInv, TypeOK
<1>5. DecisionInv'
    BY <1>1, <1>2 DEF IInv, DecisionInv
<1>6. ShardInv' /\ BitmapInv'
  <2>1. \A i \in Shards : threads'[i] = "done" => position[i] = EndStart(i)
    BY <1>1 DEF IInv, ShardInv
  <2>2. QED
    BY <1>1, <2>1, ShardsKept
<1>7. SpawnInv' /\ EndInv'
    BY DEF SpawnInv, EndInv, Ended
<1>8. JoinInv'
  <2>1. /\ \A i \in Shards : i < next => threads[i] \in Started
        /\ worker_panic' = None /\ count' = 0
    BY DEF IInv, SpawnInv
  <2>2. Cardinality(AdmittedIn(0, Edge(next))') = 0
    <3>1. AdmittedIn(0, Edge(next))' = AdmittedIn(0, Edge(0))
      BY SameCall DEF AdmittedIn, Edge
    <3>2. QED
      BY <1>3, <3>1, NothingJoined
  <2>3. \A i \in Shards : /\ i < spawned' => threads'[i] \in Started
                          /\ ~ (i = spawned') /\ ~ (i > spawned')
                          /\ ~ (i < next') /\ ~ (i < worker_panic')
    BY <1>3, <2>1 DEF None
  <2>4. next' <= spawned'
    BY <1>3
  <2>5. JoinOrderInv'
    BY <1>2, <2>1, <2>3, <2>4 DEF JoinOrderInv
  <2>6. JoinCountInv'
    BY <2>1, <2>2 DEF JoinCountInv
  <2>7. QED
    BY <2>5, <2>6 DEF JoinInv
<1>9. QED
    BY <1>4, <1>5, <1>6, <1>7, <1>8 DEF IInv
\* One start more is tested, in one shard's slice only.
LEMMA TestStartInv ==
    ASSUME IInv, NEW i \in DOMAIN threads, TestStart(i)
    PROVE  IInv'
<1> USE DEF TestStart, AllowsStart, joinVars
<1>1. Divided /\ Divided' /\ call' = call
  <2>1. ~ Divided => threads = << >>
    BY DEF IInv, TypeOK
  <2>2. DOMAIN << >> = {}
    OBVIOUS
  <2>3. Divided
    BY <2>1, <2>2
  <2>4. QED
    BY <2>3 DEF Divided
<1>2. /\ Units' = Units /\ AllUnits' = AllUnits /\ Worthwhile' = Worthwhile
      /\ Shards' = Shards /\ ShardLimit' = ShardLimit
      /\ \A j : FirstStart(j)' = FirstStart(j) /\ EndStart(j)' = EndStart(j)
      /\ \A t : Admits(Union, call.input, t)' = Admits(Union, call.input, t)
    BY <1>1, SameCall
<1>3. /\ threads \in [Shards -> {"idle", "refused", "running", "done", "panic"}]
      /\ position \in [Shards -> 0..Units] /\ admissions \in [Shards -> 0..Units]
      /\ i \in Shards /\ Units \in Nat /\ call \in Calls /\ Worthwhile
      /\ candidates \subseteq AllUnits
    BY <1>1, DividedFacts DEF IInv, TypeOK
<1>4. /\ \A j \in Shards : /\ FirstStart(j) \in 0..Units /\ EndStart(j) \in 0..Units
                           /\ FirstStart(j) <= EndStart(j)
      /\ \A j, k \in Shards : j < k => EndStart(j) <= FirstStart(k)
    BY <1>3, ShardsTile
<1>5. \A j \in Shards :
        /\ FirstStart(j) <= position[j] /\ position[j] <= EndStart(j)
        /\ threads[j] = "done" => position[j] = EndStart(j)
        /\ admissions[j] = Cardinality(AdmittedIn(FirstStart(j), position[j]))
    BY <1>1 DEF IInv, ShardInv
<1> DEFINE here == position[i]
<1>6. here \in AllUnits /\ here + 1 \in 0..Units /\ here \in Nat
    BY <1>3, <1>4 DEF AllUnits
<1>7. /\ \A j \in Shards : j # i => position'[j] = position[j] /\ admissions'[j] = admissions[j]
      /\ position'[i] = here + 1
      /\ admissions'[i] = IF Admits(Union, call.input, here) THEN admissions[i] + 1
                          ELSE admissions[i]
    BY <1>3
<1>8. admissions'[i] = Cardinality(AdmittedIn(FirstStart(i), here + 1))
  <2>1. FirstStart(i) \in Nat /\ FirstStart(i) <= here
    BY <1>3, <1>4, <1>5
  <2>2. QED
    BY <1>3, <1>5, <1>6, <1>7, <2>1, AdmittedNext
<1>9. admissions'[i] \in 0..Units
  <2> DEFINE after == here + 1
             first == FirstStart(i)
             c == Cardinality(AdmittedIn(first, after))
  <2>1. first \in Nat /\ after \in Nat /\ first <= after /\ after <= Units
    BY <1>3, <1>4, <1>5, <1>6
  <2>2. admissions'[i] = c
    BY <1>8
  <2> HIDE DEF TestStart, after, first
  <2>3. c \in Nat /\ c <= after - first
    BY <2>1, AdmittedCount
  <2> HIDE DEF c
  <2>4. c \in 0..Units
    BY <1>3, <2>1, <2>3
  <2>5. QED
    BY <2>2, <2>4
<1>10. TypeOK'
  <2>1. position' \in [Shards -> 0..Units] /\ admissions' \in [Shards -> 0..Units]
    BY <1>3, <1>6, <1>7, <1>9
  <2>2. candidates' \subseteq AllUnits
    BY <1>3, <1>6
  <2>3. QED
    BY <1>1, <1>2, <2>1, <2>2 DEF IInv, TypeOK
<1>11. DecisionInv'
    BY <1>1, <1>2 DEF IInv, DecisionInv
<1>12. ShardInv'
  <2> SUFFICES ASSUME NEW j \in Shards
               PROVE  /\ FirstStart(j)' <= position'[j] /\ position'[j] <= EndStart(j)'
                      /\ threads'[j] = "done" => position'[j] = EndStart(j)'
                      /\ admissions'[j] = Cardinality(AdmittedIn(FirstStart(j), position[j])')
    BY <1>2 DEF ShardInv
  <2>1. AdmittedIn(FirstStart(j), position[j])' = AdmittedIn(FirstStart(j), position'[j])
    BY <1>2 DEF AdmittedIn
  <2>2. CASE j = i
    <3>1. FirstStart(i) <= here + 1 /\ here + 1 <= EndStart(i)
      BY <1>3, <1>4, <1>5, <1>6
    <3>2. QED
      BY <1>2, <1>7, <1>8, <2>1, <2>2, <3>1
  <2>3. CASE j # i
    BY <1>2, <1>5, <1>7, <2>1, <2>3
  <2>4. QED
    BY <2>2, <2>3
<1>13. BitmapInv'
  <2> DEFINE passed(t) == \E j \in Shards : FirstStart(j) <= t /\ t < position[j]
  <2>1. \A t \in AllUnits :
          (\E j \in Shards : FirstStart(j) <= t /\ t < position'[j]) <=> passed(t) \/ t = here
    <3> TAKE t \in AllUnits
    <3>1. t \in Nat
      BY <1>3 DEF AllUnits
    <3>2. \A j \in Shards : t < position[j] => t < position'[j]
      BY <1>3, <1>6, <1>7, <3>1
    <3>3. FirstStart(i) <= here /\ here < position'[i]
      <4>1. FirstStart(i) <= here /\ here < here + 1
        BY <1>3, <1>5, <1>6
      <4>2. QED
        BY <1>7, <4>1
    <3>4. \A j \in Shards : t < position'[j] => t < position[j] \/ t = here
      <4> TAKE j \in Shards
      <4>1. position[j] \in Nat
        BY <1>3
      <4>2. QED
        BY <1>6, <1>7, <3>1, <4>1
    <3>5. QED
      BY <1>3, <3>2, <3>3, <3>4
  <2>2. candidates = { t \in AllUnits : Admits(Union, call.input, t) /\ passed(t) }
    BY <1>1 DEF IInv, BitmapInv
  <2>3. candidates' = { t \in AllUnits :
                          Admits(Union, call.input, t) /\ (passed(t) \/ t = here) }
    BY <1>6, <2>2
  <2>4. candidates' = { t \in AllUnits :
                          /\ Admits(Union, call.input, t)
                          /\ \E j \in Shards : FirstStart(j) <= t /\ t < position'[j] }
    BY <2>1, <2>3
  <2>5. QED
    BY <1>2, <2>4 DEF BitmapInv
<1>14. SpawnInv' /\ EndInv'
    BY <1>1, <1>2 DEF IInv, SpawnInv, EndInv, Ended, Started, None
<1>15. JoinInv'
  <2>1. AdmittedIn(0, Edge(next))' = AdmittedIn(0, Edge(next))
    BY <1>1, SameCall DEF AdmittedIn, Edge
  <2>2. QED
    BY <1>1, <1>2, <2>1 DEF IInv, JoinInv, JoinOrderInv, JoinCountInv, Joining, Started, None
<1>16. QED
    BY <1>10, <1>11, <1>12, <1>13, <1>14, <1>15 DEF IInv
\* A thread that ends leaves the bitmap, the counts and the other threads alone.
LEMMA ShardEndsInv ==
    ASSUME IInv, NEW i \in DOMAIN threads, ShardReturns(i) \/ ShardPanics(i)
    PROVE  IInv'
<1> USE DEF joinVars
<1>1. /\ threads[i] = "running"
      /\ UNCHANGED <<call, phase, position, admissions, candidates, joinVars, result>>
      /\ \/ threads' = [threads EXCEPT ![i] = "done"] /\ position[i] >= EndStart(i)
         \/ threads' = [threads EXCEPT ![i] = "panic"]
    BY DEF ShardReturns, ShardPanics
<1>2. Divided /\ Divided'
  <2>1. ~ Divided => threads = << >>
    BY DEF IInv, TypeOK
  <2>2. DOMAIN << >> = {}
    OBVIOUS
  <2>3. Divided
    BY <2>1, <2>2
  <2>4. QED
    BY <1>1, <2>3 DEF Divided
<1>3. /\ Units' = Units /\ AllUnits' = AllUnits /\ Worthwhile' = Worthwhile
      /\ Shards' = Shards /\ ShardLimit' = ShardLimit
    BY <1>1, SameCall
<1>4. /\ threads \in [Shards -> {"idle", "refused", "running", "done", "panic"}]
      /\ position \in [Shards -> 0..Units]
      /\ i \in Shards /\ Units \in Nat /\ call \in Calls /\ Worthwhile
      /\ ShardLimit \in Nat \ {0} /\ Shards = 0..(ShardLimit - 1)
      /\ next \in 0..ShardLimit /\ spawned \in 0..ShardLimit
    BY <1>2, DividedFacts
<1>5. /\ threads'[i] \in {"done", "panic"}
      /\ threads'[i] = "done" => position[i] >= EndStart(i)
      /\ \A j \in Shards : j # i => threads'[j] = threads[j]
      /\ threads' \in [Shards -> {"idle", "refused", "running", "done", "panic"}]
    BY <1>1, <1>4
<1>6. TypeOK'
    BY <1>1, <1>2, <1>3, <1>5 DEF IInv, TypeOK
<1>7. DecisionInv'
    BY <1>1, <1>2, <1>3 DEF IInv, DecisionInv
<1>8. ShardInv' /\ BitmapInv'
  <2>1. ASSUME NEW j \in Shards, threads'[j] = "done" PROVE position[j] = EndStart(j)
    <3>1. position[j] <= EndStart(j) /\ (threads[j] = "done" => position[j] = EndStart(j))
      BY <1>2 DEF IInv, ShardInv
    <3>2. position[j] \in Nat /\ EndStart(j) \in Nat
      BY <1>4, ShardsTile
    <3>3. QED
      BY <1>5, <2>1, <3>1, <3>2
  <2>2. QED
    BY <1>1, <1>2, <2>1, ShardsKept
<1>9. SpawnInv' /\ EndInv'
  <2>1. phase = "spawn" => i < next
    BY <1>1, <1>4 DEF IInv, SpawnInv
  <2>2. SpawnInv'
    BY <1>1, <1>3, <1>4, <1>5, <2>1 DEF IInv, SpawnInv, Started, None
  <2>3. EndInv'
    BY <1>1, <1>2, <1>3 DEF IInv, EndInv, Ended, None
  <2>4. QED
    BY <2>2, <2>3
<1>10. JoinCountInv'
  <2>1. AdmittedIn(0, Edge(next))' = AdmittedIn(0, Edge(next))
    BY <1>1, SameCall DEF AdmittedIn, Edge
  <2>2. QED
    BY <1>1, <1>2, <2>1 DEF IInv, JoinInv, JoinCountInv, Joining, None
<1>11. JoinOrderInv'
  <2> SUFFICES ASSUME Joining PROVE JoinOrderInv'
    BY <1>1, <1>2 DEF JoinOrderInv, Joining
  <2>1. JoinOrderInv
    BY DEF IInv, JoinInv
  <2>2. i < spawned /\ ~ (i < next) /\ ~ (i < worker_panic) /\ i # worker_panic
    BY <1>1, <1>4, <2>1 DEF JoinOrderInv, Started, None
  <2>3. /\ next' = next /\ spawned' = spawned /\ worker_panic' = worker_panic
        /\ Shards' = Shards
    BY <1>1, <1>3
  <2>4. ASSUME NEW j \in Shards
        PROVE  /\ j < spawned => threads'[j] \in Started
               /\ j = spawned => threads'[j] = "refused"
               /\ j > spawned => threads'[j] = "idle"
               /\ j < next => threads'[j] # "running"
               /\ j < next /\ worker_panic = None => threads'[j] = "done"
               /\ j < worker_panic => threads'[j] = "done"
    <3>1. CASE j = i
      BY <1>4, <1>5, <2>2, <3>1 DEF Started
    <3>2. CASE j # i
      BY <1>5, <2>1, <3>2 DEF JoinOrderInv
    <3>3. QED
      BY <3>1, <3>2
  <2>5. worker_panic # None => worker_panic < next /\ threads'[worker_panic] = "panic"
    <3>1. worker_panic # None => worker_panic \in Shards
      BY <1>2, DividedFacts
    <3>2. QED
      BY <1>5, <2>1, <2>2, <3>1 DEF JoinOrderInv
  <2>6. QED
    BY <2>1, <2>3, <2>4, <2>5 DEF JoinOrderInv, Started, None
<1>12. QED
    BY <1>6, <1>7, <1>8, <1>9, <1>10, <1>11 DEF IInv, JoinInv

\* A joined shard ended, so its slice is counted to its end.
LEMMA JoinStepInv == ASSUME IInv, Join PROVE IInv'
<1>1. /\ phase = "join" /\ next < spawned /\ threads[next] # "running"
      /\ next' = next + 1
      /\ UNCHANGED <<call, phase, threads, position, admissions, candidates, spawned, result>>
    BY DEF Join, shardVars
<1>2. /\ threads[next] = "done" => count' = count + admissions[next]
                                   /\ worker_panic' = worker_panic
      /\ threads[next] # "done" =>
           /\ worker_panic' = IF worker_panic = None THEN next ELSE worker_panic
           /\ count' = count
    BY DEF Join
<1>3. Divided /\ Divided' /\ result = "pending" /\ Joining
    BY <1>1 DEF Divided, IInv, DecisionInv, Joining
<1>4. /\ Units' = Units /\ AllUnits' = AllUnits /\ Worthwhile' = Worthwhile
      /\ Shards' = Shards /\ ShardLimit' = ShardLimit
    BY <1>1, SameCall
<1>5. /\ threads \in [Shards -> {"idle", "refused", "running", "done", "panic"}]
      /\ position \in [Shards -> 0..Units] /\ admissions \in [Shards -> 0..Units]
      /\ Units \in Nat /\ call \in Calls /\ Worthwhile
      /\ ShardLimit \in Nat \ {0} /\ Shards = 0..(ShardLimit - 1)
      /\ next \in 0..ShardLimit /\ spawned \in 0..ShardLimit
      /\ worker_panic \in Shards \cup { None }
    BY <1>3, DividedFacts
<1>6. next \in Shards /\ next + 1 \in 0..ShardLimit /\ next \in Nat
    BY <1>1, <1>5
<1>7. JoinOrderInv /\ JoinCountInv
    BY DEF IInv, JoinInv
<1>8. threads[next] \in {"done", "panic"}
    BY <1>1, <1>3, <1>6, <1>7 DEF JoinOrderInv, Started
<1> DEFINE e == Edge(next)
           f == Edge(next + 1)
           before == Cardinality(AdmittedIn(0, e))
           slice == Cardinality(AdmittedIn(e, f))
           after == Cardinality(AdmittedIn(0, f))
<1>9. e \in 0..Units /\ f \in 0..Units /\ e <= f
      /\ FirstStart(next) = e /\ EndStart(next) = f
    BY <1>5, <1>6, ShardsTile
<1> HIDE DEF e, f
<1>10. /\ before \in Nat /\ slice \in Nat /\ after = before + slice
       /\ after \in Nat /\ after <= f
  <2>1. e \in Nat /\ f \in Nat /\ 0 <= e /\ 0 <= f /\ f - 0 = f
    BY <1>5, <1>9
  <2>2. before \in Nat /\ slice \in Nat /\ after \in Nat /\ after <= f
    BY <2>1, AdmittedCount
  <2>3. after = before + slice
    BY <1>9, <2>1, AdmittedSum
  <2>4. QED
    BY <2>2, <2>3
<1>11. threads[next] = "done" => admissions[next] = slice
    BY <1>3, <1>6, <1>9 DEF IInv, ShardInv
<1>12. /\ count <= before /\ (worker_panic = None => count = before)
       /\ count \in 0..Units
    BY <1>3, <1>7 DEF JoinCountInv, e, IInv, TypeOK
<1> HIDE DEF before, slice, after
<1>13. count' <= after /\ count' \in 0..Units /\ (worker_panic' = None => count' = after)
  <2>1. CASE threads[next] = "done"
    <3>1. count' = count + slice /\ worker_panic' = worker_panic
      BY <1>2, <1>11, <2>1
    <3>2. count + slice <= before + slice /\ count + slice \in Nat
      BY <1>5, <1>10, <1>12
    <3>3. QED
      BY <1>5, <1>9, <1>10, <1>12, <3>1, <3>2
  <2>2. CASE threads[next] = "panic"
    <3>1. worker_panic' # None
      BY <1>2, <1>6, <2>2 DEF None
    <3>2. QED
      BY <1>2, <1>5, <1>9, <1>10, <1>12, <2>2, <3>1
  <2>3. QED
    BY <1>8, <2>1, <2>2
<1>14. worker_panic' \in Shards \cup { None }
    BY <1>2, <1>5, <1>6
<1>15. TypeOK'
    BY <1>1, <1>3, <1>4, <1>6, <1>13, <1>14 DEF IInv, TypeOK
<1>16. DecisionInv'
    BY <1>1, <1>3, <1>4 DEF IInv, DecisionInv
<1>17. ShardInv' /\ BitmapInv'
  <2>1. \A j \in Shards : threads'[j] = "done" => position[j] = EndStart(j)
    BY <1>1, <1>3 DEF IInv, ShardInv
  <2>2. QED
    BY <1>1, <1>3, <2>1, ShardsKept
<1>18. SpawnInv' /\ EndInv'
    BY <1>1 DEF SpawnInv, EndInv, Ended
<1>19. JoinCountInv'
  <2>1. AdmittedIn(0, Edge(next))' = AdmittedIn(0, f)
    BY <1>1, SameCall DEF AdmittedIn, Edge, f
  <2>2. QED
    BY <1>13, <2>1 DEF JoinCountInv, None, after
<1>20. JoinOrderInv'
  <2>1. CASE threads[next] = "done"
    <3>1. worker_panic' = worker_panic
      BY <1>2, <2>1
    <3>2. QED
      BY <1>1, <1>3, <1>4, <1>5, <1>6, <1>7, <2>1, <3>1 DEF JoinOrderInv, Started, None
  <2>2. CASE threads[next] = "panic" /\ worker_panic = None
    <3>1. worker_panic' = next
      BY <1>2, <2>2
    <3>2. QED
      BY <1>1, <1>3, <1>4, <1>5, <1>6, <1>7, <2>2, <3>1 DEF JoinOrderInv, Started, None
  <2>3. CASE threads[next] = "panic" /\ worker_panic # None
    <3>1. worker_panic' = worker_panic
      BY <1>2, <2>3
    <3>2. QED
      BY <1>1, <1>3, <1>4, <1>5, <1>6, <1>7, <2>3, <3>1 DEF JoinOrderInv, Started, None
  <2>4. QED
    BY <1>8, <2>1, <2>2, <2>3
<1>21. QED
    BY <1>15, <1>16, <1>17, <1>18, <1>19, <1>20 DEF IInv, JoinInv

\* The three ways to end after the joins change nothing but the result.
LEMMA EndStepInv ==
    ASSUME IInv, ResumePanic \/ ReturnError \/ ReturnPlan
    PROVE  IInv'
<1>1. /\ phase = "join" /\ next >= spawned
      /\ UNCHANGED <<call, threads, position, admissions, candidates,
                     next, spawned, worker_panic, count>>
      /\ \/ phase' = "panicked" /\ result' = "panic" /\ worker_panic # None
         \/ /\ phase' = "returned" /\ result' = "error"
            /\ worker_panic = None /\ spawned < ShardLimit
         \/ /\ phase' = "returned" /\ result' = "plan"
            /\ worker_panic = None /\ spawned = ShardLimit
    BY DEF ResumePanic, ReturnError, ReturnPlan, Joined, shardVars, joinVars
<1>2. Divided /\ Divided' /\ Joining /\ Joining'
    BY <1>1 DEF Divided, IInv, DecisionInv, Joining
<1>3. /\ Units' = Units /\ AllUnits' = AllUnits /\ Worthwhile' = Worthwhile
      /\ Shards' = Shards /\ ShardLimit' = ShardLimit
    BY <1>1, SameCall
<1>4. next \in 0..ShardLimit /\ spawned \in 0..ShardLimit /\ ShardLimit \in Nat
    BY <1>2, DividedFacts
<1>5. TypeOK'
    BY <1>1, <1>2, <1>3 DEF IInv, TypeOK
<1>6. DecisionInv'
    BY <1>1, <1>2, <1>3 DEF IInv, DecisionInv
<1>7. ShardInv' /\ BitmapInv'
  <2>1. \A i \in Shards : threads'[i] = "done" => position[i] = EndStart(i)
    BY <1>1, <1>2 DEF IInv, ShardInv
  <2>2. QED
    BY <1>1, <1>2, <2>1, ShardsKept
<1>8. JoinOrderInv'
    BY <1>1, <1>2, <1>3 DEF IInv, JoinInv, JoinOrderInv, Started, None
<1>9. JoinCountInv'
  <2>1. AdmittedIn(0, Edge(next))' = AdmittedIn(0, Edge(next))
    BY <1>1, SameCall DEF AdmittedIn, Edge
  <2>2. QED
    BY <1>1, <1>2, <2>1 DEF IInv, JoinInv, JoinCountInv, None
<1>10. SpawnInv' /\ EndInv'
  <2>1. next = spawned
    BY <1>1, <1>2, <1>4 DEF IInv, JoinInv, JoinOrderInv
  <2>2. QED
    BY <1>1, <1>3, <2>1 DEF SpawnInv, EndInv, None
<1>11. QED
    BY <1>5, <1>6, <1>7, <1>8, <1>9, <1>10 DEF IInv, JoinInv
\* Nothing changes.
LEMMA StutterInv == ASSUME IInv, UNCHANGED sharedVars PROVE IInv'
<1>1. UNCHANGED <<call, phase, threads, position, admissions, candidates, next, spawned,
                  worker_panic, count, result>>
    BY DEF sharedVars, shardVars, joinVars
<1>2. /\ Units' = Units /\ AllUnits' = AllUnits /\ Worthwhile' = Worthwhile
      /\ Shards' = Shards /\ ShardLimit' = ShardLimit
    BY <1>1, SameCall
<1>3. Divided' = Divided /\ Joining' = Joining /\ Ended' = Ended
    BY <1>1 DEF Divided, Joining, Ended
<1>4. TypeOK'
    BY <1>1, <1>2, <1>3 DEF IInv, TypeOK
<1>5. DecisionInv'
    BY <1>1, <1>2, <1>3 DEF IInv, DecisionInv
<1>6. ShardInv' /\ BitmapInv'
  <2>1. CASE Divided
    <3>1. \A i \in Shards : threads'[i] = "done" => position[i] = EndStart(i)
      BY <1>1, <2>1 DEF IInv, ShardInv
    <3>2. QED
      BY <1>1, <2>1, <3>1, ShardsKept
  <2>2. CASE ~ Divided
    BY <1>3, <2>2 DEF ShardInv, BitmapInv
  <2>3. QED
    BY <2>1, <2>2
<1>7. SpawnInv' /\ EndInv'
    BY <1>1, <1>2, <1>3 DEF IInv, SpawnInv, EndInv, Started, None
<1>8. JoinOrderInv'
    BY <1>1, <1>2, <1>3 DEF IInv, JoinInv, JoinOrderInv, Started, None
<1>9. JoinCountInv'
  <2>1. AdmittedIn(0, Edge(next))' = AdmittedIn(0, Edge(next))
    BY <1>1, SameCall DEF AdmittedIn, Edge
  <2>2. QED
    BY <1>1, <1>3, <2>1 DEF IInv, JoinInv, JoinCountInv, None
<1>10. QED
    BY <1>4, <1>5, <1>6, <1>7, <1>8, <1>9 DEF IInv, JoinInv

\* Every step keeps the invariant.
LEMMA StepInv == IInv /\ [Next]_sharedVars => IInv'
<1> SUFFICES ASSUME IInv, [Next]_sharedVars PROVE IInv'
    OBVIOUS
<1>1. CASE Decline
    BY <1>1, DeclineInv
<1>2. CASE Split
    BY <1>2, SplitInv
<1>3. CASE Spawn
    BY <1>3, SpawnStepInv
<1>4. CASE SpawnFails
    BY <1>4, SpawnFailsInv
<1>5. CASE AllSpawned
    BY <1>5, AllSpawnedInv
<1>6. CASE Join
    BY <1>6, JoinStepInv
<1>7. CASE ResumePanic \/ ReturnError \/ ReturnPlan
    BY <1>7, EndStepInv
<1>8. CASE \E i \in DOMAIN threads : Shard(i)
    BY <1>8, TestStartInv, ShardEndsInv DEF Shard
<1>9. CASE Stop \/ UNCHANGED sharedVars
    BY <1>9, StutterInv DEF Stop
<1>10. QED
    BY <1>1, <1>2, <1>3, <1>4, <1>5, <1>6, <1>7, <1>8, <1>9 DEF Next

\* The invariant holds throughout.
LEMMA AlwaysIInv == Spec => []IInv
<1>1. Init => IInv
    BY InitInv
<1>2. QED
    BY <1>1, StepInv, PTL DEF Spec

-----------------------------------------------------------------------------
(* What a plan promises. *)

\* After the last join of a plan every shard has reached the end of its slice.
LEMMA PlanIsComplete ==
    ASSUME IInv, result = "plan"
    PROVE  /\ Divided /\ Ended /\ worker_panic = None /\ next = ShardLimit
           /\ \A i \in Shards : threads[i] = "done" /\ position[i] = EndStart(i)
<1>1. Divided /\ Ended /\ Joining
    BY DEF IInv, TypeOK, DecisionInv, Divided, Ended, Joining
<1>2. worker_panic = None /\ next = ShardLimit
    BY <1>1 DEF IInv, EndInv
<1>3. ASSUME NEW i \in Shards PROVE threads[i] = "done" /\ position[i] = EndStart(i)
  <2>1. i < next
    BY <1>1, <1>2, DividedFacts
  <2>2. threads[i] = "done"
    BY <1>1, <1>2, <2>1 DEF IInv, JoinInv, JoinOrderInv
  <2>3. QED
    BY <1>1, <2>2 DEF IInv, ShardInv
<1>4. QED
    BY <1>1, <1>2, <1>3

\* The invariant makes the handed-out bitmap exact.
LEMMA PlanExactFromInv == IInv => PlanIsExact
<1> SUFFICES ASSUME IInv, result = "plan"
             PROVE  /\ candidates = Admitted(Union, call.input)
                    /\ count = Cardinality(candidates)
    BY DEF PlanIsExact
<1>1. /\ Divided /\ Joining /\ worker_panic = None /\ next = ShardLimit
      /\ \A i \in Shards : position[i] = EndStart(i)
    BY PlanIsComplete DEF Joining, Ended
<1>2. /\ Edge(ShardLimit) = Units /\ Units \in Nat
      /\ \A s \in AllUnits : \E i \in Shards : FirstStart(i) <= s /\ s < EndStart(i)
    BY <1>1, DividedFacts, ShardsTile
<1>3. Admitted(Union, call.input) = { s \in AllUnits : Admits(Union, call.input, s) }
    BY DEF Admitted, AllUnits, Units
<1>4. candidates = { s \in AllUnits :
                       /\ Admits(Union, call.input, s)
                       /\ \E i \in Shards : FirstStart(i) <= s /\ s < EndStart(i) }
    BY <1>1 DEF IInv, BitmapInv
<1>5. candidates = Admitted(Union, call.input)
    BY <1>2, <1>3, <1>4
<1>6. AdmittedIn(0, Edge(next)) = candidates
    BY <1>1, <1>2, <1>3, <1>5 DEF AdmittedIn, AllUnits
<1>7. count = Cardinality(AdmittedIn(0, Edge(next)))
    BY <1>1 DEF IInv, JoinInv, JoinCountInv
<1>8. QED
    BY <1>5, <1>6, <1>7

\* No thread tests a start outside the input, and no count exceeds it.
THEOREM SharedTypes == Spec => []TypeOK
<1>1. IInv => TypeOK
    BY DEF IInv
<1>2. QED
    BY <1>1, AlwaysIInv, PTL

\* A bitmap that is handed out has exactly the admitted starts, however the words divide
\* among the threads and however the threads interleave; its count is their number.
THEOREM PlanExact == Spec => []PlanIsExact
    BY AlwaysIInv, PlanExactFromInv, PTL

\* Each partition finds in the shared bitmap the starts of its own filter, no fewer and
\* no more, whatever the other partitions' filters admit.
THEOREM PrivateKept == Spec => []PrivateStartsKept
<1>1. IInv => PrivateStartsKept
  <2> SUFFICES ASSUME IInv, result = "plan", NEW p \in Partitions
               PROVE  { s \in candidates : Admits(call.filters[p], call.input, s) }
                        = Admitted(call.filters[p], call.input)
    BY DEF PrivateStartsKept, PartitionStarts, SharedAllowsStart
  <2>1. candidates = Admitted(Union, call.input)
    BY PlanExactFromInv DEF PlanIsExact
  <2>2. \A s : Admits(call.filters[p], call.input, s) => Admits(Union, call.input, s)
    BY UnionAdmits DEF Union, Partitions
  <2>3. QED
    BY <2>1, <2>2 DEF Admitted
<1>2. QED
    BY <1>1, AlwaysIInv, PTL

\* The outcome is a function of what happened to each thread, in shard order.
THEOREM PlanDetermined == Spec => []PlanResultIsDetermined
<1>1. IInv => PlanResultIsDetermined
  <2> SUFFICES ASSUME IInv PROVE PlanResultIsDetermined
    OBVIOUS
  <2>1. result = "no plan" => ~ Worthwhile
    BY DEF IInv, DecisionInv
  <2>2. ASSUME result \in {"panic", "error"}
        PROVE  /\ Divided /\ Ended /\ Joining /\ next = spawned /\ DOMAIN threads = Shards
               /\ ShardLimit \in Nat \ {0} /\ Shards = 0..(ShardLimit - 1)
               /\ spawned \in 0..ShardLimit
    <3>1. Divided /\ Ended /\ Joining
      BY <2>2 DEF IInv, TypeOK, DecisionInv, Divided, Ended, Joining
    <3>2. QED
      BY <3>1, DividedFacts DEF IInv, EndInv
  <2>3. ASSUME result = "panic"
        PROVE  /\ threads[worker_panic] = "panic"
               /\ \A i \in With("panic") : worker_panic <= i
    <3>1. worker_panic # None /\ worker_panic \in Shards /\ threads[worker_panic] = "panic"
      BY <2>2, <2>3, DividedFacts DEF IInv, EndInv, JoinInv, JoinOrderInv
    <3>2. \A i \in Shards : i < worker_panic => threads[i] = "done"
      BY <2>2, <2>3 DEF IInv, JoinInv, JoinOrderInv
    <3>3. QED
      BY <2>2, <2>3, <3>1, <3>2 DEF With
  <2>4. ASSUME result = "error"
        PROVE  With("panic") = {} /\ With("refused") # {}
    <3>1. worker_panic = None /\ spawned < ShardLimit /\ spawned \in Shards
      BY <2>2, <2>4 DEF IInv, EndInv
    <3>2. \A i \in Shards : /\ i < spawned => threads[i] = "done"
                            /\ i = spawned => threads[i] = "refused"
                            /\ i > spawned => threads[i] = "idle"
      BY <2>2, <2>4, <3>1 DEF IInv, JoinInv, JoinOrderInv
    <3>3. spawned \in With("refused")
      BY <2>2, <2>4, <3>1, <3>2 DEF With
    <3>4. \A i \in Shards : threads[i] # "panic"
      BY <2>2, <2>4, <3>2
    <3>5. QED
      BY <2>2, <2>4, <3>3, <3>4 DEF With
  <2>5. result = "plan" => \A i \in Shards : threads[i] = "done"
    BY PlanIsComplete
  <2>6. QED
    BY <2>1, <2>3, <2>4, <2>5 DEF PlanResultIsDetermined
<1>2. QED
    BY <1>1, AlwaysIInv, PTL

\* When the call ends no thread is still at work on the bitmap.
THEOREM NoneOutlives == Spec => []NoShardOutlivesThePlan
<1>1. IInv => NoShardOutlivesThePlan
  <2> SUFFICES ASSUME IInv, Ended PROVE With("running") = {}
    BY DEF NoShardOutlivesThePlan
  <2>1. CASE ~ Divided
    <3>1. threads = << >>
      BY <2>1 DEF IInv, TypeOK
    <3>2. DOMAIN << >> = {}
      OBVIOUS
    <3>3. QED
      BY <3>1, <3>2 DEF With
  <2>2. CASE Divided
    <3>1. Joining /\ next = spawned
      BY <2>2 DEF Joining, Ended, IInv, EndInv
    <3>2. /\ DOMAIN threads = Shards /\ Shards = 0..(ShardLimit - 1)
          /\ ShardLimit \in Nat /\ spawned \in 0..ShardLimit
      BY <2>2, DividedFacts
    <3>3. \A i \in Shards : threads[i] # "running"
      BY <3>1, <3>2 DEF IInv, JoinInv, JoinOrderInv
    <3>4. QED
      BY <3>2, <3>3 DEF With
  <2>3. QED
    BY <2>1, <2>2
<1>2. QED
    BY <1>1, AlwaysIInv, PTL

-----------------------------------------------------------------------------
(* The matches from one start of a private plan (CandidatePlan). *)

\* A closure from nothing marked has what its seeds reach.
LEMMA ClosureIsHull ==
    ASSUME NEW states, IsFiniteSet(states), NEW edges \in SUBSET (states \X states),
           NEW seeds \in SUBSET states
    PROVE  ExtendClosure(states, edges, seeds, {}) = Hull(states, edges, seeds)
<1> DEFINE grow[reached \in SUBSET states] ==
             LET more == { e[2] : e \in { f \in edges : /\ f[1] \in reached
                                                        /\ f[2] \notin reached
                                                        /\ f[2] \notin {} } }
             IN  IF more = {} THEN reached ELSE grow[reached \cup more]
           Raw(f) == [reached \in SUBSET states |->
             LET more == { e[2] : e \in { x \in edges : /\ x[1] \in reached
                                                        /\ x[2] \notin reached
                                                        /\ x[2] \notin {} } }
             IN  IF more = {} THEN reached ELSE f[reached \cup more]]
           Step(f) == [R \in SUBSET states |->
                         IF More(edges, R) = {} THEN R ELSE f[R \cup More(edges, R)]]
<1>1. ExtendClosure(states, edges, seeds, {}) = states \cap grow[seeds \ {}]
    BY Zenon DEF ExtendClosure
<1>2. grow = CHOOSE f : f = Step(f)
    <2>1. grow = CHOOSE f : f = Raw(f)
        BY Zenon
    <2>2. ASSUME NEW f PROVE Raw(f) = Step(f)
        <3>1. ASSUME NEW R
              PROVE  { e[2] : e \in { x \in edges : /\ x[1] \in R
                                                    /\ x[2] \notin R
                                                    /\ x[2] \notin {} } } = More(edges, R)
            BY DEF More
        <3>2. QED
            BY <3>1, Zenon
    <2> HIDE DEF grow, Raw, Step
    <2>3. QED
        BY <2>1, <2>2, Zenon
<1> HIDE DEF grow, Step
<1>3. grow[seeds] = Hull(states, edges, seeds)
    BY <1>2, GrownIsHull, Zenon DEF Step
<1>4. seeds \ {} = seeds
    OBVIOUS
<1>5. Hull(states, edges, seeds) \in SUBSET states
    BY HullFacts
<1>6. QED
    BY <1>1, <1>3, <1>4, <1>5

\* Closures hold their seeds and whatever an epsilon edge adds.
LEMMA ClosureFacts ==
    ASSUME NEW db, db \in Database(db.state), IsFiniteSet(db.state),
           NEW seeds \in SUBSET db.state
    PROVE  /\ EpsilonClosureInto(db, seeds) \in SUBSET db.state
           /\ seeds \subseteq EpsilonClosureInto(db, seeds)
           /\ Closed(db.epsilon, EpsilonClosureInto(db, seeds))
<1> DEFINE S == db.state
           edges == db.epsilon
<1>1. edges \in SUBSET (S \X S)
    BY DEF Database
<1>2. EpsilonClosureInto(db, seeds) = Hull(S, edges, seeds)
    BY <1>1, ClosureIsHull DEF EpsilonClosureInto, ExtendEpsilonClosure
<1> HIDE DEF S, edges
<1>3. /\ Hull(S, edges, seeds) \in SUBSET S
      /\ seeds \subseteq Hull(S, edges, seeds)
      /\ \A e \in edges : e[1] \in Hull(S, edges, seeds) /\ e[2] \in S
                             => e[2] \in Hull(S, edges, seeds)
    BY HullFacts DEF S
<1>4. Closed(edges, Hull(S, edges, seeds))
    BY <1>1, <1>3 DEF Closed
<1>5. QED
    BY <1>2, <1>3, <1>4 DEF S, edges

\* A unit leads from a set of states into its transition.
LEMMA TransitionFacts ==
    ASSUME NEW db, db \in Database(db.state), IsFiniteSet(db.state), NEW from, NEW a
    PROVE  /\ TransitionInto(db, from, a) \in SUBSET db.state
           /\ Closed(db.epsilon, TransitionInto(db, from, a))
           /\ \A e \in db.consuming : e[1] \in from /\ a \in e[2]
                                         => e[3] \in TransitionInto(db, from, a)
<1>1. ConsumingTargets(db, from, a) \in SUBSET db.state
    BY DEF ConsumingTargets, Database
<1>2. \A e \in db.consuming : e[1] \in from /\ a \in e[2] => e[3] \in ConsumingTargets(db, from, a)
    BY DEF ConsumingTargets
<1>3. QED
    BY <1>1, <1>2, ClosureFacts DEF TransitionInto

Configurations(db, text) == (0..Len(text)) \X db.state \X BOOLEAN

\* The ways on from a configuration: an epsilon edge, or an edge for the next unit.
GoesOn(db, text, c, d) ==
    \/ \E e \in db.epsilon : c[2] = e[1] /\ d = <<c[1], e[2], c[3]>>
    \/ /\ c[1] < Len(text)
       /\ \E e \in db.consuming : /\ c[2] = e[1] /\ text[c[1] + 1] \in e[2]
                                  /\ d = <<c[1] + 1, e[3], TRUE>>

LEMMA WaysOn ==
    ASSUME NEW db, db \in Database(db.state), db.assertion = {},
           NEW text, Len(text) \in Nat, NEW x \in ConfigurationStep(db, text)
    PROVE  /\ x \in Configurations(db, text) \X Configurations(db, text)
           /\ GoesOn(db, text, x[1], x[2])
<1> DEFINE eps == { <<<<p, e[1], c>>, <<p, e[2], c>>>> :
                      p \in 0..Len(text), e \in db.epsilon, c \in BOOLEAN }
           asserting(p, c) == { <<<<p, e[1], c>>, <<p, e[3], c>>>> :
                 e \in { a \in db.assertion : AssertionMatches(a[2], text, p, c) } }
           reading(p, c) == { <<<<p, e[1], c>>, <<p + 1, e[3], TRUE>>>> :
                 e \in { f \in db.consuming : text[p + 1] \in f[2] } }
<1>1. \/ x \in eps
      \/ \E p \in 0..Len(text), c \in BOOLEAN : x \in asserting(p, c)
      \/ \E p \in 0..(Len(text) - 1), c \in BOOLEAN : x \in reading(p, c)
    <2>1. ConfigurationStep(db, text)
            = eps \cup (UNION { asserting(p, c) : p \in 0..Len(text), c \in BOOLEAN })
                  \cup (UNION { reading(p, c) : p \in 0..(Len(text) - 1), c \in BOOLEAN })
        BY DEF ConfigurationStep
    <2> HIDE DEF eps, asserting, reading
    <2>2. QED
        BY <2>1
<1>2. \A p, c : asserting(p, c) = {}
    OBVIOUS
<1>3. /\ db.epsilon \in SUBSET (db.state \X db.state)
      /\ db.consuming \in SUBSET (db.state \X (SUBSET Symbol) \X db.state)
    BY DEF Database
<1>4. CASE x \in eps
    <2>1. PICK p \in 0..Len(text), e \in db.epsilon, c \in BOOLEAN :
             x = <<<<p, e[1], c>>, <<p, e[2], c>>>>
        BY <1>4
    <2>2. e[1] \in db.state /\ e[2] \in db.state
        BY <1>3
    <2>3. x[1] = <<p, e[1], c>> /\ x[2] = <<p, e[2], c>>
        BY <2>1
    <2>4. x[1][1] = p /\ x[1][2] = e[1] /\ x[1][3] = c
        BY <2>3
    <2>5. GoesOn(db, text, x[1], x[2])
        BY <2>3, <2>4 DEF GoesOn
    <2>6. QED
        BY <2>1, <2>2, <2>5 DEF Configurations
<1>5. CASE \E p \in 0..(Len(text) - 1), c \in BOOLEAN : x \in reading(p, c)
    <2>1. PICK p \in 0..(Len(text) - 1), c \in BOOLEAN : x \in reading(p, c)
        BY <1>5
    <2>2. PICK e \in db.consuming :
             text[p + 1] \in e[2] /\ x = <<<<p, e[1], c>>, <<p + 1, e[3], TRUE>>>>
        BY <2>1
    <2>3. e[1] \in db.state /\ e[3] \in db.state
        BY <1>3
    <2>4. p \in 0..Len(text) /\ p + 1 \in 0..Len(text) /\ p < Len(text)
        OBVIOUS
    <2>5. x[1] = <<p, e[1], c>> /\ x[2] = <<p + 1, e[3], TRUE>>
        BY <2>2
    <2>6. x[1][1] = p /\ x[1][2] = e[1]
        BY <2>5
    <2>7. GoesOn(db, text, x[1], x[2])
        BY <2>2, <2>4, <2>5, <2>6 DEF GoesOn
    <2>8. QED
        BY <2>2, <2>3, <2>4, <2>7 DEF Configurations
<1> HIDE DEF asserting, reading, eps
<1>6. QED
    BY <1>1, <1>2, <1>4, <1>5

\* The accepting configurations a scan from a start reaches lie in the database.
LEMMA MatchReached ==
    ASSUME NEW db, NEW root, NEW text, NEW s, NEW match \in LongestMatches(db, root, text, s)
    PROVE  /\ match[1] = s
           /\ \E c \in ReachableConfigurations(db, root, text, s) :
                 /\ c \in Configurations(db, text)
                 /\ c[3] /\ match[2] \in db.terminals[c[2]]
<1> DEFINE reached == ReachableConfigurations(db, root, text, s)
           ends(o) == AcceptedEnds(reached, db, o)
<1>1. LongestMatches(db, root, text, s)
        = { <<s, o, Max(ends(o))>> : o \in { q \in Ordinal : ends(q) # {} } }
    BY Zenon DEF LongestMatches
<1> HIDE DEF reached
<1>2. PICK o \in Ordinal : ends(o) # {} /\ match = <<s, o, Max(ends(o))>>
    BY <1>1
<1>3. PICK c \in reached : c[3] /\ o \in db.terminals[c[2]]
    BY <1>2 DEF AcceptedEnds
<1>4. reached \subseteq Configurations(db, text)
    BY DEF reached, ReachableConfigurations, ExtendClosure, Configurations
<1>5. match[1] = s /\ match[2] = o
    BY <1>2
<1>6. QED
    BY <1>3, <1>4, <1>5 DEF reached

\* Without assertions a start has no match if configurations that cannot be left hold
\* none that accepts.
LEMMA NoMatchWithin ==
    ASSUME NEW db, db \in Database(db.state), IsFiniteSet(db.state), db.assertion = {},
           db.root \in db.state,
           NEW text, Len(text) \in Nat, NEW s \in 0..(Len(text) - 1),
           NEW K \in SUBSET Configurations(db, text), <<s, db.root, FALSE>> \in K,
           \A c \in K, d \in Configurations(db, text) : GoesOn(db, text, c, d) => d \in K,
           \A c \in K : c[3] => db.terminals[c[2]] = {}
    PROVE  MatchesFrom(db, text, s) = {}
<1> DEFINE cfgs == Configurations(db, text)
           edges == ConfigurationStep(db, text)
           seeds == { <<s, db.root, FALSE>> }
<1>1. IsFiniteSet(cfgs)
    <2>1. IsFiniteSet(0..Len(text)) /\ IsFiniteSet(BOOLEAN)
        <3>1. BOOLEAN = {TRUE} \cup {FALSE}
            BY Zenon
        <3>2. IsFiniteSet({TRUE}) /\ IsFiniteSet({FALSE})
            BY FS_Singleton
        <3>3. IsFiniteSet({TRUE} \cup {FALSE})
            BY <3>2, FS_Union
        <3>4. IsFiniteSet(0..Len(text))
            BY FS_Interval
        <3>5. QED
            BY <3>1, <3>3, <3>4
    <2>2. QED
        BY <2>1, TripleFinite DEF Configurations
<1>2. edges \in SUBSET (cfgs \X cfgs) /\ Closed(edges, K)
    <2>1. \A x \in edges : x \in cfgs \X cfgs /\ GoesOn(db, text, x[1], x[2])
        BY WaysOn
    <2> HIDE DEF edges
    <2>2. QED
        BY <2>1 DEF Closed
<1>3. seeds \in SUBSET cfgs /\ seeds \subseteq K
    OBVIOUS
<1>4. ReachableConfigurations(db, db.root, text, s) = ExtendClosure(cfgs, edges, seeds, {})
    BY Zenon DEF ReachableConfigurations, Configurations
<1> HIDE DEF cfgs, edges, seeds
<1>5. ExtendClosure(cfgs, edges, seeds, {}) \subseteq K
    <2>1. K \in SUBSET cfgs
        BY DEF cfgs
    <2>2. QED
        BY <1>1, <1>2, <1>3, <2>1, ClosureIsHull, HullWithin
<1>6. SUFFICES ASSUME NEW match \in MatchesFrom(db, text, s) PROVE FALSE
    OBVIOUS
<1>7. PICK c \in ReachableConfigurations(db, db.root, text, s) :
          c[3] /\ match[2] \in db.terminals[c[2]]
    BY <1>6, MatchReached DEF MatchesFrom
<1>8. QED
    BY <1>4, <1>5, <1>7

\* The start table excludes only starts without a match.
THEOREM TableExcludesNoMatch ==
    ASSUME NEW db, db \in Database(db.state), IsFiniteSet(db.state), db.assertion = {},
           db.root \in db.state,
           NEW text, Len(text) \in Nat, NEW s \in 0..(Len(text) - 1),
           ~ TableAllows(StartTable(db), text, s)
    PROVE  MatchesFrom(db, text, s) = {}
<1> DEFINE begun == EpsilonClosureInto(db, { db.root })
           after == [x \in Ascii |-> TransitionInto(db, begun, x)]
           a == text[s + 1]
           b == text[s + 2]
<1>1. /\ StartTable(db).first = { x \in Ascii : after[x] # {} }
      /\ StartTable(db).pair = { p \in StartTable(db).first \X Ascii :
                                    Continues(db, after[p[1]], p[2]) }
    BY DEF StartTable
<1>2. a \in Ascii
    BY DEF TableAllows
<1> DEFINE one == TransitionInto(db, begun, a)
           K == { <<s, q, FALSE>> : q \in begun } \cup { <<s + 1, q, TRUE>> : q \in one }
<1>3. after[a] = one
    BY <1>2
<1>4. /\ begun \in SUBSET db.state /\ db.root \in begun /\ Closed(db.epsilon, begun)
      /\ one \in SUBSET db.state /\ Closed(db.epsilon, one)
      /\ \A e \in db.consuming : e[1] \in begun /\ a \in e[2] => e[3] \in one
      /\ \A e \in db.consuming : e[1] \in one /\ b \in e[2] => e[3] \in TransitionInto(db, one, b)
    BY ClosureFacts, TransitionFacts
<1>5. /\ TerminalsOf(db, one) = {}
      /\ one # {} => s + 1 < Len(text) /\ TransitionInto(db, one, b) = {}
    <2>1. CASE a \notin StartTable(db).first
        <3>1. one = {}
            BY <1>1, <1>2, <1>3, <2>1
        <3>2. QED
            BY <3>1 DEF TerminalsOf
    <2>2. CASE a \in StartTable(db).first
        <3>1. s + 1 < Len(text) /\ b \in Ascii /\ <<a, b>> \notin StartTable(db).pair
            BY <1>2, <2>2 DEF TableAllows
        <3> HIDE DEF a, b, after
        <3>2. ~ Continues(db, after[a], b)
            BY <1>1, <2>2, <3>1
        <3>3. QED
            BY <1>3, <3>1, <3>2 DEF Continues
    <2>3. QED
        BY <2>1, <2>2
<1> HIDE DEF begun, after, one
<1>6. s \in 0..Len(text) /\ s + 1 \in 0..Len(text) /\ s \in Nat
    OBVIOUS
<1>7. K \in SUBSET Configurations(db, text) /\ <<s, db.root, FALSE>> \in K
    <2>1. \A q \in begun : <<s, q, FALSE>> \in Configurations(db, text)
        BY <1>4, <1>6 DEF Configurations
    <2>2. \A q \in one : <<s + 1, q, TRUE>> \in Configurations(db, text)
        BY <1>4, <1>6 DEF Configurations
    <2> HIDE DEF one
    <2>3. QED
        BY <1>4, <2>1, <2>2
<1>8. ASSUME NEW c \in K, NEW d \in Configurations(db, text), GoesOn(db, text, c, d)
      PROVE  d \in K
    <2>1. CASE \E q \in begun : c = <<s, q, FALSE>>
        <3>1. PICK q \in begun : c = <<s, q, FALSE>>
            BY <2>1
        <3>2. c[1] = s /\ c[2] = q /\ c[3] = FALSE
            BY <3>1
        <3>3. CASE \E e \in db.epsilon : c[2] = e[1] /\ d = <<c[1], e[2], c[3]>>
            BY <1>4, <3>2, <3>3 DEF Closed
        <3>4. CASE \E e \in db.consuming : /\ c[2] = e[1] /\ text[c[1] + 1] \in e[2]
                                           /\ d = <<c[1] + 1, e[3], TRUE>>
            BY <1>4, <3>2, <3>4
        <3>5. QED
            BY <1>8, <3>3, <3>4 DEF GoesOn
    <2>2. CASE \E q \in one : c = <<s + 1, q, TRUE>>
        <3>1. PICK q \in one : c = <<s + 1, q, TRUE>>
            BY <2>2
        <3>2. c[1] = s + 1 /\ c[2] = q /\ c[3] = TRUE
            BY <3>1
        <3>3. CASE \E e \in db.epsilon : c[2] = e[1] /\ d = <<c[1], e[2], c[3]>>
            BY <1>4, <3>2, <3>3 DEF Closed
        <3>4. CASE \E e \in db.consuming : /\ c[2] = e[1] /\ text[c[1] + 1] \in e[2]
                                           /\ d = <<c[1] + 1, e[3], TRUE>>
            <4>1. PICK e \in db.consuming : c[2] = e[1] /\ text[c[1] + 1] \in e[2]
                BY <3>4
            <4>2. (s + 1) + 1 = s + 2
                BY <1>6
            <4>3. e[1] \in one /\ b \in e[2]
                BY <3>2, <4>1, <4>2
            <4>4. e[3] \in TransitionInto(db, one, b)
                BY <1>4, <4>3
            <4>5. QED
                BY <1>5, <4>3, <4>4
        <3>5. QED
            BY <1>8, <3>3, <3>4 DEF GoesOn
    <2>3. QED
        BY <1>8, <2>1, <2>2
<1>9. ASSUME NEW c \in K, c[3] PROVE db.terminals[c[2]] = {}
    <2>1. c[2] \in one
        <3>1. CASE \E q \in begun : c = <<s, q, FALSE>>
            <4>1. c[3] = FALSE
                BY <3>1
            <4>2. QED
                BY <4>1, <1>9
        <3>2. CASE \E q \in one : c = <<s + 1, q, TRUE>>
            BY <3>2
        <3>3. QED
            BY <1>9, <3>1, <3>2
    <2>2. QED
        BY <2>1, <1>5 DEF TerminalsOf
<1> HIDE DEF K
<1>10. QED
    BY <1>7, <1>8, <1>9, NoMatchWithin

-----------------------------------------------------------------------------
(* The invariant of a private plan. *)

\* Every match of a pattern begins with the literal collected for it.
AllNecessary(db, literals) ==
    \A text \in Texts : \A s \in 0..(Len(text) - 1) :
        \A match \in MatchesFrom(db, text, s) :
            match[2] < Len(literals) => BeginsWith(text, s, literals[match[2] + 1])

PartitionInv ==
    /\ patterns \in PatternSets /\ database = DatabaseOf(patterns)
    /\ stage \in {"compile", "ready", "sample", "rest", "planned"}
    /\ stage \notin {"compile", "ready"} => input \in Texts

HintInv ==
    /\ hints \in Seq(Seq(Symbol)) /\ Len(hints) <= Len(patterns)
    /\ \A i \in 1..Len(hints) : Len(hints[i]) >= MinLiteral

\* The layers a plan may use: a filter stands for the hints of all patterns.
LayerInv ==
    /\ start_table = {} \/ (start_table = { StartTable(database) } /\ ~ AnyAssertions)
    /\ literal # {} => /\ literal = { CompileFilter(ToSet(hints)) }
                       /\ Len(hints) = Len(patterns)
                       /\ AllNecessary(database, hints)
    /\ stage = "compile" => literal = {}

\* The starts before another that the filter admits.
AdmittedBefore(filters, text, n) ==
    { s \in 0..(n - 1) : \E filter \in filters : Admits(filter, text, s) }

BitInv ==
    /\ stage \in {"compile", "ready"} => tested = 0 /\ bitmap = {}
    /\ stage \in {"sample", "rest"} =>
         /\ literal # {} /\ tested \in 0..Len(input)
         /\ bitmap = AdmittedBefore(literal, input, tested)

ChoiceInv ==
    stage = "planned" =>
        /\ plan \in {"All", "StartTable", "Candidates"}
        /\ plan = "StartTable" => start_table # {}
        /\ plan = "Candidates" =>
             literal # {} /\ bitmap = AdmittedBefore(literal, input, Len(input))

PlanInv == PartitionInv /\ HintInv /\ LayerInv /\ BitInv /\ ChoiceInv

\* What is assumed of a pattern list and of a text.
LEMMA ListFacts ==
    ASSUME NEW list \in PatternSets
    PROVE  /\ Len(list) \in Nat
           /\ \A i \in 1..Len(list) : HintOf(list[i]) \in Seq(Symbol)
           /\ DatabaseOf(list) \in Database(DatabaseOf(list).state)
           /\ IsFiniteSet(DatabaseOf(list).state)
           /\ DatabaseOf(list).root \in DatabaseOf(list).state
           /\ (\E i \in DOMAIN list : HasAssertions(list[i])) \/ DatabaseOf(list).assertion = {}
           /\ \A s \in DatabaseOf(list).state :
                 DatabaseOf(list).terminals[s] \subseteq 0..(Len(list) - 1)
BY PlanAssumption

LEMMA TextFacts ==
    ASSUME NEW text \in Texts
    PROVE  text \in Seq(Symbol) /\ Len(text) \in Nat
<1>1. text \in Seq(Symbol)
    BY PlanAssumption
<1>2. QED
    BY <1>1, LenProperties

\* The sample lies within the input.
LEMMA SampleFacts ==
    ASSUME Len(input) \in Nat
    PROVE  SampledUnits \in 0..Len(input)
<1> DEFINE S == { Len(input), DensitySample }
<1>1. S \in SUBSET Nat /\ S # {}
    BY PlanAssumption
<1> HIDE DEF S
<1>2. Min(S) \in S /\ \A y \in S : Min(S) <= y
    BY <1>1, MinIsMember
<1>3. SampledUnits = Min(S)
    BY DEF SampledUnits, S
<1>4. QED
    BY <1>1, <1>2, <1>3 DEF S

\* The plan begins in its invariant.
LEMMA BeginsInv == ASSUME PlanInit PROVE PlanInv
<1>1. /\ patterns \in PatternSets /\ database = DatabaseOf(patterns) /\ stage = "compile"
      /\ hints = << >> /\ literal = {} /\ tested = 0 /\ bitmap = {}
      /\ start_table = {} \/ (start_table = { StartTable(database) } /\ ~ AnyAssertions)
    BY DEF PlanInit
<1>2. HintInv
    BY <1>1, ListFacts DEF HintInv
<1>3. PartitionInv /\ LayerInv /\ BitInv /\ ChoiceInv
    BY <1>1 DEF PartitionInv, LayerInv, BitInv, ChoiceInv
<1>4. QED
    BY <1>2, <1>3 DEF PlanInv

\* A step that compiles nothing keeps the layers.
LEMMA LayersKept ==
    ASSUME PlanInv, UNCHANGED partitionVars, UNCHANGED compileVars,
           stage' \in {"ready", "sample", "rest", "planned"},
           stage' \in {"sample", "rest", "planned"} => input' \in Texts
    PROVE  PartitionInv' /\ HintInv' /\ LayerInv'
<1>1. /\ patterns' = patterns /\ database' = database
      /\ hints' = hints /\ literal' = literal /\ start_table' = start_table
    BY DEF partitionVars, compileVars
<1>2. PartitionInv /\ HintInv /\ LayerInv
    BY DEF PlanInv
<1>3. PartitionInv'
    BY <1>1, <1>2 DEF PartitionInv
<1>4. HintInv'
    BY <1>1, <1>2 DEF HintInv
<1>5. LayerInv'
    BY <1>1, <1>2 DEF LayerInv, AnyAssertions
<1>6. QED
    BY <1>3, <1>4, <1>5

\* Collecting a hint keeps the layers as they are.
LEMMA CollectInv == ASSUME PlanInv, CollectHint PROVE PlanInv'
<1>1. /\ stage = "compile" /\ stage' = stage /\ patterns' = patterns /\ database' = database
      /\ literal' = literal /\ start_table' = start_table
      /\ tested' = tested /\ bitmap' = bitmap
      /\ Len(hints) < Len(patterns) /\ Len(NextPrefix) >= MinLiteral
      /\ hints' = Append(hints, NextPrefix)
    BY DEF CollectHint, CollectingHints, partitionVars, bitmapVars
<1>2. PartitionInv /\ HintInv /\ LayerInv /\ BitInv
    BY DEF PlanInv
<1>3. Len(hints) \in Nat /\ Len(patterns) \in Nat /\ hints \in Seq(Seq(Symbol))
    BY <1>2, ListFacts, LenProperties DEF PartitionInv, HintInv
<1>4. NextPrefix \in Seq(Symbol)
    BY <1>1, <1>2, <1>3, ListFacts DEF PartitionInv, NextPrefix
<1>5. HintInv'
    <2> DEFINE h == NextPrefix
    <2>1. h \in Seq(Symbol) /\ Len(h) >= MinLiteral /\ hints' = Append(hints, h)
        BY <1>1, <1>4
    <2> HIDE DEF h
    <2>2. /\ hints' \in Seq(Seq(Symbol)) /\ Len(hints') = Len(hints) + 1
          /\ \A i \in 1..(Len(hints) + 1) : hints'[i] = IF i = Len(hints) + 1 THEN h ELSE hints[i]
        BY <1>3, <2>1
    <2>3. ASSUME NEW i \in 1..(Len(hints) + 1) PROVE Len(hints'[i]) >= MinLiteral
        <3>1. CASE i = Len(hints) + 1
            BY <2>1, <2>2, <3>1
        <3>2. CASE i # Len(hints) + 1
            <4>1. i \in 1..Len(hints) /\ hints'[i] = hints[i]
                BY <1>3, <2>2, <3>2
            <4>2. QED
                BY <1>2, <4>1 DEF HintInv
        <3>3. QED
            BY <3>1, <3>2
    <2>4. Len(hints') <= Len(patterns)
        BY <1>1, <1>3, <2>2
    <2>5. QED
        BY <1>1, <2>2, <2>3, <2>4 DEF HintInv
<1>6. PartitionInv' /\ LayerInv' /\ BitInv' /\ ChoiceInv'
    BY <1>1, <1>2 DEF PartitionInv, LayerInv, BitInv, ChoiceInv, AnyAssertions
<1>7. QED
    BY <1>5, <1>6 DEF PlanInv

\* The filter is built from hints that are necessary.
LEMMA CompileLiteralInv ==
    ASSUME PlanInv, HintsAreNecessary, CompileLiteral
    PROVE  PlanInv'
<1>1. /\ stage = "compile" /\ stage' = "ready" /\ patterns' = patterns /\ database' = database
      /\ literal' = { CompileFilter(ToSet(hints)) } /\ start_table' = start_table
      /\ tested' = tested /\ bitmap' = bitmap /\ hints' = hints
      /\ Len(hints) = Len(patterns)
    BY DEF CompileLiteral, CollectingHints, partitionVars, bitmapVars
<1>2. PartitionInv /\ HintInv /\ LayerInv /\ BitInv
    BY DEF PlanInv
<1>3. AllNecessary(database, hints)
    BY <1>1 DEF HintsAreNecessary, AllNecessary
<1>4. LayerInv'
    BY <1>1, <1>2, <1>3 DEF LayerInv, AnyAssertions
<1>5. PartitionInv' /\ HintInv' /\ BitInv' /\ ChoiceInv'
    BY <1>1, <1>2 DEF PartitionInv, HintInv, BitInv, ChoiceInv
<1>6. QED
    BY <1>4, <1>5 DEF PlanInv

\* A set that goes without a filter.
LEMMA NoFilterInv ==
    ASSUME PlanInv, CompileWithoutLiteral \/ Unfilterable
    PROVE  PlanInv'
<1>1. /\ stage = "compile" /\ stage' = "ready" /\ UNCHANGED <<partitionVars, compileVars>>
      /\ tested' = tested /\ bitmap' = bitmap
    BY DEF CompileWithoutLiteral, Unfilterable, CollectingHints, bitmapVars
<1>2. PartitionInv' /\ HintInv' /\ LayerInv'
    BY <1>1, LayersKept
<1>3. BitInv' /\ ChoiceInv'
    BY <1>1 DEF PlanInv, BitInv, ChoiceInv
<1>4. QED
    BY <1>2, <1>3 DEF PlanInv

\* A plan without the filter.
LEMMA NoBitmapInv ==
    ASSUME PlanInv, NEW text \in Texts,
           \/ PlanDisabled(text)
           \/ \E literal_enabled \in BOOLEAN : PlanWithoutLiteral(text, literal_enabled)
    PROVE  PlanInv'
<1>1. /\ stage' = "planned" /\ UNCHANGED <<partitionVars, compileVars>> /\ input' = text
      /\ plan' = "All" \/ (plan' = "StartTable" /\ start_table # {})
      /\ start_table' = start_table
    BY DEF PlanDisabled, PlanWithoutLiteral, StartOrAll, compileVars
<1>2. PartitionInv' /\ HintInv' /\ LayerInv'
    BY <1>1, LayersKept
<1>3. BitInv' /\ ChoiceInv'
    BY <1>1 DEF BitInv, ChoiceInv
<1>4. QED
    BY <1>2, <1>3 DEF PlanInv

\* The sample begins with an empty bitmap.
LEMMA BeginSampleInv ==
    ASSUME PlanInv, NEW text \in Texts, BeginSample(text)
    PROVE  PlanInv'
<1>1. /\ stage = "ready" /\ stage' = "sample" /\ UNCHANGED <<partitionVars, compileVars>>
      /\ input' = text /\ literal # {} /\ literal' = literal
      /\ tested' = tested /\ bitmap' = bitmap
    BY DEF BeginSample, compileVars, bitmapVars
<1>2. PartitionInv' /\ HintInv' /\ LayerInv'
    BY <1>1, LayersKept
<1>3. Len(input') \in Nat
    BY <1>1, TextFacts
<1>4. tested' = 0 /\ bitmap' = {}
    BY <1>1 DEF PlanInv, BitInv
<1>5. AdmittedBefore(literal', input', tested') = {}
    BY <1>4 DEF AdmittedBefore
<1>6. BitInv' /\ ChoiceInv'
    BY <1>1, <1>3, <1>4, <1>5 DEF BitInv, ChoiceInv
<1>7. QED
    BY <1>2, <1>6 DEF PlanInv

\* One start more is tested.
LEMMA ScanStartInv == ASSUME PlanInv, ScanStart PROVE PlanInv'
<1>1. /\ stage \in {"sample", "rest"} /\ stage' = stage
      /\ UNCHANGED <<partitionVars, compileVars>>
      /\ input' = input /\ literal' = literal /\ tested' = tested + 1
      /\ bitmap' = IF \E filter \in literal : Admits(filter, input, tested)
                   THEN bitmap \cup { tested } ELSE bitmap
      /\ tested < IF stage = "sample" THEN SampledUnits ELSE Len(input)
    BY DEF ScanStart, Insert, compileVars
<1>2. PartitionInv /\ BitInv
    BY DEF PlanInv
<1>3. input \in Texts
    BY <1>1, <1>2 DEF PartitionInv
<1>4. PartitionInv' /\ HintInv' /\ LayerInv'
    BY <1>1, <1>3, LayersKept
<1>5. literal # {} /\ tested \in 0..Len(input) /\ Len(input) \in Nat
      /\ bitmap = AdmittedBefore(literal, input, tested)
    BY <1>1, <1>2, <1>3, TextFacts DEF BitInv
<1>6. tested < Len(input)
    BY <1>1, <1>5, SampleFacts
<1>7. bitmap' = AdmittedBefore(literal, input, tested + 1)
    <2>1. \A t : t \in 0..((tested + 1) - 1) <=> t \in 0..(tested - 1) \/ t = tested
        BY <1>5
    <2>2. QED
        BY <1>1, <1>5, <2>1 DEF AdmittedBefore
<1>8. BitInv' /\ ChoiceInv'
    <2>1. tested' = tested + 1 /\ input' = input /\ literal' = literal
        BY <1>1
    <2>2. tested' \in 0..Len(input')
        BY <1>5, <1>6, <2>1
    <2>3. bitmap' = AdmittedBefore(literal', input', tested')
        BY <1>7, <2>1, Zenon
    <2>4. QED
        BY <1>1, <1>5, <2>2, <2>3 DEF BitInv, ChoiceInv
<1>9. QED
    BY <1>4, <1>8 DEF PlanInv

\* The sample ends: its bitmap is dropped or copied.
LEMMA SampleEndInv ==
    ASSUME PlanInv, PlanDense \/ KeepSample
    PROVE  PlanInv'
<1>1. /\ stage = "sample" /\ stage' \in {"planned", "rest"}
      /\ UNCHANGED <<partitionVars, compileVars>>
      /\ input' = input /\ literal' = literal /\ tested' = tested /\ start_table' = start_table
      /\ stage' = "planned" => plan' = "All" \/ (plan' = "StartTable" /\ start_table # {})
      /\ stage' = "rest" => bitmap' = bitmap
    BY DEF PlanDense, KeepSample, StartOrAll, compileVars, bitmapVars
<1>2. PartitionInv /\ BitInv
    BY DEF PlanInv
<1>3. input \in Texts
    BY <1>1, <1>2 DEF PartitionInv
<1>4. PartitionInv' /\ HintInv' /\ LayerInv'
    BY <1>1, <1>3, LayersKept
<1>5. BitInv' /\ ChoiceInv'
    BY <1>1, <1>2 DEF BitInv, ChoiceInv
<1>6. QED
    BY <1>4, <1>5 DEF PlanInv

\* The bitmap is complete when it is handed out.
LEMMA CandidatesInv == ASSUME PlanInv, PlanCandidates PROVE PlanInv'
<1>1. /\ stage = "rest" /\ stage' = "planned" /\ plan' = "Candidates"
      /\ UNCHANGED <<partitionVars, compileVars>>
      /\ input' = input /\ literal' = literal /\ tested = Len(input) /\ bitmap' = bitmap
    BY DEF PlanCandidates, compileVars, bitmapVars
<1>2. PartitionInv /\ BitInv
    BY DEF PlanInv
<1>3. input \in Texts
    BY <1>1, <1>2 DEF PartitionInv
<1>4. PartitionInv' /\ HintInv' /\ LayerInv'
    BY <1>1, <1>3, LayersKept
<1>5. BitInv' /\ ChoiceInv'
    BY <1>1, <1>2 DEF BitInv, ChoiceInv
<1>6. QED
    BY <1>4, <1>5 DEF PlanInv

LEMMA PlanStutterInv == ASSUME PlanInv, UNCHANGED planVars PROVE PlanInv'
BY DEF PlanInv, PartitionInv, HintInv, LayerInv, AnyAssertions, BitInv, ChoiceInv, planVars,
       partitionVars, compileVars, bitmapVars

LEMMA PlanStepInv == PlanInv /\ HintsAreNecessary /\ [PlanStep]_planVars => PlanInv'
<1> SUFFICES ASSUME PlanInv, HintsAreNecessary, [PlanStep]_planVars PROVE PlanInv'
    OBVIOUS
<1>1. CASE CompileWithoutLiteral \/ Unfilterable
    BY <1>1, NoFilterInv
<1>2. CASE CollectHint
    BY <1>2, CollectInv
<1>3. CASE CompileLiteral
    BY <1>3, CompileLiteralInv
<1>4. ASSUME NEW text \in Texts,
             \/ PlanDisabled(text)
             \/ \E literal_enabled \in BOOLEAN : PlanWithoutLiteral(text, literal_enabled)
      PROVE  PlanInv'
    BY <1>4, NoBitmapInv
<1>5. ASSUME NEW text \in Texts, BeginSample(text) PROVE PlanInv'
    BY <1>5, BeginSampleInv
<1>6. CASE ScanStart
    BY <1>6, ScanStartInv
<1>7. CASE PlanDense \/ KeepSample
    BY <1>7, SampleEndInv
<1>8. CASE PlanCandidates
    BY <1>8, CandidatesInv
<1>9. CASE UNCHANGED planVars
    BY <1>9, PlanStutterInv
<1>10. QED
    BY <1>1, <1>2, <1>3, <1>4, <1>5, <1>6, <1>7, <1>8, <1>9 DEF PlanStep

\* Matches belong to patterns of the list.
LEMMA MatchedPatterns ==
    ASSUME NEW list \in PatternSets, NEW text, NEW s,
           NEW match \in MatchesFrom(DatabaseOf(list), text, s)
    PROVE  match[2] \in 0..(Len(list) - 1)
<1> DEFINE db == DatabaseOf(list)
<1>1. PICK c \in Configurations(db, text) : match[2] \in db.terminals[c[2]]
    BY MatchReached DEF MatchesFrom
<1>2. c[2] \in db.state
    BY DEF Configurations
<1>3. \A q \in db.state : db.terminals[q] \subseteq 0..(Len(list) - 1)
    BY ListFacts
<1> HIDE DEF db
<1>4. QED
    BY <1>1, <1>2, <1>3

\* A filter built from necessary hints excludes only starts without a match.
THEOREM FilterExcludesNoMatch ==
    ASSUME NEW list \in PatternSets, NEW text \in Texts, NEW s \in 0..(Len(text) - 1),
           NEW literals \in Seq(Seq(Symbol)), Len(literals) = Len(list),
           \A i \in 1..Len(literals) : Len(literals[i]) >= MinLiteral,
           AllNecessary(DatabaseOf(list), literals),
           ~ Admits(CompileFilter(ToSet(literals)), text, s)
    PROVE  MatchesFrom(DatabaseOf(list), text, s) = {}
<1> SUFFICES ASSUME NEW match \in MatchesFrom(DatabaseOf(list), text, s) PROVE FALSE
    OBVIOUS
<1> DEFINE o == match[2]
<1>1. Len(list) \in Nat /\ text \in Seq(Symbol) /\ Len(text) \in Nat /\ s \in Nat
    BY ListFacts, TextFacts
<1>2. o \in 0..(Len(list) - 1)
    BY MatchedPatterns
<1> DEFINE i == o + 1
           h == literals[i]
<1>3. i \in 1..Len(literals) /\ o < Len(literals) /\ DOMAIN literals = 1..Len(literals)
    BY <1>1, <1>2
<1>4. h \in Seq(Symbol) /\ Len(h) \in Nat /\ Len(h) >= MinLiteral
    BY <1>3, ElementOfSeq, LenProperties
<1>5. ToSet(literals) \in SUBSET Seq(Symbol) /\ h \in ToSet(literals)
    BY <1>3, ElementOfSeq DEF ToSet
<1> HIDE DEF i
<1>6. BeginsWith(text, s, h)
    BY <1>3 DEF AllNecessary, i
<1> HIDE DEF h
<1>7. s + Len(h) <= Len(text) /\ \A k \in 1..Len(h) : text[s + k] = h[k]
    BY <1>6 DEF BeginsWith
<1>8. Admits(CompileFilter(ToSet(literals)), text, s)
    BY <1>1, <1>4, <1>5, <1>7, FilterAdmitsHint
<1>9. QED
    BY <1>8

\* In the invariant a plan excludes only starts without a match.
LEMMA PlanInvSkipsNoMatch == PlanInv => NoMatchSkipped
<1> SUFFICES ASSUME PlanInv, stage = "planned", NEW s \in 0..(Len(input) - 1), s \notin ScanStarts
             PROVE  MatchesFrom(database, input, s) = {}
    BY DEF NoMatchSkipped
<1>1. /\ patterns \in PatternSets /\ database = DatabaseOf(patterns) /\ input \in Texts
    BY DEF PlanInv, PartitionInv
<1>2. /\ database \in Database(database.state) /\ IsFiniteSet(database.state)
      /\ Len(input) \in Nat
    BY <1>1, ListFacts, TextFacts
<1>3. /\ plan # "All"
      /\ plan = "StartTable" => \A t \in start_table : ~ TableAllows(t, input, s)
      /\ plan = "Candidates" => s \notin bitmap
    BY DEF ScanStarts
<1>4. CASE plan = "StartTable"
    <2>1. start_table = { StartTable(database) } /\ ~ AnyAssertions
        BY <1>4 DEF PlanInv, ChoiceInv, LayerInv
    <2>2. ~ TableAllows(StartTable(database), input, s)
        BY <1>3, <1>4, <2>1
    <2>3. database.assertion = {} /\ database.root \in database.state
        BY <1>1, <2>1, ListFacts DEF AnyAssertions
    <2>4. QED
        BY <1>2, <2>2, <2>3, TableExcludesNoMatch
<1>5. CASE plan = "Candidates"
    <2>1. literal # {} /\ bitmap = AdmittedBefore(literal, input, Len(input))
        BY <1>5 DEF PlanInv, ChoiceInv
    <2>2. /\ literal = { CompileFilter(ToSet(hints)) }
          /\ Len(hints) = Len(patterns) /\ AllNecessary(database, hints)
        BY <2>1 DEF PlanInv, LayerInv
    <2>3. ~ Admits(CompileFilter(ToSet(hints)), input, s)
        BY <1>3, <1>5, <2>1, <2>2 DEF AdmittedBefore
    <2>4. hints \in Seq(Seq(Symbol)) /\ \A i \in 1..Len(hints) : Len(hints[i]) >= MinLiteral
        BY DEF PlanInv, HintInv
    <2>5. QED
        BY <1>1, <2>2, <2>3, <2>4, FilterExcludesNoMatch
<1>6. plan \in {"All", "StartTable", "Candidates"}
    BY DEF PlanInv, ChoiceInv
<1>7. QED
    BY <1>3, <1>4, <1>5, <1>6

\* If the hints are necessary, no plan skips a start with a match, whatever its layer.
THEOREM PrivatePlanSkipsNoMatch == PlanSpec /\ []HintsAreNecessary => []NoMatchSkipped
<1>1. PlanInit => PlanInv
    BY BeginsInv
<1>2. PlanInv /\ HintsAreNecessary /\ [PlanStep]_planVars => PlanInv'
    BY PlanStepInv
<1>3. PlanInv => NoMatchSkipped
    BY PlanInvSkipsNoMatch
<1>4. QED
    BY <1>1, <1>2, <1>3, PTL DEF PlanSpec

\* The events an input owes from some of its starts.
EventsFrom(starts) == UNION { MatchesFrom(database, input, s) : s \in starts }

\* So a scan of the starts a plan keeps owes the events of all starts.
THEOREM PrivatePlanKeepsEvents ==
    PlanSpec /\ []HintsAreNecessary =>
        [](stage = "planned" => EventsFrom(ScanStarts) = EventsFrom(0..(Len(input) - 1)))
<1>1. ASSUME NoMatchSkipped, stage = "planned"
      PROVE  EventsFrom(ScanStarts) = EventsFrom(0..(Len(input) - 1))
    <2>1. ScanStarts \subseteq 0..(Len(input) - 1)
        BY DEF ScanStarts
    <2>2. \A s \in 0..(Len(input) - 1) : s \in ScanStarts \/ MatchesFrom(database, input, s) = {}
        BY <1>1 DEF NoMatchSkipped
    <2>3. QED
        BY <2>1, <2>2 DEF EventsFrom
<1>2. NoMatchSkipped => (stage = "planned" => EventsFrom(ScanStarts) = EventsFrom(0..(Len(input) - 1)))
    BY <1>1
<1>3. QED
    BY <1>2, PrivatePlanSkipsNoMatch, PTL
=============================================================================
