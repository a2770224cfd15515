------------------------------- MODULE ScanProof --------------------------------
(***************************************************************************)
(* For every database, input and set of starts: the exact scan delivers     *)
(* what the match-event rule asks for.  The states live after each unit are *)
(* those the rule's configurations have at that position, so the greatest   *)
(* recorded end of an ordinal is its longest match.                         *)
(***************************************************************************)
EXTENDS Scan, InductionLemmas, FiniteSetTheorems

-----------------------------------------------------------------------------
(* What a closure comes to. *)

\* A closure from nothing marked is the least closed set around its seeds.
LEMMA ClosureIsHull ==
    ASSUME NEW states, IsFiniteSet(states), NEW edges \in SUBSET (states \X states),
           NEW seeds \in SUBSET states
    PROVE  ExtendClosure(states, edges, seeds, {}) = Hull(states, edges, seeds)
<1> DEFINE grow[reached \in SUBSET states] ==
             LET more == { e[2] : e \in { f \in edges : /\ f[1] \in reached
                                                        /\ f[2] \notin reached
                                                        /\ f[2] \notin {} } }
             IN  IF more = {} THEN reached ELSE grow[reached \cup more]
           Raw(f) == [reached \in SUBSET states |->
             LET more == { e[2] : e \in { x \in edges : /\ x[1] \in reached
                                                        /\ x[2] \notin reached
                                                        /\ x[2] \notin {} } }
             IN  IF more = {} THEN reached ELSE f[reached \cup more]]
           Step(f) == [R \in SUBSET states |->
                         IF More(edges, R) = {} THEN R ELSE f[R \cup More(edges, R)]]
<1>1. ExtendClosure(states, edges, seeds, {}) = states \cap grow[seeds]
    BY Zenon DEF ExtendClosure
<1>2. grow = CHOOSE f : f = Step(f)
    <2>1. grow = CHOOSE f : f = Raw(f)
        BY Zenon
    <2>2. ASSUME NEW f PROVE Raw(f) = Step(f)
        <3>1. ASSUME NEW R
              PROVE  { e[2] : e \in { x \in edges : /\ x[1] \in R
                                                    /\ x[2] \notin R
                                                    /\ x[2] \notin {} } } = More(edges, R)
            BY DEF More
        <3>2. QED
            BY <3>1, Zenon
    <2> HIDE DEF grow, Raw, Step
    <2>3. QED
        BY <2>1, <2>2, Zenon
<1> HIDE DEF grow, Step
<1>3. grow[seeds] = Hull(states, edges, seeds)
    BY <1>2, GrownIsHull DEF Step
<1>4. QED
    BY <1>1, <1>3 DEF Hull

-----------------------------------------------------------------------------
(* The closures of a scan. *)

Input == job.input
States == job.db.state

\* The edges a scan's closure follows at a position.
Edges(p, c) ==
    IF job.uses_assertions THEN FollowsWithoutConsuming(job.db, job.input, p, c)
    ELSE job.db.epsilon

LEMMA JobFacts ==
    ASSUME job \in Jobs
    PROVE  /\ IsFiniteSet(States) /\ job.root \in States
           /\ job.db.epsilon \in SUBSET (States \X States)
           /\ job.db.assertion \in SUBSET (States \X Assertion \X States)
           /\ job.db.consuming \in SUBSET (States \X (SUBSET Symbol) \X States)
           /\ job.db.terminals \in [States -> SUBSET Ordinal]
           /\ Input \in Seq(Symbol) /\ Len(Input) \in Nat
           /\ job.starts \subseteq 0..(Len(Input) - 1)
           /\ job.uses_assertions \/ NoneAsserted(job.db, job.root)
<1>1. JobShape(job)
    BY JobsAssumption
<1>2. Len(Input) \in Nat
    BY <1>1, LenProperties DEF JobShape, Input
<1>3. QED
    BY <1>1, <1>2 DEF JobShape, Database, Input, States

LEMMA EdgesType ==
    ASSUME job \in Jobs, NEW p, NEW c
    PROVE  /\ Edges(p, c) \in SUBSET (States \X States)
           /\ FollowsWithoutConsuming(job.db, job.input, p, c) \in SUBSET (States \X States)
BY JobFacts DEF Edges, FollowsWithoutConsuming

LEMMA ClosureOf ==
    ASSUME job \in Jobs, NEW p, NEW c, NEW seeds \in SUBSET States
    PROVE  Closure(seeds, p, c) = Hull(States, Edges(p, c), seeds)
<1>1. ExtendClosure(States, Edges(p, c), seeds, {}) = Hull(States, Edges(p, c), seeds)
    BY JobFacts, EdgesType, ClosureIsHull
<1>2. Closure(seeds, p, c) = ExtendClosure(States, Edges(p, c), seeds, {})
    BY DEF Closure, Edges, ExtendEpsilonClosure, ExtendAssertionClosure, States
<1>3. QED
    BY <1>1, <1>2

\* The states a scan may be in: all, or those no assertion leads out of.
Clean == IF job.uses_assertions THEN States ELSE Hull(States, PlainEdges(job.db), { job.root })

\* Out of these states the scan follows what the assertions allow.
LEMMA CleanFacts ==
    ASSUME job \in Jobs
    PROVE  /\ Clean \in SUBSET States /\ job.root \in Clean
           /\ \A p, c : Closed(Edges(p, c), Clean)
           /\ \A e \in job.db.consuming : e[1] \in Clean => e[3] \in Clean
           /\ \A p, c : \A e \in FollowsWithoutConsuming(job.db, job.input, p, c) :
                 e[1] \in Clean => e \in Edges(p, c)
<1>1. CASE job.uses_assertions
    <2>1. Clean = States
        BY <1>1 DEF Clean
    <2>2. \A p, c : Edges(p, c) = FollowsWithoutConsuming(job.db, job.input, p, c)
        BY <1>1 DEF Edges
    <2>3. QED
        BY <2>1, <2>2, JobFacts, EdgesType DEF Closed
<1>2. CASE ~ job.uses_assertions
    <2>1. PlainEdges(job.db) \in SUBSET (States \X States)
        BY JobFacts DEF PlainEdges
    <2>2. { job.root } \in SUBSET States
        BY JobFacts
    <2>3. Clean = Hull(States, PlainEdges(job.db), { job.root })
        BY <1>2 DEF Clean
    <2>4. Clean = ExtendClosure(job.db.state, PlainEdges(job.db), { job.root }, {})
        BY <2>1, <2>2, <2>3, JobFacts, ClosureIsHull DEF States
    <2>5. \A e \in job.db.assertion : e[1] \notin Clean
        BY <1>2, <2>4, JobFacts DEF NoneAsserted
    <2>6. Clean \in SUBSET States /\ job.root \in Clean
        BY <2>2, <2>3, HullFacts
    <2>7. \A e \in PlainEdges(job.db) : e[1] \in Clean => e[2] \in Clean
        BY <2>1, <2>2, <2>3, HullFacts
    <2>8. ASSUME NEW e \in job.db.consuming, e[1] \in Clean PROVE e[3] \in Clean
        <3>1. <<e[1], e[3]>> \in PlainEdges(job.db)
            BY DEF PlainEdges
        <3>2. <<e[1], e[3]>>[1] = e[1] /\ <<e[1], e[3]>>[2] = e[3]
            OBVIOUS
        <3>3. QED
            BY <2>7, <2>8, <3>1, <3>2
    <2>9. \A p, c : Edges(p, c) = job.db.epsilon
        BY <1>2 DEF Edges
    <2>10. \A p, c : Closed(Edges(p, c), Clean)
        BY <2>7, <2>9 DEF Closed, PlainEdges
    <2>11. ASSUME NEW p, NEW c, NEW e \in FollowsWithoutConsuming(job.db, job.input, p, c),
                  e[1] \in Clean
           PROVE  e \in Edges(p, c)
        BY <2>5, <2>9, <2>11 DEF FollowsWithoutConsuming
    <2>12. QED
        BY <2>6, <2>8, <2>10, <2>11
<1>3. QED
    BY <1>1, <1>2

-----------------------------------------------------------------------------
(* The live states of one start, unit by unit. *)

Units(s) == Len(Input) - s

\* One more unit consumed.
Advance(s) ==
    [x \in (1..Units(s)) \X SUBSET States |->
        Closure(ConsumingTargets(job.db, x[2], Input[s + x[1]]), s + x[1], TRUE)]

Runs(s) == Along(SUBSET States, Units(s), Closure({ job.root }, s, FALSE), Advance(s))
Lives(s) == CHOOSE f : f \in Runs(s)

LEMMA ClosureType ==
    ASSUME job \in Jobs, NEW seeds, NEW p, NEW c
    PROVE  Closure(seeds, p, c) \in SUBSET States
<1>1. \A edges : ExtendClosure(job.db.state, edges, seeds, {}) \subseteq job.db.state
    BY DEF ExtendClosure
<1>2. QED
    BY <1>1 DEF Closure, ExtendEpsilonClosure, ExtendAssertionClosure, States

LEMMA LivesFacts ==
    ASSUME job \in Jobs, NEW s \in job.starts
    PROVE  /\ s \in Nat /\ Units(s) \in Nat \ {0}
           /\ Lives(s) \in [0..Units(s) -> SUBSET States]
           /\ Lives(s)[0] = Closure({ job.root }, s, FALSE)
           /\ \A i \in 1..Units(s) :
                 Lives(s)[i] = Closure(ConsumingTargets(job.db, Lives(s)[i - 1], Input[s + i]),
                                       s + i, TRUE)
<1>1. s \in Nat /\ Units(s) \in Nat \ {0}
    BY JobFacts DEF Units
<1>2. Advance(s) \in [(1..Units(s)) \X SUBSET States -> SUBSET States]
    BY ClosureType DEF Advance
<1>3. Runs(s) # {}
    BY <1>1, <1>2, ClosureType, Recursion DEF Runs
<1>4. Lives(s) \in Runs(s)
    BY <1>3 DEF Lives
<1> DEFINE n == Units(s)
           f == Lives(s)
<1>5. /\ f \in [0..n -> SUBSET States]
      /\ f[0] = Closure({ job.root }, s, FALSE)
      /\ \A i \in 1..n : f[i] = Advance(s)[<<i, f[i - 1]>>]
    BY <1>4 DEF Runs, Along
<1>6. ASSUME NEW i \in 1..n
      PROVE  f[i] = Closure(ConsumingTargets(job.db, f[i - 1], Input[s + i]), s + i, TRUE)
    <2>1. i - 1 \in 0..n
        BY <1>1
    <2>2. <<i, f[i - 1]>> \in (1..n) \X SUBSET States
        BY <1>5, <2>1
    <2>3. Advance(s)[<<i, f[i - 1]>>]
          = Closure(ConsumingTargets(job.db, f[i - 1], Input[s + i]), s + i, TRUE)
        BY <2>2 DEF Advance
    <2>4. QED
        BY <1>5, <2>3
<1>7. QED
    BY <1>1, <1>5, <1>6

\* Consuming a unit leads from states of the database to states of it.
LEMMA TargetsType ==
    ASSUME job \in Jobs, NEW S, NEW a
    PROVE  /\ ConsumingTargets(job.db, S, a) \in SUBSET States
           /\ S \subseteq Clean => ConsumingTargets(job.db, S, a) \subseteq Clean
BY JobFacts, CleanFacts DEF ConsumingTargets

\* Each set of live states is the closure of what it began with.
LEMMA LivesClosed ==
    ASSUME job \in Jobs, NEW s \in job.starts, NEW k \in 0..Units(s)
    PROVE  /\ Lives(s)[k] \in SUBSET States
           /\ \A e \in Edges(s + k, k > 0) : e[1] \in Lives(s)[k] => e[2] \in Lives(s)[k]
           /\ k = 0 => job.root \in Lives(s)[k]
           /\ k > 0 => ConsumingTargets(job.db, Lives(s)[k - 1], Input[s + k]) \subseteq Lives(s)[k]
<1>1. Lives(s)[k] \in SUBSET States
    BY LivesFacts
<1>2. CASE k = 0
    <2>1. Lives(s)[k] = Hull(States, Edges(s + k, k > 0), { job.root })
        <3>1. s \in Nat /\ Lives(s)[0] = Closure({ job.root }, s, FALSE)
            BY LivesFacts
        <3>2. s + k = s /\ (k > 0) = FALSE
            BY <1>2, <3>1
        <3>3. Closure({ job.root }, s, FALSE) = Hull(States, Edges(s, FALSE), { job.root })
            BY JobFacts, ClosureOf
        <3>4. QED
            BY <1>2, <3>1, <3>2, <3>3
    <2>2. { job.root } \in SUBSET States
        BY JobFacts
    <2>3. QED
        BY <1>1, <1>2, <2>1, <2>2, HullFacts, EdgesType
<1>3. CASE k > 0
    <2> DEFINE seeds == ConsumingTargets(job.db, Lives(s)[k - 1], Input[s + k])
    <2>1. seeds \in SUBSET States
        BY TargetsType
    <2>2. Lives(s)[k] = Hull(States, Edges(s + k, k > 0), seeds)
        <3>1. k \in 1..Units(s) /\ (k > 0) = TRUE
            BY <1>3, LivesFacts
        <3>2. Lives(s)[k] = Closure(seeds, s + k, TRUE)
            BY <3>1, LivesFacts
        <3>3. Closure(seeds, s + k, TRUE) = Hull(States, Edges(s + k, TRUE), seeds)
            BY <2>1, ClosureOf
        <3>4. QED
            BY <3>1, <3>2, <3>3
    <2>3. QED
        BY <1>1, <1>3, <2>1, <2>2, HullFacts, EdgesType
<1>4. QED
    BY <1>2, <1>3, LivesFacts

\* None of them is led to an assertion the scan does not look at.
LEMMA LivesClean ==
    ASSUME job \in Jobs, NEW s \in job.starts
    PROVE  \A k \in 0..Units(s) : Lives(s)[k] \subseteq Clean
<1> DEFINE Good == { k \in 0..Units(s) : Lives(s)[k] \subseteq Clean }
<1>1. s \in Nat /\ Units(s) \in Nat /\ Clean \in SUBSET States /\ \A p, c : Closed(Edges(p, c), Clean)
    BY LivesFacts, CleanFacts
<1>2. 0 \in Good
    <2>1. { job.root } \in SUBSET States /\ { job.root } \subseteq Clean
        BY JobFacts, CleanFacts
    <2>2. Lives(s)[0] = Hull(States, Edges(s, FALSE), { job.root })
        BY <2>1, LivesFacts, ClosureOf
    <2>3. Lives(s)[0] \subseteq Clean
        <3>1. Closed(Edges(s, FALSE), Clean)
            BY <1>1
        <3>2. Hull(States, Edges(s, FALSE), { job.root }) \subseteq Clean
            BY <1>1, <2>1, <3>1, HullWithin
        <3>3. QED
            BY <2>2, <3>2
    <2>4. QED
        BY <1>1, <2>3
<1>3. ASSUME NEW k \in 1..Units(s), k - 1 \in Good PROVE k \in Good
    <2> DEFINE seeds == ConsumingTargets(job.db, Lives(s)[k - 1], Input[s + k])
    <2>1. Lives(s)[k - 1] \subseteq Clean
        BY <1>3
    <2>2. seeds \in SUBSET States /\ seeds \subseteq Clean
        BY <2>1, TargetsType
    <2>3. Lives(s)[k] = Hull(States, Edges(s + k, TRUE), seeds)
        <3>1. Lives(s)[k] = Closure(seeds, s + k, TRUE)
            BY LivesFacts
        <3>2. QED
            BY <2>2, <3>1, ClosureOf
    <2> HIDE DEF seeds
    <2>4. Lives(s)[k] \subseteq Clean
        <3>1. Closed(Edges(s + k, TRUE), Clean)
            BY <1>1
        <3>2. Hull(States, Edges(s + k, TRUE), seeds) \subseteq Clean
            BY <1>1, <2>2, <3>1, HullWithin
        <3>3. QED
            BY <2>3, <3>2
    <2>5. k \in 0..Units(s)
        BY <1>1
    <2>6. QED
        BY <2>4, <2>5
<1>4. 0..Units(s) \subseteq Good
    <2> HIDE DEF Good
    <2>1. QED
        BY <1>1, <1>2, <1>3, Induction
<1>5. QED
    BY <1>4

-----------------------------------------------------------------------------
(* The configurations of the match-event rule. *)

Grid == (0..Len(Input)) \X States \X BOOLEAN
Steps == ConfigurationStep(job.db, job.input)
Reached(s) == ReachableConfigurations(job.db, job.root, job.input, s)

\* The three kinds of steps.
LEMMA StepsAre ==
    ASSUME NEW x
    PROVE  x \in Steps <=>
           \/ \E p \in 0..Len(Input), e \in job.db.epsilon, c \in BOOLEAN :
                 x = <<<<p, e[1], c>>, <<p, e[2], c>>>>
           \/ \E p \in 0..Len(Input), c \in BOOLEAN, e \in job.db.assertion :
                 AssertionMatches(e[2], Input, p, c) /\ x = <<<<p, e[1], c>>, <<p, e[3], c>>>>
           \/ \E p \in 0..(Len(Input) - 1), c \in BOOLEAN, e \in job.db.consuming :
                 Input[p + 1] \in e[2] /\ x = <<<<p, e[1], c>>, <<p + 1, e[3], TRUE>>>>
<1> DEFINE A == { <<<<p, e[1], c>>, <<p, e[2], c>>>> :
                    p \in 0..Len(job.input), e \in job.db.epsilon, c \in BOOLEAN }
           BofS(p, c) == { <<<<p, e[1], c>>, <<p, e[3], c>>>> :
                    e \in { a \in job.db.assertion : AssertionMatches(a[2], job.input, p, c) } }
           B == UNION { BofS(p, c) : p \in 0..Len(job.input), c \in BOOLEAN }
           CofS(p, c) == { <<<<p, e[1], c>>, <<p + 1, e[3], TRUE>>>> :
                    e \in { f \in job.db.consuming : job.input[p + 1] \in f[2] } }
           C == UNION { CofS(p, c) : p \in 0..(Len(job.input) - 1), c \in BOOLEAN }
<1>1. Steps = A \cup B \cup C
    BY DEF Steps, ConfigurationStep
<1>2. x \in A <=> \E p \in 0..Len(Input), e \in job.db.epsilon, c \in BOOLEAN :
                      x = <<<<p, e[1], c>>, <<p, e[2], c>>>>
    BY DEF Input
<1>3. x \in B <=> \E p \in 0..Len(Input), c \in BOOLEAN, e \in job.db.assertion :
             AssertionMatches(e[2], Input, p, c) /\ x = <<<<p, e[1], c>>, <<p, e[3], c>>>>
    <2>1. x \in B <=> \E p \in 0..Len(Input), c \in BOOLEAN : x \in BofS(p, c)
        <3> HIDE DEF BofS
        <3>1. QED
            BY DEF Input
    <2>2. \A p, c : x \in BofS(p, c) <=>
             \E e \in job.db.assertion :
                AssertionMatches(e[2], Input, p, c) /\ x = <<<<p, e[1], c>>, <<p, e[3], c>>>>
        BY DEF Input
    <2> HIDE DEF B, BofS
    <2>3. QED
        BY <2>1, <2>2
<1>4. x \in C <=> \E p \in 0..(Len(Input) - 1), c \in BOOLEAN, e \in job.db.consuming :
             Input[p + 1] \in e[2] /\ x = <<<<p, e[1], c>>, <<p + 1, e[3], TRUE>>>>
    <2>1. x \in C <=> \E p \in 0..(Len(Input) - 1), c \in BOOLEAN : x \in CofS(p, c)
        <3> HIDE DEF CofS
        <3>1. QED
            BY DEF Input
    <2>2. \A p, c : x \in CofS(p, c) <=>
             \E e \in job.db.consuming :
                Input[p + 1] \in e[2] /\ x = <<<<p, e[1], c>>, <<p + 1, e[3], TRUE>>>>
        BY DEF Input
    <2> HIDE DEF C, CofS
    <2>3. QED
        BY <2>1, <2>2
<1> HIDE DEF A, B, C
<1>5. QED
    BY <1>1, <1>2, <1>3, <1>4

\* A step without a unit, and one with it.
LEMMA StepsFacts ==
    ASSUME job \in Jobs
    PROVE  /\ \A p \in 0..Len(Input), c \in BOOLEAN, a, b \in States :
                 <<a, b>> \in Edges(p, c) => <<<<p, a, c>>, <<p, b, c>>>> \in Steps
           /\ \A p \in 0..(Len(Input) - 1), c \in BOOLEAN, e \in job.db.consuming :
                 Input[p + 1] \in e[2] => <<<<p, e[1], c>>, <<p + 1, e[3], TRUE>>>> \in Steps
<1>1. ASSUME NEW p \in 0..Len(Input), NEW c \in BOOLEAN, NEW a \in States, NEW b \in States,
             <<a, b>> \in Edges(p, c)
      PROVE  <<<<p, a, c>>, <<p, b, c>>>> \in Steps
    <2>1. CASE <<a, b>> \in job.db.epsilon
        <3>1. <<a, b>>[1] = a /\ <<a, b>>[2] = b
            OBVIOUS
        <3>2. QED
            BY <2>1, <3>1, StepsAre
    <2>2. CASE <<a, b>> \notin job.db.epsilon
        <3>1. <<a, b>> \in FollowsWithoutConsuming(job.db, job.input, p, c)
            BY <1>1, <2>2 DEF Edges
        <3>2. PICK e \in { x \in job.db.assertion : AssertionMatches(x[2], job.input, p, c) } :
                     <<a, b>> = <<e[1], e[3]>>
            BY <2>2, <3>1 DEF FollowsWithoutConsuming
        <3>3. a = e[1] /\ b = e[3]
            BY <3>2
        <3>4. e \in job.db.assertion /\ AssertionMatches(e[2], Input, p, c)
            BY <3>2 DEF Input
        <3>5. QED
            BY <3>3, <3>4, StepsAre
    <2>3. QED
        BY <2>1, <2>2
<1>2. ASSUME NEW p \in 0..(Len(Input) - 1), NEW c \in BOOLEAN, NEW e \in job.db.consuming,
             Input[p + 1] \in e[2]
      PROVE  <<<<p, e[1], c>>, <<p + 1, e[3], TRUE>>>> \in Steps
    BY <1>2, StepsAre
<1>3. QED
    BY <1>1, <1>2

LEMMA GridIsFinite ==
    ASSUME job \in Jobs
    PROVE  IsFiniteSet(Grid) /\ Steps \in SUBSET (Grid \X Grid)
<1>1. IsFiniteSet(0..Len(Input)) /\ IsFiniteSet(States) /\ IsFiniteSet(BOOLEAN)
    <2>1. IsFiniteSet(0..Len(Input))
        <3>1. Len(Input) \in Nat
            BY JobFacts
        <3>2. 0 \in Int /\ Len(Input) \in Int
            BY <3>1
        <3> HIDE DEF Input
        <3>3. QED
            BY <3>2, FS_Interval
    <2>2. IsFiniteSet({} \cup {TRUE}) /\ IsFiniteSet(({} \cup {TRUE}) \cup {FALSE})
        BY FS_EmptySet, FS_AddElement
    <2>3. BOOLEAN = ({} \cup {TRUE}) \cup {FALSE}
        OBVIOUS
    <2>4. QED
        BY <2>1, <2>2, <2>3, JobFacts
<1> DEFINE Pairs == ((0..Len(Input)) \X States) \X BOOLEAN
           flat == [x \in Pairs |-> <<x[1][1], x[1][2], x[2]>>]
<1>2. IsFiniteSet(Pairs)
    BY <1>1, FS_Product
<1>3. flat \in Surjection(Pairs, Grid)
    <2>1. flat \in [Pairs -> Grid]
        BY DEF Grid
    <2>2. ASSUME NEW y \in Grid PROVE \E x \in Pairs : flat[x] = y
        <3>1. <<<<y[1], y[2]>>, y[3]>> \in Pairs
            BY DEF Grid
        <3>2. flat[<<<<y[1], y[2]>>, y[3]>>] = <<y[1], y[2], y[3]>> /\ y = <<y[1], y[2], y[3]>>
            BY <3>1 DEF Grid
        <3>3. QED
            BY <3>1, <3>2
    <2>3. QED
        BY <2>1, <2>2 DEF Surjection
<1>4. IsFiniteSet(Grid)
    BY <1>2, <1>3, FS_Surjection
<1>5. ASSUME NEW x \in Steps PROVE x \in Grid \X Grid
    <2>1. CASE \E p \in 0..Len(Input), e \in job.db.epsilon, c \in BOOLEAN :
                 x = <<<<p, e[1], c>>, <<p, e[2], c>>>>
        BY <2>1, JobFacts DEF Grid
    <2>2. CASE \E p \in 0..Len(Input), c \in BOOLEAN, e \in job.db.assertion :
                 AssertionMatches(e[2], Input, p, c) /\ x = <<<<p, e[1], c>>, <<p, e[3], c>>>>
        BY <2>2, JobFacts DEF Grid
    <2>3. CASE \E p \in 0..(Len(Input) - 1), c \in BOOLEAN, e \in job.db.consuming :
                 Input[p + 1] \in e[2] /\ x = <<<<p, e[1], c>>, <<p + 1, e[3], TRUE>>>>
        <3>1. PICK p \in 0..(Len(Input) - 1), c \in BOOLEAN, e \in job.db.consuming :
                 x = <<<<p, e[1], c>>, <<p + 1, e[3], TRUE>>>>
            BY <2>3
        <3>2. p \in 0..Len(Input) /\ p + 1 \in 0..Len(Input)
            BY JobFacts
        <3>3. e[1] \in States /\ e[3] \in States
            BY JobFacts
        <3>4. QED
            BY <3>1, <3>2, <3>3 DEF Grid
    <2>4. QED
        BY <2>1, <2>2, <2>3, StepsAre
<1>6. QED
    BY <1>4, <1>5

\* What a start reaches is the least set that holds its first configuration and every
\* step out of it.
LEMMA ReachedFacts ==
    ASSUME job \in Jobs, NEW s \in job.starts
    PROVE  /\ Reached(s) \in SUBSET Grid
           /\ <<s, job.root, FALSE>> \in Reached(s)
           /\ \A x, y : x \in Reached(s) /\ <<x, y>> \in Steps => y \in Reached(s)
           /\ \A S \in SUBSET Grid : <<s, job.root, FALSE>> \in S /\ Closed(Steps, S)
                                     => Reached(s) \subseteq S
<1> DEFINE first == { <<s, job.root, FALSE>> }
<1>1. first \in SUBSET Grid
    <2>1. s \in 0..Len(Input) /\ job.root \in States
        BY JobFacts
    <2>2. <<s, job.root, FALSE>> \in (0..Len(Input)) \X States \X BOOLEAN
        BY <2>1
    <2>3. QED
        BY <2>2 DEF Grid
<1>2. Reached(s) = Hull(Grid, Steps, first)
    <2>1. Reached(s) = ExtendClosure(Grid, Steps, first, {})
        BY DEF Reached, ReachableConfigurations, Grid, Steps, Input, States
    <2>2. QED
        BY <1>1, <2>1, GridIsFinite, ClosureIsHull
<1>f. \A x : x \in first <=> x = <<s, job.root, FALSE>>
    OBVIOUS
<1> HIDE DEF first
<1>3. Reached(s) \in SUBSET Grid /\ first \subseteq Reached(s)
    BY <1>1, <1>2, HullFacts
<1>4. ASSUME NEW x, NEW y, x \in Reached(s), <<x, y>> \in Steps PROVE y \in Reached(s)
    <2>1. y \in Grid
        BY <1>4, GridIsFinite
    <2>2. <<x, y>>[1] = x /\ <<x, y>>[2] = y
        OBVIOUS
    <2>3. QED
        <3>1. \A e \in Steps : e[1] \in Hull(Grid, Steps, first) /\ e[2] \in Grid
                               => e[2] \in Hull(Grid, Steps, first)
            BY <1>1, HullFacts
        <3>2. QED
            BY <1>2, <1>4, <2>1, <2>2, <3>1
<1>5. ASSUME NEW S \in SUBSET Grid, <<s, job.root, FALSE>> \in S, Closed(Steps, S)
      PROVE  Reached(s) \subseteq S
    <2>1. first \subseteq S
        BY <1>5, <1>f
    <2>2. QED
        BY <1>2, <1>5, <2>1, HullWithin
<1>6. QED
    BY <1>3, <1>4, <1>5, <1>f

\* The configurations that go with the live states of a start.
At(s) == { x \in Grid : x[1] >= s /\ x[2] \in Lives(s)[x[1] - s] /\ x[3] = (x[1] > s) }

\* What holds of the assertions or of the unit at a position leads from live states to live ones.
LEMMA LivesFollow ==
    ASSUME job \in Jobs, NEW s \in job.starts, NEW p \in s..Len(Input), NEW q \in Lives(s)[p - s]
    PROVE  /\ \A e \in FollowsWithoutConsuming(job.db, job.input, p, p > s) :
                 e[1] = q => e[2] \in Lives(s)[p - s]
           /\ p < Len(Input) => \A e \in job.db.consuming :
                 e[1] = q /\ Input[p + 1] \in e[2] => e[3] \in Lives(s)[p + 1 - s]
<1> DEFINE k == p - s
<1>1. s \in Nat /\ Len(Input) \in Nat /\ Units(s) = Len(Input) - s /\ p \in Nat
    BY JobFacts, LivesFacts DEF Units
<1>2. k \in 0..Units(s) /\ s + k = p /\ (k > 0) = (p > s)
    BY <1>1
<1>3. q \in Clean
    BY <1>2, LivesClean
<1>4. ASSUME NEW e \in FollowsWithoutConsuming(job.db, job.input, p, p > s), e[1] = q
      PROVE  e[2] \in Lives(s)[k]
    <2>1. e \in Edges(p, p > s)
        BY <1>3, <1>4, CleanFacts
    <2>2. \A x \in Edges(s + k, k > 0) : x[1] \in Lives(s)[k] => x[2] \in Lives(s)[k]
        BY <1>2, LivesClosed
    <2>3. QED
        BY <1>2, <1>4, <2>1, <2>2
<1>5. ASSUME p < Len(Input), NEW e \in job.db.consuming, e[1] = q, Input[p + 1] \in e[2]
      PROVE  e[3] \in Lives(s)[p + 1 - s]
    <2>1. p + 1 - s \in 0..Units(s) /\ p + 1 - s > 0 /\ (p + 1 - s) - 1 = p - s /\ s + (p + 1 - s) = p + 1
        BY <1>1, <1>5
    <2>2. e[3] \in ConsumingTargets(job.db, Lives(s)[p - s], Input[p + 1])
        BY <1>5 DEF ConsumingTargets
    <2> DEFINE m == p + 1 - s
    <2>3. m > 0 => ConsumingTargets(job.db, Lives(s)[m - 1], Input[s + m]) \subseteq Lives(s)[m]
        <3>1. m \in 0..Units(s)
            BY <2>1
        <3> HIDE DEF m
        <3>2. QED
            BY <3>1, LivesClosed
    <2>4. QED
        BY <2>1, <2>2, <2>3
<1>6. QED
    BY <1>4, <1>5

\* Nothing else is reached.
LEMMA ReachedWithin ==
    ASSUME job \in Jobs, NEW s \in job.starts
    PROVE  Reached(s) \subseteq At(s)
<1>1. s \in Nat /\ Len(Input) \in Nat /\ Units(s) = Len(Input) - s /\ Units(s) \in Nat \ {0}
    BY JobFacts, LivesFacts DEF Units
<1>2. <<s, job.root, FALSE>> \in At(s)
    <2>1. s \in 0..Len(Input) /\ job.root \in States
        BY <1>1, JobFacts
    <2>2. <<s, job.root, FALSE>> \in (0..Len(Input)) \X States \X BOOLEAN
        BY <2>1
    <2>3. 0 \in 0..Units(s) /\ s - s = 0 /\ (s > s) = FALSE /\ s >= s
        BY <1>1
    <2>4. job.root \in Lives(s)[s - s]
        BY <2>3, LivesClosed
    <2>5. QED
        BY <2>2, <2>3, <2>4 DEF At, Grid
<1>3. ASSUME NEW x \in Steps, x[1] \in At(s) PROVE x[2] \in At(s)
    <2>0. x[2] \in Grid
        BY GridIsFinite
    <2>1. CASE \E p \in 0..Len(Input), e \in job.db.epsilon, c \in BOOLEAN :
                 x = <<<<p, e[1], c>>, <<p, e[2], c>>>>
        <3>1. PICK p \in 0..Len(Input), e \in job.db.epsilon, c \in BOOLEAN :
                 x = <<<<p, e[1], c>>, <<p, e[2], c>>>>
            BY <2>1
        <3>2. p >= s /\ e[1] \in Lives(s)[p - s] /\ c = (p > s)
            BY <1>3, <3>1 DEF At
        <3>3. p \in s..Len(Input)
            BY <1>1, <3>2
        <3>4. e \in FollowsWithoutConsuming(job.db, job.input, p, p > s)
            BY DEF FollowsWithoutConsuming
        <3>5. e[2] \in Lives(s)[p - s]
            BY <3>2, <3>3, <3>4, LivesFollow
        <3>6. QED
            BY <2>0, <3>1, <3>2, <3>5 DEF At
    <2>2. CASE \E p \in 0..Len(Input), c \in BOOLEAN, e \in job.db.assertion :
                 AssertionMatches(e[2], Input, p, c) /\ x = <<<<p, e[1], c>>, <<p, e[3], c>>>>
        <3>1. PICK p \in 0..Len(Input), c \in BOOLEAN, e \in job.db.assertion :
                 AssertionMatches(e[2], Input, p, c) /\ x = <<<<p, e[1], c>>, <<p, e[3], c>>>>
            BY <2>2
        <3>2. p >= s /\ e[1] \in Lives(s)[p - s] /\ c = (p > s)
            BY <1>3, <3>1 DEF At
        <3>3. p \in s..Len(Input)
            BY <1>1, <3>2
        <3>4. <<e[1], e[3]>> \in FollowsWithoutConsuming(job.db, job.input, p, p > s)
            BY <3>1, <3>2 DEF FollowsWithoutConsuming, Input
        <3>5. e[3] \in Lives(s)[p - s]
            <4>1. <<e[1], e[3]>>[1] = e[1] /\ <<e[1], e[3]>>[2] = e[3]
                OBVIOUS
            <4>2. QED
                BY <3>2, <3>3, <3>4, <4>1, LivesFollow
        <3>6. QED
            BY <2>0, <3>1, <3>2, <3>5 DEF At
    <2>3. CASE \E p \in 0..(Len(Input) - 1), c \in BOOLEAN, e \in job.db.consuming :
                 Input[p + 1] \in e[2] /\ x = <<<<p, e[1], c>>, <<p + 1, e[3], TRUE>>>>
        <3>1. PICK p \in 0..(Len(Input) - 1), c \in BOOLEAN, e \in job.db.consuming :
                 Input[p + 1] \in e[2] /\ x = <<<<p, e[1], c>>, <<p + 1, e[3], TRUE>>>>
            BY <2>3
        <3>2. p >= s /\ e[1] \in Lives(s)[p - s]
            BY <1>3, <3>1 DEF At
        <3>3. p \in s..Len(Input) /\ p < Len(Input) /\ p + 1 >= s /\ (p + 1 > s) = TRUE
            BY <1>1, <3>2
        <3>4. e[3] \in Lives(s)[p + 1 - s]
            BY <3>1, <3>2, <3>3, LivesFollow
        <3>5. x[2][1] = p + 1 /\ x[2][2] = e[3] /\ x[2][3] = TRUE
            BY <3>1
        <3>6. x[2][1] >= s /\ x[2][2] \in Lives(s)[x[2][1] - s]
            <4>1. x[2][1] >= s
                BY <3>3, <3>5, Zenon
            <4>2. x[2][1] - s = p + 1 - s
                <5>1. (p + 1) - s = p + 1 - s
                    BY <1>1, <3>3
                <5>2. QED
                    BY <3>5, <5>1, Zenon
            <4>3. x[2][2] \in Lives(s)[x[2][1] - s]
                BY <3>4, <3>5, <4>2, Zenon
            <4>4. QED
                BY <4>1, <4>3
        <3>7. x[2][3] = (x[2][1] > s)
            BY <3>3, <3>5, Zenon
        <3>8. QED
            BY <2>0, <3>6, <3>7 DEF At
    <2>4. QED
        BY <2>1, <2>2, <2>3, StepsAre
<1>4. At(s) \in SUBSET Grid /\ Closed(Steps, At(s))
    BY <1>3 DEF At, Closed
<1>5. QED
    BY <1>2, <1>4, ReachedFacts

\* And every live state is reached.
LEMMA ReachedIs ==
    ASSUME job \in Jobs, NEW s \in job.starts
    PROVE  Reached(s) = At(s)
<1> DEFINE Seen(k) == { q \in States : <<s + k, q, k > 0>> \in Reached(s) }
           Good == { k \in 0..Units(s) : Lives(s)[k] \subseteq Seen(k) }
<1>1. s \in Nat /\ Len(Input) \in Nat /\ Units(s) = Len(Input) - s /\ Units(s) \in Nat \ {0}
    BY JobFacts, LivesFacts DEF Units
<1>0. \A x, y : x \in Reached(s) /\ <<x, y>> \in Steps => y \in Reached(s)
    BY ReachedFacts
<1>2. ASSUME NEW k \in 0..Units(s) PROVE Closed(Edges(s + k, k > 0), Seen(k))
    <2>1. ASSUME NEW e \in Edges(s + k, k > 0), e[1] \in Seen(k) PROVE e[2] \in Seen(k)
        <3>1. e \in States \X States /\ e = <<e[1], e[2]>>
            BY EdgesType
        <3>2. s + k \in 0..Len(Input) /\ (k > 0) \in BOOLEAN
            BY <1>1
        <3>3. <<<<s + k, e[1], k > 0>>, <<s + k, e[2], k > 0>>>> \in Steps
            BY <3>1, <3>2, StepsFacts
        <3>4. <<s + k, e[2], k > 0>> \in Reached(s)
            <4>1. <<s + k, e[1], k > 0>> \in Reached(s)
                BY <2>1
            <4>2. QED
                BY <1>0, <3>3, <4>1, Zenon
        <3>5. QED
            BY <3>1, <3>4
    <2> HIDE DEF Seen
    <2>2. QED
        BY <2>1 DEF Closed
<1>3. 0 \in Good
    <2> DEFINE first == { job.root }
    <2>1. (0 > 0) = FALSE /\ s + 0 = s /\ 0 \in 0..Units(s)
        BY <1>1
    <2>2. job.root \in Seen(0)
        BY <2>1, ReachedFacts, JobFacts
    <2>3. { job.root } \in SUBSET States
        BY JobFacts
    <2>4. Lives(s)[0] = Hull(States, Edges(s, FALSE), first)
        BY <2>3, LivesFacts, ClosureOf
    <2>5. Closed(Edges(s, FALSE), Seen(0))
        <3>1. Closed(Edges(s + 0, 0 > 0), Seen(0))
            BY <1>2, <2>1
        <3>2. QED
            BY <2>1, <3>1
    <2>6. Seen(0) \in SUBSET States
        OBVIOUS
    <2>7. first \subseteq Seen(0)
        BY <2>2
    <2> HIDE DEF Seen, first
    <2>8. Lives(s)[0] \subseteq Seen(0)
        BY <2>4, <2>5, <2>6, <2>7, HullWithin
    <2>9. QED
        BY <2>1, <2>8
<1>4. ASSUME NEW k \in 1..Units(s), k - 1 \in Good PROVE k \in Good
    <2> DEFINE seeds == ConsumingTargets(job.db, Lives(s)[k - 1], Input[s + k])
    <2>1. (k > 0) = TRUE /\ k \in 0..Units(s)
        BY <1>1
    <2>2. seeds \in SUBSET States
        BY TargetsType
    <2>3. seeds \subseteq Seen(k)
        <3>1. ASSUME NEW e \in job.db.consuming, e[1] \in Lives(s)[k - 1], Input[s + k] \in e[2]
              PROVE  e[3] \in Seen(k)
            <4>1. <<s + (k - 1), e[1], k - 1 > 0>> \in Reached(s)
                BY <1>4, <3>1
            <4>2. /\ s + (k - 1) \in 0..(Len(Input) - 1) /\ (k - 1 > 0) \in BOOLEAN
                  /\ (s + (k - 1)) + 1 = s + k
                BY <1>1
            <4>3. <<<<s + (k - 1), e[1], k - 1 > 0>>, <<(s + (k - 1)) + 1, e[3], TRUE>>>> \in Steps
                BY <3>1, <4>2, StepsFacts
            <4>4. <<(s + (k - 1)) + 1, e[3], TRUE>> \in Reached(s)
                BY <1>0, <4>1, <4>3, Zenon
            <4>5. e[3] \in States
                BY JobFacts
            <4>6. QED
                BY <2>1, <4>2, <4>4, <4>5
        <3> HIDE DEF Seen
        <3>2. QED
            BY <3>1 DEF ConsumingTargets
    <2>4. Lives(s)[k] = Hull(States, Edges(s + k, TRUE), seeds)
        <3>1. Lives(s)[k] = Closure(seeds, s + k, TRUE)
            BY LivesFacts
        <3>2. QED
            BY <2>2, <3>1, ClosureOf
    <2>5. Closed(Edges(s + k, TRUE), Seen(k))
        <3>1. Closed(Edges(s + k, k > 0), Seen(k))
            BY <1>2, <2>1
        <3>2. QED
            BY <2>1, <3>1
    <2>6. Seen(k) \in SUBSET States
        OBVIOUS
    <2> HIDE DEF Seen, seeds
    <2>7. Lives(s)[k] \subseteq Seen(k)
        <3>1. Hull(States, Edges(s + k, TRUE), seeds) \subseteq Seen(k)
            BY <2>3, <2>5, <2>6, HullWithin
        <3>2. QED
            BY <2>4, <3>1, Zenon
    <2>8. QED
        BY <2>1, <2>7
<1>5. 0..Units(s) \subseteq Good
    <2> HIDE DEF Good
    <2>1. QED
        BY <1>1, <1>3, <1>4, Induction
<1>6. ASSUME NEW x \in At(s) PROVE x \in Reached(s)
    <2>1. x \in Grid /\ x[1] >= s /\ x[2] \in Lives(s)[x[1] - s] /\ x[3] = (x[1] > s)
        BY DEF At
    <2>2. x = <<x[1], x[2], x[3]>> /\ x[1] \in 0..Len(Input)
        BY <2>1 DEF Grid
    <2> DEFINE k == x[1] - s
    <2>3. k \in 0..Units(s) /\ s + k = x[1] /\ (k > 0) = (x[1] > s)
        BY <1>1, <2>1, <2>2
    <2>4. <<s + k, x[2], k > 0>> \in Reached(s)
        BY <1>5, <2>1, <2>3
    <2>5. QED
        BY <2>1, <2>2, <2>3, <2>4
<1>7. QED
    BY <1>6, ReachedWithin

-----------------------------------------------------------------------------
(* The events of one start. *)

\* How many members come before o.
Rank(S) == [o \in S |-> Cardinality({ q \in S : q < o })]

\* The ranks of n numbers are 0..(n - 1).
LEMMA RanksAre ==
    ASSUME NEW S \in SUBSET Nat, IsFiniteSet(S)
    PROVE  /\ Cardinality(S) \in Nat
           /\ \A i \in 1..Cardinality(S) : \E o \in S : Rank(S)[o] = i - 1
<1> DEFINE n == Cardinality(S)
           Below(o) == { q \in S : q < o }
<1>1. n \in Nat
    BY FS_CardinalityType
<1>2. ASSUME NEW o \in S
      PROVE  IsFiniteSet(Below(o)) /\ Cardinality(Below(o)) \in 0..(n - 1)
    <2>1. Below(o) \in SUBSET S /\ o \notin Below(o)
        OBVIOUS
    <2>2. IsFiniteSet(Below(o)) /\ Cardinality(Below(o)) <= n /\ Cardinality(Below(o)) # n
        <3> HIDE DEF Below
        <3>1. QED
            BY <2>1, FS_Subset
    <2>3. Cardinality(Below(o)) \in Nat
        BY <2>2, FS_CardinalityType
    <2> HIDE DEF Below, n
    <2>4. QED
        BY <1>1, <2>2, <2>3
<1>3. ASSUME NEW a \in S, NEW b \in S, a < b
      PROVE  Cardinality(Below(a)) # Cardinality(Below(b))
    <2>1. a \in Nat /\ b \in Nat /\ \A q \in S : q \in Nat
        OBVIOUS
    <2>2. ~ (a < a) /\ \A q \in S : q < a => q < b
        BY <1>3, <2>1
    <2>3. Below(a) \in SUBSET Below(b) /\ a \in Below(b) /\ a \notin Below(a)
        BY <1>3, <2>2
    <2> HIDE DEF Below
    <2>4. QED
        BY <1>2, <2>3, FS_Subset
<1>4. Rank(S) \in Injection(S, 0..(n - 1))
    <2>1. Rank(S) \in [S -> 0..(n - 1)]
        BY <1>2 DEF Rank
    <2>2. ASSUME NEW a \in S, NEW b \in S, Rank(S)[a] = Rank(S)[b] PROVE a = b
        <3>1. Rank(S)[a] = Cardinality(Below(a)) /\ Rank(S)[b] = Cardinality(Below(b))
            BY DEF Rank
        <3>2. ~ (a < b) /\ ~ (b < a)
            BY <1>3, <2>2, <3>1
        <3>3. a \in Nat /\ b \in Nat
            OBVIOUS
        <3>4. QED
            BY <3>2, <3>3
    <2>3. DOMAIN Rank(S) = S
        BY DEF Rank
    <2>4. IsInjective(Rank(S))
        BY <2>2, <2>3 DEF IsInjective
    <2>5. QED
        BY <2>1, <2>4 DEF Injection
<1>5. IsFiniteSet(0..(n - 1)) /\ Cardinality(0..(n - 1)) = n
    <2> HIDE DEF n
    <2>1. QED
        BY <1>1, FS_Interval
<1>6. Rank(S) \in Surjection(S, 0..(n - 1))
    BY <1>4, <1>5, FS_Injection
<1>7. ASSUME NEW i \in 1..n PROVE \E o \in S : Rank(S)[o] = i - 1
    <2>1. i - 1 \in 0..(n - 1)
        <3> HIDE DEF n
        <3>1. QED
            BY <1>1
    <2>2. QED
        BY <1>6, <2>1 DEF Surjection
<1>8. QED
    BY <1>1, <1>7

\* Each place of the sorted list holds the member of that rank.
LEMMA AscendingIs ==
    ASSUME NEW S \in SUBSET Nat, IsFiniteSet(S), NEW i \in 1..Cardinality(S)
    PROVE  Ascending(S)[i] \in S /\ Rank(S)[Ascending(S)[i]] = i - 1
<1>1. \E o \in S : Cardinality({ q \in S : q < o }) = i - 1
    BY RanksAre DEF Rank
<1>2. Ascending(S)[i] = CHOOSE o \in S : Cardinality({ q \in S : q < o }) = i - 1
    BY DEF Ascending
<1>3. Ascending(S)[i] \in S /\ Cardinality({ q \in S : q < Ascending(S)[i] }) = i - 1
    BY <1>1, <1>2, Zenon
<1>4. QED
    BY <1>3 DEF Rank

\* What is delivered for a start names each touched ordinal once.
LEMMA EventsAre ==
    ASSUME NEW s, NEW best, NEW touched \in SUBSET Nat, IsFiniteSet(touched)
    PROVE  EventsOf(s, best, touched) \in SetToSeqs({ <<s, o, best[o]>> : o \in touched })
<1> DEFINE E == { <<s, o, best[o]>> : o \in touched }
           tag == [o \in touched |-> <<s, o, best[o]>>]
           n == Cardinality(touched)
<1>1. Cardinality(E) = n
    <2>1. tag \in [touched -> E]
        OBVIOUS
    <2>2. \A a, b \in touched : tag[a] = tag[b] => a = b
        OBVIOUS
    <2>3. \A e \in E : \E o \in touched : tag[o] = e
        OBVIOUS
    <2>4. tag \in Bijection(touched, E)
        <3>1. tag \in Injection(touched, E)
            BY <2>1, <2>2 DEF Injection, IsInjective
        <3>2. tag \in Surjection(touched, E)
            BY <2>1, <2>3 DEF Surjection
        <3>3. QED
            BY <3>1, <3>2 DEF Bijection
    <2>5. ExistsBijection(touched, E)
        BY <2>4 DEF ExistsBijection
    <2>6. QED
        BY <2>5, FS_Bijection
<1> DEFINE f == EventsOf(s, best, touched)
           place == Ascending(touched)
<1>2. \A i \in 1..n : place[i] \in touched /\ Rank(touched)[place[i]] = i - 1
    BY AscendingIs
<1>3. f = [i \in 1..n |-> <<s, place[i], best[place[i]]>>]
    BY DEF EventsOf
<1>4. f \in [1..n -> E]
    BY <1>2, <1>3
<1>5. ASSUME NEW i \in 1..n, NEW j \in 1..n, f[i] = f[j] PROVE i = j
    <2>1. place[i] = place[j]
        BY <1>3, <1>5
    <2>2. i - 1 = j - 1
        BY <1>2, <2>1
    <2>3. QED
        BY <2>2
<1> HIDE DEF E, f
<1>6. f \in SetToSeqs(E)
    BY <1>1, <1>4, <1>5 DEF SetToSeqs
<1>7. QED
    BY <1>6 DEF E, f

-----------------------------------------------------------------------------
(* The ends the rule admits, and the greatest of them. *)

\* Where an ordinal is accepted from a start, up to a position.
Ends(s, o, p) == { e \in (s + 1)..p : o \in TerminalsOf(job.db, Lives(s)[e - s]) }

\* best keeps the greatest of them, NoEnd where there is none.
BestIs(best, s, p) ==
    \A o \in Ordinal : /\ best[o] # NoEnd => best[o] \in Ends(s, o, p)
                       /\ \A e \in Ends(s, o, p) : e <= best[o]

\* They are the accepted ends of the match-event rule.
LEMMA EndsAre ==
    ASSUME job \in Jobs, NEW s \in job.starts, NEW o
    PROVE  AcceptedEnds(Reached(s), job.db, o) = Ends(s, o, Len(Input))
<1>1. s \in Nat /\ Len(Input) \in Nat /\ Units(s) = Len(Input) - s
    BY JobFacts, LivesFacts DEF Units
<1>2. ASSUME NEW e \in AcceptedEnds(Reached(s), job.db, o) PROVE e \in Ends(s, o, Len(Input))
    <2>1. PICK d \in Reached(s) : d[3] /\ o \in job.db.terminals[d[2]] /\ e = d[1]
        BY DEF AcceptedEnds
    <2>2. d \in Grid /\ d[1] >= s /\ d[2] \in Lives(s)[d[1] - s] /\ d[3] = (d[1] > s)
        BY ReachedIs DEF At
    <2>3. e \in 0..Len(Input) /\ e > s
        BY <2>1, <2>2 DEF Grid
    <2>4. o \in TerminalsOf(job.db, Lives(s)[e - s])
        BY <2>1, <2>2 DEF TerminalsOf
    <2>5. e \in (s + 1)..Len(Input)
        BY <1>1, <2>3
    <2>6. QED
        BY <2>4, <2>5 DEF Ends
<1>3. ASSUME NEW e \in Ends(s, o, Len(Input)) PROVE e \in AcceptedEnds(Reached(s), job.db, o)
    <2>1. e \in (s + 1)..Len(Input) /\ o \in TerminalsOf(job.db, Lives(s)[e - s])
        BY DEF Ends
    <2>2. e - s \in 0..Units(s) /\ e \in 0..Len(Input) /\ e >= s /\ (e > s) = TRUE
        BY <1>1, <2>1
    <2>3. PICK q \in Lives(s)[e - s] : o \in job.db.terminals[q]
        BY <2>1 DEF TerminalsOf
    <2>4. q \in States
        BY <2>2, LivesFacts
    <2> DEFINE d == <<e, q, TRUE>>
    <2>5. d \in (0..Len(Input)) \X States \X BOOLEAN
        BY <2>2, <2>4
    <2>6. d[1] = e /\ d[2] = q /\ d[3] = TRUE
        OBVIOUS
    <2> HIDE DEF d
    <2>7. d \in At(s)
        <3>1. d[3] = (d[1] > s)
            BY <2>2, <2>6, Zenon
        <3>2. d[1] >= s /\ d[2] \in Lives(s)[d[1] - s]
            BY <2>2, <2>3, <2>6, Zenon
        <3>3. QED
            BY <2>5, <3>1, <3>2 DEF At, Grid
    <2>8. d \in Reached(s)
        BY <2>7, ReachedIs
    <2>9. QED
        BY <2>3, <2>6, <2>8 DEF AcceptedEnds
<1>4. QED
    BY <1>2, <1>3

\* So the touched ordinals with their ends are the longest matches.
LEMMA LongestAre ==
    ASSUME job \in Jobs, NEW s \in job.starts, NEW best, BestIs(best, s, Len(Input))
    PROVE  LongestMatches(job.db, job.root, job.input, s)
           = { <<s, o, best[o]>> : o \in { q \in Ordinal : best[q] # NoEnd } }
<1> DEFINE ends(o) == AcceptedEnds(Reached(s), job.db, o)
           E(o) == Ends(s, o, Len(Input))
<1>1. LongestMatches(job.db, job.root, job.input, s)
      = { <<s, o, Max(ends(o))>> : o \in { q \in Ordinal : ends(q) # {} } }
    BY DEF LongestMatches, Reached
<1>2. ASSUME NEW o \in Ordinal
      PROVE  /\ ends(o) # {} <=> best[o] # NoEnd
             /\ best[o] # NoEnd => Max(ends(o)) = best[o]
    <2>1. ends(o) = E(o) /\ E(o) \in SUBSET Nat /\ 0 \notin E(o)
        <3>1. s \in Nat /\ Len(Input) \in Nat
            BY JobFacts
        <3>2. E(o) \in SUBSET ((s + 1)..Len(Input))
            BY DEF Ends
        <3>3. QED
            BY <3>1, <3>2, EndsAre
    <2>2. best[o] # NoEnd => best[o] \in E(o)
        BY DEF BestIs
    <2>3. \A e \in E(o) : e <= best[o]
        BY DEF BestIs
    <2> HIDE DEF ends, E
    <2>4. ends(o) # {} => best[o] # NoEnd
        <3>1. \A e \in E(o) : ~ (e <= 0)
            BY <2>1
        <3>2. QED
            BY <2>1, <2>3, <3>1 DEF NoEnd
    <2>5. ASSUME best[o] # NoEnd PROVE Max(ends(o)) = best[o]
        <3>1. best[o] \in E(o) /\ \A y \in E(o) : best[o] >= y
            BY <2>1, <2>2, <2>3, <2>5
        <3>2. Max(E(o)) = CHOOSE x \in E(o) : \A y \in E(o) : x >= y
            BY DEF Max
        <3>3. Max(E(o)) \in E(o) /\ \A y \in E(o) : Max(E(o)) >= y
            BY <3>1, <3>2, Zenon
        <3>4. best[o] \in Nat /\ Max(E(o)) \in Nat /\ best[o] >= Max(E(o)) /\ Max(E(o)) >= best[o]
            BY <2>1, <3>1, <3>3
        <3>5. QED
            BY <2>1, <3>4
    <2>6. QED
        BY <2>1, <2>2, <2>4, <2>5
<1> HIDE DEF ends
<1>3. QED
    BY <1>1, <1>2

-----------------------------------------------------------------------------
(* What a scan knows of its start. *)

Inv ==
    /\ job \in Jobs
    /\ remaining \subseteq job.starts
    /\ phase \in { "select", "scan", "report", "done" }
    /\ phase \in { "scan", "report" } => start \in remaining
    /\ phase = "scan" => /\ position \in start..(Len(Input) - 1)
                        /\ live = Lives(start)[position - start]
                        /\ BestIs(best_end, start, position)
    /\ phase = "report" => BestIs(best_end, start, Len(Input))

\* All of it depends on the job alone.
LEMMA SameJob ==
    ASSUME job' = job
    PROVE  /\ Input' = Input
           /\ \A s : Lives(s)' = Lives(s)
           /\ \A best, s, p : BestIs(best, s, p)' = BestIs(best, s, p)
<1>1. Input' = Input /\ States' = States
    BY DEF Input, States
<1>2. ASSUME NEW seeds, NEW p, NEW c PROVE Closure(seeds, p, c)' = Closure(seeds, p, c)
    BY DEF Closure
<1>3. ASSUME NEW s PROVE Lives(s)' = Lives(s)
    <2>1. Units(s)' = Units(s)
        BY <1>1 DEF Units
    <2>2. Closure({ job.root }, s, FALSE)' = Closure({ job.root }, s, FALSE)
        BY DEF Closure
    <2>3. Advance(s)' = Advance(s)
        BY <1>1, <2>1 DEF Advance, Closure
    <2>4. Runs(s)' = Runs(s)
        BY <1>1, <2>1, <2>2, <2>3 DEF Runs
    <2>5. QED
        BY <2>4, Zenon DEF Lives
<1>4. ASSUME NEW best, NEW s, NEW p PROVE BestIs(best, s, p)' = BestIs(best, s, p)
    BY <1>3 DEF BestIs, Ends
<1>5. QED
    BY <1>1, <1>3, <1>4

\* No state is live again once none is.
LEMMA DeadStaysDead ==
    ASSUME job \in Jobs, NEW s \in job.starts, NEW m \in 0..Units(s), Lives(s)[m] = {}
    PROVE  \A k \in m..Units(s) : Lives(s)[k] = {}
<1> DEFINE Good == { k \in 0..Units(s) : k >= m => Lives(s)[k] = {} }
<1>1. Units(s) \in Nat /\ m \in Nat
    <2>1. Units(s) \in Nat
        BY LivesFacts
    <2>2. QED
        BY <2>1
<1>2. 0 \in Good
    BY <1>1
<1>3. ASSUME NEW k \in 1..Units(s), k - 1 \in Good PROVE k \in Good
    <2>1. CASE k - 1 >= m
        <3>1. Lives(s)[k - 1] = {}
            BY <1>3, <2>1
        <3>2. ConsumingTargets(job.db, Lives(s)[k - 1], Input[s + k]) = {}
            BY <3>1 DEF ConsumingTargets
        <3>3. Lives(s)[k] = Closure({}, s + k, TRUE)
            BY <3>2, LivesFacts
        <3>4. {} \in SUBSET States /\ Closed(Edges(s + k, TRUE), {})
            BY DEF Closed
        <3>5. Closure({}, s + k, TRUE) = Hull(States, Edges(s + k, TRUE), {})
            BY <3>4, ClosureOf
        <3>6. Hull(States, Edges(s + k, TRUE), {}) \subseteq {}
            BY <3>4, HullWithin
        <3>7. Lives(s)[k] = {}
            BY <3>3, <3>5, <3>6, Zenon
        <3>8. k \in 0..Units(s)
            BY <1>1
        <3>9. QED
            BY <3>7, <3>8
    <2>2. CASE ~ (k - 1 >= m)
        <3>1. k = m \/ ~ (k >= m)
            BY <1>1, <2>2
        <3>2. k \in 0..Units(s)
            BY <1>1
        <3>3. QED
            BY <3>1, <3>2
    <2>3. QED
        BY <2>1, <2>2
<1>4. 0..Units(s) \subseteq Good
    <2> HIDE DEF Good
    <2>1. QED
        BY <1>1, <1>2, <1>3, Induction
<1>5. QED
    BY <1>1, <1>4

\* A unit takes the live states of a position to those of the next.
LEMMA SuccessorIs ==
    ASSUME job \in Jobs, NEW s \in job.starts, position \in s..(Len(Input) - 1),
           live = Lives(s)[position - s]
    PROVE  Successor(live) = Lives(s)[position + 1 - s]
<1>1. s \in Nat /\ Len(Input) \in Nat /\ Units(s) = Len(Input) - s
    BY JobFacts, LivesFacts DEF Units
<1> DEFINE m == position + 1 - s
<1>2. m \in 1..Units(s) /\ m - 1 = position - s /\ s + m = position + 1
    BY <1>1
<1>3. Lives(s)[m] = Closure(ConsumingTargets(job.db, Lives(s)[m - 1], Input[s + m]), s + m, TRUE)
    BY <1>2, LivesFacts
<1>4. QED
    BY <1>2, <1>3 DEF Successor, Input

\* Nothing is accepted before the first unit.
LEMMA NothingYet ==
    ASSUME NEW s \in Nat, NEW best, \A o \in Ordinal : best[o] = NoEnd
    PROVE  BestIs(best, s, s)
<1>1. (s + 1)..s = {}
    OBVIOUS
<1>2. \A o : Ends(s, o, s) = {}
    BY <1>1 DEF Ends
<1>3. QED
    BY <1>2 DEF BestIs

\* One more unit: what it accepts ends there.
LEMMA RecordKeeps ==
    ASSUME NEW s \in Nat, NEW p \in Nat, s <= p, NEW best, BestIs(best, s, p)
    PROVE  BestIs(RecordTerminals(best, TerminalsOf(job.db, Lives(s)[p + 1 - s]), p + 1), s, p + 1)
<1> DEFINE accepted == TerminalsOf(job.db, Lives(s)[p + 1 - s])
           new == RecordTerminals(best, accepted, p + 1)
<1>1. \A e : e \in (s + 1)..(p + 1) <=> e \in (s + 1)..p \/ e = p + 1
    OBVIOUS
<1>2. ASSUME NEW o
      PROVE  /\ Ends(s, o, p) \subseteq Ends(s, o, p + 1)
             /\ \A e \in Ends(s, o, p + 1) : e \in Ends(s, o, p) \/ (e = p + 1 /\ o \in accepted)
             /\ o \in accepted => p + 1 \in Ends(s, o, p + 1)
    <2>1. (p + 1) - s = p + 1 - s
        OBVIOUS
    <2> HIDE DEF accepted
    <2>2. \A e : e \in Ends(s, o, p + 1) <=>
                e \in (s + 1)..(p + 1) /\ o \in TerminalsOf(job.db, Lives(s)[e - s])
        BY DEF Ends
    <2>3. \A e : e \in Ends(s, o, p) <=>
                e \in (s + 1)..p /\ o \in TerminalsOf(job.db, Lives(s)[e - s])
        BY DEF Ends
    <2>4. o \in accepted <=> o \in TerminalsOf(job.db, Lives(s)[(p + 1) - s])
        BY <2>1 DEF accepted
    <2>5. QED
        BY <1>1, <2>2, <2>3, <2>4, Zenon
<1>3. ASSUME NEW o \in Ordinal
      PROVE  /\ new[o] # NoEnd => new[o] \in Ends(s, o, p + 1)
             /\ \A e \in Ends(s, o, p + 1) : e <= new[o]
    <2>1. new[o] = IF o \in accepted THEN p + 1 ELSE best[o]
        BY DEF RecordTerminals
    <2>2. /\ best[o] # NoEnd => best[o] \in Ends(s, o, p)
          /\ \A e \in Ends(s, o, p) : e <= best[o]
        BY DEF BestIs
    <2>3. \A e \in Ends(s, o, p + 1) : e <= p + 1
        <3>1. \A e \in Ends(s, o, p + 1) : e \in (s + 1)..(p + 1)
            BY DEF Ends
        <3>2. QED
            BY <3>1
    <2> HIDE DEF new, accepted
    <2>4. QED
        BY <1>2, <2>1, <2>2, <2>3
<1>4. QED
    BY <1>3 DEF BestIs

\* The positions after the last live state add nothing.
LEMMA EndsAtDeath ==
    ASSUME job \in Jobs, NEW s \in job.starts, NEW p \in s..(Len(Input) - 1),
           Lives(s)[p + 1 - s] = {}, NEW best, BestIs(best, s, p)
    PROVE  BestIs(best, s, Len(Input))
<1>1. s \in Nat /\ Len(Input) \in Nat /\ Units(s) = Len(Input) - s
    BY JobFacts, LivesFacts DEF Units
<1>2. ASSUME NEW e \in (p + 1)..Len(Input), NEW o PROVE o \notin TerminalsOf(job.db, Lives(s)[e - s])
    <2> DEFINE m == p + 1 - s
    <2>1. m \in 0..Units(s) /\ e - s \in m..Units(s)
        BY <1>1
    <2>2. Lives(s)[m] = {}
        OBVIOUS
    <2> HIDE DEF m
    <2>3. Lives(s)[e - s] = {}
        BY <2>1, <2>2, DeadStaysDead
    <2>4. QED
        BY <2>3 DEF TerminalsOf
<1>3. \A e : e \in (s + 1)..Len(Input) <=> e \in (s + 1)..p \/ e \in (p + 1)..Len(Input)
    BY <1>1
<1>4. ASSUME NEW o PROVE Ends(s, o, Len(Input)) = Ends(s, o, p)
    BY <1>2, <1>3, Zenon DEF Ends
<1>5. QED
    BY <1>4 DEF BestIs

LEMMA InitInv == Init => Inv
BY DEF Init, Inv

LEMMA NextInv == ASSUME Inv, Next PROVE Inv'
<1>0. /\ job \in Jobs /\ remaining \subseteq job.starts
      /\ job.starts \subseteq 0..(Len(Input) - 1) /\ Len(Input) \in Nat
    BY JobFacts DEF Inv
<1>1. CASE SelectStart
    <2>1. /\ start' = Min(remaining) /\ position' = start' /\ remaining' = remaining
          /\ live' = Closure({ job.root }, start', FALSE)
          /\ best_end' = [o \in Ordinal |-> NoEnd] /\ phase' = "scan" /\ job' = job
        BY <1>1 DEF SelectStart
    <2>2. start' \in remaining
        <3>1. remaining # {} /\ remaining \in SUBSET Nat
            BY <1>0, <1>1 DEF SelectStart
        <3>2. QED
            BY <2>1, <3>1, MinIsMember
    <2>3. PICK s \in job.starts : s = start'
        BY <1>0, <2>2
    <2>4. s \in Nat /\ s \in 0..(Len(Input) - 1) /\ s - s = 0
        BY <1>0
    <2>5. Closure({ job.root }, s, FALSE) = Lives(s)[s - s]
        BY <1>0, <2>4, LivesFacts
    <2>6. BestIs(best_end', s, s)
        BY <2>1, <2>4, NothingYet
    <2>7. position' \in s..(Len(Input) - 1)
        BY <1>0, <2>1, <2>3, <2>4
    <2>8. QED
        BY <1>0, <2>1, <2>2, <2>3, <2>5, <2>6, <2>7, SameJob DEF Inv
<1>2. CASE ConsumeUnit
    <2>1. /\ phase = "scan" /\ job' = job /\ remaining' = remaining /\ start' = start
          /\ position' = position + 1 /\ phase' = PhaseAfterUnit
          /\ live' = IF phase' = "scan" THEN Successor(live) ELSE {}
          /\ best_end' = RecordTerminals(best_end, TerminalsOf(job.db, Successor(live)), position + 1)
        BY <1>2 DEF ConsumeUnit
    <2>2. /\ start \in remaining /\ start \in job.starts /\ position \in start..(Len(Input) - 1)
          /\ live = Lives(start)[position - start] /\ BestIs(best_end, start, position)
        BY <1>0, <2>1 DEF Inv
    <2>3. start \in Nat /\ position \in Nat /\ start <= position
        BY <1>0, <2>2
    <2>4. Successor(live) = Lives(start)[position + 1 - start]
        BY <1>0, <2>2, SuccessorIs
    <2>5. BestIs(best_end', start, position + 1)
        BY <2>1, <2>2, <2>3, <2>4, RecordKeeps
    <2>6. CASE position + 1 = Len(Input)
        <3>1. phase' = "report"
            BY <2>1, <2>6 DEF PhaseAfterUnit, Input
        <3>2. QED
            BY <1>0, <2>1, <2>2, <2>5, <2>6, <3>1, SameJob DEF Inv
    <2>7. CASE position + 1 # Len(Input)
        <3>1. phase' = "scan" /\ live' = Lives(start)[position + 1 - start]
            BY <2>1, <2>4, <2>7 DEF PhaseAfterUnit, Input
        <3>2. position' \in start..(Len(Input) - 1) /\ position' - start = position + 1 - start
            BY <1>0, <2>1, <2>2, <2>3, <2>7
        <3>3. QED
            BY <1>0, <2>1, <2>2, <2>5, <3>1, <3>2, SameJob DEF Inv
    <2>8. QED
        BY <2>6, <2>7
<1>3. CASE Die
    <2>1. /\ phase = "scan" /\ job' = job /\ remaining' = remaining /\ start' = start
          /\ phase' = "report" /\ best_end' = best_end /\ Successor(live) = {}
        BY <1>3 DEF Die
    <2>2. /\ start \in remaining /\ start \in job.starts /\ position \in start..(Len(Input) - 1)
          /\ live = Lives(start)[position - start] /\ BestIs(best_end, start, position)
        BY <1>0, <2>1 DEF Inv
    <2>3. Lives(start)[position + 1 - start] = {}
        BY <1>0, <2>1, <2>2, SuccessorIs
    <2>4. BestIs(best_end, start, Len(Input))
        BY <1>0, <2>2, <2>3, EndsAtDeath
    <2>5. QED
        BY <1>0, <2>1, <2>2, <2>4, SameJob DEF Inv
<1>4. CASE Report
    BY <1>0, <1>4 DEF Report, Inv
<1>5. CASE Finish
    BY <1>0, <1>5 DEF Finish, Inv
<1>6. QED
    BY <1>1, <1>2, <1>3, <1>4, <1>5 DEF Next

LEMMA InvHolds == Spec => []Inv
<1>1. Inv /\ [Next]_scanVars => Inv'
    <2>1. ASSUME Inv, UNCHANGED scanVars PROVE Inv'
        BY <2>1, SameJob DEF scanVars, Inv
    <2>2. QED
        BY <2>1, NextInv
<1>2. QED
    BY <1>1, InitInv, PTL DEF Spec

-----------------------------------------------------------------------------
(* The scan delivers what the match-event rule asks for. *)

Selection == INSTANCE MatchSelection

\* Selection is instantiated with this module's own constants, so each of its operators
\* is the operator of the same name here: what an assertion asks,
LEMMA SameAssertions ==
    \A a, input, p, c : Selection!AssertionMatches(a, input, p, c) = AssertionMatches(a, input, p, c)
BY Zenon DEF Selection!AssertionMatches, AssertionMatches, Selection!IsWordBoundary, IsWordBoundary,
             Selection!IsWordAt, IsWordAt

\* the steps between configurations,
LEMMA SameSteps ==
    \A db, input : Selection!ConfigurationStep(db, input) = ConfigurationStep(db, input)
<1> SUFFICES ASSUME NEW db, NEW input
             PROVE  Selection!ConfigurationStep(db, input) = ConfigurationStep(db, input)
    OBVIOUS
<1> DEFINE A == { <<<<p, e[1], c>>, <<p, e[2], c>>>> :
                    p \in 0..Len(input), e \in db.epsilon, c \in BOOLEAN }
           B(p, c) == { <<<<p, e[1], c>>, <<p, e[3], c>>>> :
                    e \in { a \in db.assertion : AssertionMatches(a[2], input, p, c) } }
           S(p, c) == { <<<<p, e[1], c>>, <<p, e[3], c>>>> :
                    e \in { a \in db.assertion : Selection!AssertionMatches(a[2], input, p, c) } }
           C == UNION { { <<<<p, e[1], c>>, <<p + 1, e[3], TRUE>>>> :
                            e \in { f \in db.consuming : input[p + 1] \in f[2] } } :
                        p \in 0..(Len(input) - 1), c \in BOOLEAN }
           UB == UNION { B(p, c) : p \in 0..Len(input), c \in BOOLEAN }
           US == UNION { S(p, c) : p \in 0..Len(input), c \in BOOLEAN }
<1>1. ASSUME NEW p, NEW c PROVE S(p, c) = B(p, c)
    BY SameAssertions
<1>2. US = UB
    <2> HIDE DEF S, B
    <2>1. QED
        BY <1>1
<1>3. ConfigurationStep(db, input) = (A \cup UB) \cup C
    BY DEF ConfigurationStep
<1>4. Selection!ConfigurationStep(db, input) = (A \cup US) \cup C
    BY DEF Selection!ConfigurationStep
<1> HIDE DEF A, UB, US, C
<1>5. QED
    BY <1>2, <1>3, <1>4

\* the configurations reached,
LEMMA SameReached ==
    \A db, root, input, s : Selection!ReachableConfigurations(db, root, input, s)
                            = ReachableConfigurations(db, root, input, s)
<1>1. \A S, edges, seeds, visited :
          Selection!ExtendClosure(S, edges, seeds, visited) = ExtendClosure(S, edges, seeds, visited)
    BY Zenon DEF Selection!ExtendClosure, ExtendClosure
<1>2. QED
    BY <1>1, SameSteps, Zenon DEF Selection!ReachableConfigurations, ReachableConfigurations

\* the longest matches,
LEMMA SameMatches ==
    \A db, root, input, s : Selection!LongestMatches(db, root, input, s)
                            = LongestMatches(db, root, input, s)
<1>1. \A S, db, o : Selection!AcceptedEnds(S, db, o) = AcceptedEnds(S, db, o)
    BY Zenon DEF Selection!AcceptedEnds, AcceptedEnds
<1>2. \A S : Selection!Max(S) = Max(S)
    BY Zenon DEF Selection!Max, Max
<1> SUFFICES ASSUME NEW db, NEW root, NEW input, NEW s
             PROVE  Selection!LongestMatches(db, root, input, s) = LongestMatches(db, root, input, s)
    OBVIOUS
<1> DEFINE ends(o) == AcceptedEnds(ReachableConfigurations(db, root, input, s), db, o)
           same(o) == Selection!AcceptedEnds(Selection!ReachableConfigurations(db, root, input, s), db, o)
<1>3. \A o : same(o) = ends(o)
    BY <1>1, SameReached
<1>4. LongestMatches(db, root, input, s)
      = { <<s, o, Max(ends(o))>> : o \in { q \in Ordinal : ends(q) # {} } }
    BY DEF LongestMatches
<1>5. Selection!LongestMatches(db, root, input, s)
      = { <<s, o, Selection!Max(same(o))>> : o \in { q \in Ordinal : same(q) # {} } }
    BY DEF Selection!LongestMatches
<1> HIDE DEF ends, same
<1>6. QED
    BY <1>2, <1>3, <1>4, <1>5

\* and the orders of a set.
LEMMA SameOrders == \A S : Selection!SetToSeqs(S) = SetToSeqs(S)
BY Zenon DEF Selection!SetToSeqs, SetToSeqs, Selection!Cardinality, Cardinality

LEMMA ReportDelivers == ASSUME Inv, Report PROVE Selection!Deliver(start)
<1>1. /\ job \in Jobs /\ start \in job.starts /\ phase = "report"
      /\ BestIs(best_end, start, Len(Input))
    BY DEF Inv, Report
<1> DEFINE owed == LongestMatches(job.db, job.root, job.input, start)
           delivered == EventsOf(start, best_end, Touched)
<1>2. owed = { <<start, o, best_end[o]>> : o \in Touched }
    BY <1>1, LongestAre DEF Touched
<1>3. Touched \in SUBSET Nat /\ IsFiniteSet(Touched)
    <2>1. Touched \in SUBSET Ordinal
        BY DEF Touched
    <2>2. QED
        BY <2>1, AlphabetAssumption, FS_Subset
<1>4. delivered \in SetToSeqs(owed)
    BY <1>2, <1>3, EventsAre
<1> HIDE DEF owed, delivered
<1>5. delivered \in Selection!SetToSeqs(Selection!LongestMatches(job.db, job.root, job.input, start))
    BY <1>4, SameMatches, SameOrders, Zenon DEF owed
<1>6. events' = events \o delivered /\ remaining' = remaining \ { start } /\ job' = job
    BY DEF Report, delivered
<1>7. QED
    BY <1>5, <1>6 DEF Selection!Deliver

\* Every step of the scan is a delivery or changes nothing the rule speaks of.
LEMMA NextImplements == ASSUME Inv, Next PROVE Selection!Next \/ UNCHANGED <<job, remaining, events>>
<1>1. CASE Report
    <2>1. start \in remaining
        BY <1>1 DEF Inv, Report
    <2>2. QED
        BY <1>1, <2>1, ReportDelivers DEF Selection!Next
<1>2. CASE ~ Report
    BY <1>2 DEF Next, SelectStart, ConsumeUnit, Die, Finish
<1>3. QED
    BY <1>1, <1>2

\* Every event of a scan is a longest match of its start and every longest match is
\* delivered once, start by start, whatever the database, the input and the starts
\* (scan_with_stats against docs/adr/0002-match-event-semantics.md).
THEOREM ScanImplementsSelection == Spec => Selection!Spec
<1>1. Init => Selection!Init
    BY DEF Init, Selection!Init
<1>2. Inv /\ [Next]_scanVars => [Selection!Next]_(Selection!selectionVars)
    <2>1. ASSUME Inv, UNCHANGED scanVars PROVE UNCHANGED Selection!selectionVars
        BY <2>1 DEF scanVars, Selection!selectionVars
    <2>2. QED
        BY <2>1, NextImplements DEF Selection!selectionVars
<1>3. QED
    BY <1>1, <1>2, InvHolds, PTL DEF Spec, Selection!Spec
=============================================================================
