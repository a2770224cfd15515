--------------------------- MODULE NfaScanRefinement ---------------------------
(***************************************************************************)
(* For every database, input, set of starts and either closure: the         *)
(* uncached loops, which reuse one scratch for all units and starts,        *)
(* deliver what the exact scan delivers.                                    *)
(***************************************************************************)
EXTENDS NfaScan, InductionLemmas

-----------------------------------------------------------------------------
(* The inductive invariant: where the scan can be, and that the ordinals to *)
(* be forgotten by the next reset are exactly those with an end.            *)

TypeOK ==
    /\ job \in Jobs
    /\ remaining \subseteq Nat
    /\ phase \in {"select", "scan", "report", "done"}
    /\ position \in Nat
    /\ active \in SUBSET job.db.state
    /\ best_end \in [Ordinal -> Nat]
    /\ touched_ordinals \subseteq Ordinal

TouchedCoversEnds == touched_ordinals = { o \in Ordinal : best_end[o] # NoEnd }

Inv == TypeOK /\ TouchedCoversEnds

-----------------------------------------------------------------------------
(* The operators of one step. *)

\* A closure lists states of its database, with or without assertions.
LEMMA ExtendInStates ==
    ASSUME NEW seeds, NEW p, NEW after_current, NEW seen
    PROVE  Extend(seeds, p, after_current, seen) \subseteq job.db.state
<1>1. \A edges : ExtendClosure(job.db.state, edges, seeds, seen) \subseteq job.db.state
    BY DEF ExtendClosure
<1>2. QED
    BY <1>1 DEF Extend, ExtendEpsilonClosure, ExtendAssertionClosure

\* Terminal lists hold pattern ordinals.
LEMMA TerminalsAreOrdinals ==
    ASSUME job \in Jobs, NEW S \in SUBSET job.db.state
    PROVE  TerminalsOf(job.db, S) \subseteq Ordinal
<1>1. job.db.terminals \in [job.db.state -> SUBSET Ordinal]
    BY JobsAssumption DEF JobShape, Database
<1>2. QED
    BY <1>1 DEF TerminalsOf

\* Whatever ends it recorded, a start begins with none: the touched ordinals are reset
\* and no other has an end (Scratch::reset_start).
LEMMA ResetForgetsAll ==
    ASSUME Inv
    PROVE  ResetTerminals(best_end, touched_ordinals) = [o \in Ordinal |-> NoEnd]
<1>1. \A o \in Ordinal : o \notin touched_ordinals => best_end[o] = NoEnd
    BY DEF Inv, TouchedCoversEnds
<1>2. QED
    BY <1>1 DEF ResetTerminals

-----------------------------------------------------------------------------
(* The invariant is preserved. *)

\* Before the first start nothing is recorded.
LEMMA InitInv == Init => Inv
<1> SUFFICES ASSUME Init PROVE Inv
    OBVIOUS
<1>1. job.starts \subseteq Nat
    <2>1. job.starts \subseteq 0..(Len(job.input) - 1) /\ Len(job.input) \in Nat
        BY JobsAssumption, LenProperties DEF Init, JobShape
    <2>2. QED
        BY <2>1
<1>2. TypeOK
    BY <1>1 DEF Init, TypeOK, NoEnd
<1>3. QED
    BY <1>2 DEF Inv, TouchedCoversEnds, Init, NoEnd

\* A start resets what the one before left behind.
LEMMA SelectStartInv == ASSUME Inv, SelectStart PROVE Inv'
<1>1. start' \in Nat /\ remaining' \subseteq Nat
    BY MinIsMember DEF Inv, TypeOK, SelectStart
<1>2. active' \in SUBSET job'.db.state
    <2>1. active' = Extend({ job.root }, start', FALSE, {}) /\ job' = job
        BY DEF SelectStart, ResetStart
    <2>2. QED
        BY <2>1, ExtendInStates
<1>3. best_end' = [o \in Ordinal |-> NoEnd] /\ touched_ordinals' = {}
    BY ResetForgetsAll DEF SelectStart, ResetStart
<1>4. TypeOK'
    BY <1>1, <1>2, <1>3 DEF Inv, TypeOK, SelectStart, NoEnd
<1>5. QED
    BY <1>3, <1>4 DEF Inv, TouchedCoversEnds

\* A unit records its end, which is not zero, for every ordinal it touches.
LEMMA ConsumeUnitInv == ASSUME Inv, ConsumeUnit PROVE Inv'
<1> DEFINE reached == Extend(ConsumingTargets(job.db, active, job.input[position + 1]),
                             position + 1, TRUE, {})
           accepted == TerminalsOf(job.db, reached)
<1>1. /\ active' = reached /\ job' = job /\ remaining' = remaining
      /\ best_end' = RecordTerminals(best_end, accepted, position + 1)
      /\ touched_ordinals' = touched_ordinals \cup accepted
    BY DEF ConsumeUnit, ResetNext
<1>2. reached \in SUBSET job.db.state
    BY ExtendInStates
<1>3. accepted \subseteq Ordinal
    BY <1>2, TerminalsAreOrdinals DEF Inv, TypeOK
<1> HIDE DEF reached, accepted
<1>4. position' \in Nat /\ phase' \in {"select", "scan", "report", "done"}
    <2>1. /\ position' \in { position, position + 1 } /\ position \in Nat
          /\ phase' \in { "report", "scan" }
        BY DEF Inv, TypeOK, ConsumeUnit
    <2>2. QED
        BY <2>1
<1>5. best_end' \in [Ordinal -> Nat]
    BY <1>1 DEF Inv, TypeOK, RecordTerminals
<1>6. TypeOK'
    BY <1>1, <1>2, <1>3, <1>4, <1>5 DEF Inv, TypeOK
<1>7. touched_ordinals' = { o \in Ordinal : best_end'[o] # NoEnd }
    BY <1>1, <1>3 DEF Inv, TypeOK, TouchedCoversEnds, RecordTerminals, NoEnd
<1>8. QED
    BY <1>6, <1>7 DEF Inv, TouchedCoversEnds

\* The remaining steps leave the scratch alone.
LEMMA ReportInv == ASSUME Inv, Report PROVE Inv'
BY DEF Inv, TypeOK, TouchedCoversEnds, Report

\* The end of the scan changes no scratch.
LEMMA FinishInv == ASSUME Inv, Finish PROVE Inv'
BY DEF Inv, TypeOK, TouchedCoversEnds, Finish

\* The invariant holds throughout.
LEMMA InvHolds == Spec => []Inv
<1>1. Inv /\ [Next]_nfaVars => Inv'
    <2> SUFFICES ASSUME Inv, [Next]_nfaVars PROVE Inv'
        OBVIOUS
    <2>1. CASE UNCHANGED nfaVars
        BY <2>1 DEF Inv, TypeOK, TouchedCoversEnds, nfaVars
    <2>2. QED
        BY <2>1, SelectStartInv, ConsumeUnitInv, ReportInv, FinishInv DEF Next
<1>2. QED
    BY <1>1, InitInv, PTL DEF Spec

\* The list of touched ordinals is what reset_terminals relies on: it names exactly the
\* ordinals with an end, at every point of every scan (Scratch, engine.rs).
THEOREM TouchedListIsComplete == Spec => []TouchedCoversEnds
<1>1. Inv => TouchedCoversEnds
    BY DEF Inv
<1>2. QED
    BY <1>1, InvHolds, PTL

-----------------------------------------------------------------------------
(* The exact scan is instantiated with this module's constants, so each of  *)
(* its operators is the operator of the same name here.                     *)

\* The closure the loop takes, from a list of marks just cleared, is the exact one.
LEMMA SameClosure ==
    \A seeds, p, after_current :
        Exact!Closure(seeds, p, after_current) = Extend(seeds, p, after_current, {})
<1>1. \A states, edges, seeds, visited :
          Exact!ExtendClosure(states, edges, seeds, visited)
            = ExtendClosure(states, edges, seeds, visited)
    BY DEF Exact!ExtendClosure, ExtendClosure
<1>2. \A db, seeds, visited :
          Exact!ExtendEpsilonClosure(db, seeds, visited) = ExtendEpsilonClosure(db, seeds, visited)
    BY <1>1 DEF Exact!ExtendEpsilonClosure, ExtendEpsilonClosure
<1>3. \A input, p : Exact!IsWordBoundary(input, p) = IsWordBoundary(input, p)
    BY DEF Exact!IsWordBoundary, IsWordBoundary, Exact!IsWordAt, IsWordAt
<1>4. \A a, input, p, after_current :
          Exact!AssertionMatches(a, input, p, after_current)
            = AssertionMatches(a, input, p, after_current)
    BY <1>3 DEF Exact!AssertionMatches, AssertionMatches
<1>5. \A db, input, p, after_current :
          Exact!FollowsWithoutConsuming(db, input, p, after_current)
            = FollowsWithoutConsuming(db, input, p, after_current)
    BY <1>4 DEF Exact!FollowsWithoutConsuming, FollowsWithoutConsuming
<1>6. \A db, input, p, after_current, seeds, visited :
          Exact!ExtendAssertionClosure(db, input, p, after_current, seeds, visited)
            = ExtendAssertionClosure(db, input, p, after_current, seeds, visited)
    BY <1>1, <1>5 DEF Exact!ExtendAssertionClosure, ExtendAssertionClosure
<1>7. QED
    BY <1>2, <1>6 DEF Exact!Closure, Extend

\* The targets of the consuming edges,
LEMMA SameTargets ==
    \A db, source, a : Exact!ConsumingTargets(db, source, a) = ConsumingTargets(db, source, a)
BY DEF Exact!ConsumingTargets, ConsumingTargets

\* the ordinals a state set accepts,
LEMMA SameTerminals ==
    \A db, S : Exact!TerminalsOf(db, S) = TerminalsOf(db, S)
BY DEF Exact!TerminalsOf, TerminalsOf

\* what recording an end does,
LEMMA SameRecord ==
    \A best, ordinals, end :
        Exact!RecordTerminals(best, ordinals, end) = RecordTerminals(best, ordinals, end)
BY DEF Exact!RecordTerminals, RecordTerminals

\* the events of a start,
LEMMA SameEvents ==
    \A s, best, touched : Exact!EventsOf(s, best, touched) = EventsOf(s, best, touched)
BY DEF Exact!EventsOf, EventsOf, Exact!Ascending, Ascending, Exact!Cardinality, Cardinality

\* and the choice of the next start.
LEMMA SameMin == \A S : Exact!Min(S) = Min(S)
BY DEF Exact!Min, Min

-----------------------------------------------------------------------------
(* Each step is a step of the exact scan. *)

\* The set of live states, as the exact scan sees it.
Live == IF phase = "scan" THEN active ELSE {}

\* The root's closure, and no ends.
LEMMA SelectStartImplements == ASSUME Inv, SelectStart PROVE Exact!SelectStart
<1>1. Live' = Exact!Closure({ job.root }, start', FALSE)
    BY SameClosure DEF Live, SelectStart, ResetStart
<1>2. best_end' = [o \in Ordinal |-> Exact!NoEnd]
    BY ResetForgetsAll DEF SelectStart, ResetStart, NoEnd, Exact!NoEnd
<1>3. QED
    BY <1>1, <1>2, SameMin DEF SelectStart, Exact!SelectStart, Live

\* A unit into a nonempty set, or into none.
LEMMA ConsumeUnitImplements ==
    ASSUME Inv, ConsumeUnit
    PROVE  Exact!ConsumeUnit \/ Exact!Die
<1> DEFINE reached == Extend(ConsumingTargets(job.db, active, job.input[position + 1]),
                             position + 1, TRUE, {})
<1>1. Exact!Successor(Live) = reached
    BY SameClosure, SameTargets DEF Exact!Successor, Live, ConsumeUnit
<1>2. /\ phase = "scan"
      /\ active' = reached
      /\ best_end' = RecordTerminals(best_end, TerminalsOf(job.db, reached), position + 1)
      /\ position' = IF reached = {} THEN position ELSE position + 1
      /\ phase' = IF reached = {} \/ position + 1 = Len(job.input) THEN "report" ELSE "scan"
      /\ UNCHANGED << job, remaining, start, events >>
    BY DEF ConsumeUnit, ResetNext
<1> HIDE DEF reached
<1>3. CASE reached = {}
    <2>1. TerminalsOf(job.db, reached) = {}
        BY <1>3 DEF TerminalsOf
    <2>2. best_end' = best_end
        BY <1>2, <2>1 DEF RecordTerminals, Inv, TypeOK
    <2>3. phase' = "report" /\ Live' = {}
        BY <1>2, <1>3 DEF Live
    <2>4. Exact!Die
        BY <1>1, <1>2, <1>3, <2>2, <2>3 DEF Exact!Die, Live
    <2>5. QED
        BY <2>4
<1>4. CASE reached # {}
    <2>1. /\ phase' = Exact!PhaseAfterUnit /\ position' = position + 1
          /\ Live' = IF phase' = "scan" THEN reached ELSE {}
        BY <1>2, <1>4 DEF Live, Exact!PhaseAfterUnit
    <2>2. best_end' = Exact!RecordTerminals(best_end, Exact!TerminalsOf(job.db, reached),
                                            position + 1)
        BY <1>2, SameRecord, SameTerminals
    <2>3. Exact!ConsumeUnit
        BY <1>1, <1>2, <1>4, <2>1, <2>2 DEF Exact!ConsumeUnit, Live
    <2>4. QED
        BY <2>3
<1>5. QED
    BY <1>3, <1>4

\* The touched ordinals are those with an end, so the events are the same.
LEMMA ReportImplements == ASSUME Inv, Report PROVE Exact!Report
<1>1. touched_ordinals = Exact!Touched
    BY DEF Inv, TouchedCoversEnds, Exact!Touched, NoEnd, Exact!NoEnd
<1>2. QED
    BY <1>1, SameEvents DEF Report, Exact!Report

\* The loop ends when no start is left, as the exact scan does.
LEMMA FinishImplements == ASSUME Inv, Finish PROVE Exact!Finish
BY DEF Finish, Exact!Finish

\* Reused buffers never change an answer: for every database, input, set of starts and
\* either closure, the uncached loops of engine.rs implement the exact scan.
THEOREM NfaScanImplementsScan == Spec => Exact!Spec
<1>1. Init => Exact!Init
    BY DEF Init, Exact!Init, NoEnd, Exact!NoEnd
<1>2. Inv /\ [Next]_nfaVars => [Exact!Next]_(Exact!scanVars)
    <2> SUFFICES ASSUME Inv, [Next]_nfaVars PROVE [Exact!Next]_(Exact!scanVars)
        OBVIOUS
    <2>1. CASE UNCHANGED nfaVars
        BY <2>1 DEF nfaVars, Exact!scanVars
    <2>2. CASE Next
        BY <2>2, SelectStartImplements, ConsumeUnitImplements, ReportImplements,
           FinishImplements DEF Next, Exact!Next
    <2>3. QED
        BY <2>1, <2>2
<1>3. QED
    BY <1>1, <1>2, InvHolds, PTL DEF Spec, Exact!Spec

-----------------------------------------------------------------------------
(* Through the exact scan, the engine delivers what the match-event rule     *)
(* asks for.                                                                  *)

Rule == INSTANCE ScanProof WITH live <- IF phase = "scan" THEN active ELSE {}

\* Rule, too, has this module's own operators: its assumptions are those made here,
LEMMA RuleFinite == \A S : Rule!IsFiniteSet(S) <=> IsFiniteSet(S)
BY Zenon DEF Rule!IsFiniteSet, IsFiniteSet

LEMMA RuleJobs == \A j \in Jobs : Rule!JobShape(j)
<1>1. \A S, edges, seeds, visited :
          Rule!ExtendClosure(S, edges, seeds, visited) = ExtendClosure(S, edges, seeds, visited)
    BY Zenon DEF Rule!ExtendClosure, ExtendClosure
<1>2. \A db, root : Rule!NoneAsserted(db, root) <=> NoneAsserted(db, root)
    BY <1>1, Zenon DEF Rule!NoneAsserted, NoneAsserted, Rule!PlainEdges, PlainEdges
<1>3. \A S : Rule!Database(S) = Database(S)
    BY DEF Rule!Database, Database, Rule!Assertion, Assertion
<1>4. QED
    BY <1>2, <1>3, RuleFinite, JobsAssumption, Zenon DEF Rule!JobShape, JobShape

LEMMA RuleImplementsSelection == Rule!Spec => Rule!Selection!Spec
BY Rule!ScanImplementsSelection, RuleFinite, RuleJobs, AlphabetAssumption

\* and its steps are those of the exact scan.
LEMMA RuleClosure ==
    \A seeds, p, c : Exact!Closure(seeds, p, c) = Rule!Closure(seeds, p, c)
<1>1. \A S, edges, seeds, visited :
          Exact!ExtendClosure(S, edges, seeds, visited) = Rule!ExtendClosure(S, edges, seeds, visited)
    BY Zenon DEF Exact!ExtendClosure, Rule!ExtendClosure
<1>2. \A db, seeds, visited :
          Exact!ExtendEpsilonClosure(db, seeds, visited) = Rule!ExtendEpsilonClosure(db, seeds, visited)
    BY <1>1, Zenon DEF Exact!ExtendEpsilonClosure, Rule!ExtendEpsilonClosure
<1>3. \A a, input, p, c :
          Exact!AssertionMatches(a, input, p, c) = Rule!AssertionMatches(a, input, p, c)
    BY Zenon DEF Exact!AssertionMatches, Rule!AssertionMatches, Exact!IsWordBoundary,
                 Rule!IsWordBoundary, Exact!IsWordAt, Rule!IsWordAt
<1>4. \A db, input, p, c :
          Exact!FollowsWithoutConsuming(db, input, p, c) = Rule!FollowsWithoutConsuming(db, input, p, c)
    BY <1>3 DEF Exact!FollowsWithoutConsuming, Rule!FollowsWithoutConsuming
<1>5. QED
    BY <1>1, <1>2, <1>4, Zenon
    DEF Exact!Closure, Rule!Closure, Exact!ExtendAssertionClosure, Rule!ExtendAssertionClosure

LEMMA RuleNext ==
    /\ Exact!Init => Rule!Init
    /\ Exact!Next => Rule!Next
    /\ Exact!scanVars = Rule!scanVars
<1>1. \A S : Exact!Min(S) = Rule!Min(S)
    BY Zenon DEF Exact!Min, Rule!Min
<1>2. Exact!NoEnd = Rule!NoEnd
    BY Zenon DEF Exact!NoEnd, Rule!NoEnd
<1>3. \A S : Exact!Successor(S) = Rule!Successor(S)
    BY RuleClosure, Zenon
    DEF Exact!Successor, Rule!Successor, Exact!ConsumingTargets, Rule!ConsumingTargets
<1>4. \A best, ordinals, end :
          Exact!RecordTerminals(best, ordinals, end) = Rule!RecordTerminals(best, ordinals, end)
    BY Zenon DEF Exact!RecordTerminals, Rule!RecordTerminals
<1>5. \A db, S : Exact!TerminalsOf(db, S) = Rule!TerminalsOf(db, S)
    BY Zenon DEF Exact!TerminalsOf, Rule!TerminalsOf
<1>6. \A s, best, touched : Exact!EventsOf(s, best, touched) = Rule!EventsOf(s, best, touched)
    BY Zenon DEF Exact!EventsOf, Rule!EventsOf, Exact!Ascending, Rule!Ascending,
                 Exact!Cardinality, Rule!Cardinality
<1>7. Exact!Touched = Rule!Touched
    BY <1>2, Zenon DEF Exact!Touched, Rule!Touched
<1>8. Exact!SelectStart => Rule!SelectStart
    BY <1>1, <1>2, RuleClosure DEF Exact!SelectStart, Rule!SelectStart
<1>9. Exact!ConsumeUnit => Rule!ConsumeUnit
    BY <1>3, <1>4, <1>5
    DEF Exact!ConsumeUnit, Rule!ConsumeUnit, Exact!PhaseAfterUnit, Rule!PhaseAfterUnit
<1>10. Exact!Die => Rule!Die
    BY <1>3 DEF Exact!Die, Rule!Die
<1>11. Exact!Report => Rule!Report
    BY <1>6, <1>7 DEF Exact!Report, Rule!Report
<1>12. Exact!Finish => Rule!Finish
    BY DEF Exact!Finish, Rule!Finish
<1>13. Exact!Init => Rule!Init
    BY <1>2 DEF Exact!Init, Rule!Init
<1>14. Exact!scanVars = Rule!scanVars
    BY DEF Exact!scanVars, Rule!scanVars
<1>15. QED
    BY <1>8, <1>9, <1>10, <1>11, <1>12, <1>13, <1>14 DEF Exact!Next, Rule!Next

\* Whatever the patterns compile to, the input and the starts: each start the uncached
\* loops scan delivers its longest matches, each once, and nothing else
\* (docs/adr/0002-match-event-semantics.md).
THEOREM NfaScanImplementsSelection == Spec => Rule!Selection!Spec
<1>1. Exact!Spec => Rule!Spec
    <2>1. [Exact!Next]_(Exact!scanVars) => [Rule!Next]_(Rule!scanVars)
        BY RuleNext DEF Exact!scanVars, Rule!scanVars
    <2>2. QED
        BY <2>1, RuleNext, PTL DEF Exact!Spec, Rule!Spec
<1>2. QED
    BY <1>1, NfaScanImplementsScan, RuleImplementsSelection, PTL
=============================================================================
