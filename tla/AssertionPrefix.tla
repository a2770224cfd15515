--------------------------- MODULE AssertionPrefix ----------------------------
(***************************************************************************)
(* The experimental matcher of sets whose assertion patterns share a        *)
(* literal prefix (rustmatch/src/experimental/assertion_prefix_v1.rs over   *)
(* rustmatch/src/api/cohort_view_runtime.rs): building it, with the static  *)
(* proof that the prefix is shared, and scanning under a policy.  One       *)
(* database has two roots, and a scan visits one after the other.           *)
(*                                                                          *)
(* The builder leaves the two prefilter switches on.  The starts of a view  *)
(* are scanned in one step: Scan has the inner loop.  An Option is a set    *)
(* with at most one member.                                                 *)
(***************************************************************************)
EXTENDS PatternDatabase

CONSTANTS
    PatternSets,       \* the pattern lists built from
    Texts,             \* the inputs
    HasAssertions(_),  \* whether an expression holds an assertion
    CompileOf(_, _, _, _), \* compile_pattern: a compilation with one more expression in it,
                       \* given its ordinal and the root it hangs below
    PrefixSymbol,      \* the units 1..127
    PrefixLength,      \* five units
    MinPatternCount,   \* MIN_LITERAL_PATTERN_COUNT
    MinInput,          \* MIN_LITERAL_INPUT_UNITS
    SampleLength       \* DENSITY_SAMPLE_UNITS

\* The compilations of the first patterns of a list, each pattern below a root.
Compilations(list, roots, root_of) ==
    LET compiled_to[n \in 0..Len(list)] ==
          IF n = 0 THEN EmptyCompilation(roots)
          ELSE CompileOf(compiled_to[n - 1], list[n], n - 1, root_of[n])
    IN  compiled_to

\* compile, for the ordinary matcher, and compile_shared_cohorts.
RootOf(e) == IF HasAssertions(e) THEN AssertionBearingRoot ELSE AssertionFreeRoot
OrdinaryCompilations(list) == Compilations(list, 1, [n \in 1..Len(list) |-> 0])
SharedCompilations(list) == Compilations(list, 2, [n \in 1..Len(list) |-> RootOf(list[n])])

\* strict_assertion_ascii_five: assertions, one at least, then nothing but symbols.
StrictPrefix(e) ==
    LET leading == { i \in DOMAIN e.items : \A j \in 1..i :
                        e.items[j].kind \in {"Assertion", "Epsilon"} }
        item(i) == e.items[Cardinality(leading) + i]
    IN  IF /\ e.kind = "Sequence"
           /\ \E i \in leading : e.items[i].kind = "Assertion"
           /\ Cardinality(leading) + PrefixLength <= Len(e.items)
           /\ \A i \in 1..PrefixLength :
                item(i).kind = "Symbol" /\ item(i).symbol \in PrefixSymbol
        THEN { [i \in 1..PrefixLength |-> item(i).symbol] }
        ELSE {}

-----------------------------------------------------------------------------
(* What the compiler does with one expression.  It works between two states *)
(* it adds, wherever they come to lie, and adds what else it needs.         *)

\* An expression by itself: state 0 is the root, 1 the first state, 2 the terminal.
Fragment(e) == CompileOf(EmptyCompilation(1), e, 0, 0)

IsFragment(f) ==
    LET inner == 1..(f.graph.size - 1)
    IN  /\ f.graph.size \in Nat /\ f.graph.size >= 3
        /\ << 0, 1 >> \in f.graph.epsilon
        /\ f.graph.epsilon \ { << 0, 1 >> } \subseteq inner \X inner
        /\ f.graph.assertion \subseteq inner \X Assertion \X inner
        /\ f.graph.consuming \subseteq inner \X (SUBSET Symbol) \X inner
        /\ f.terminals = [q \in {2} |-> {0}]

\* A compilation with a fragment put behind its states.
PlaceOf(q, size, root) == IF q = 0 THEN root ELSE (size + q) - 1

Placed(built, f, ordinal, root) ==
    LET size == built.graph.size
        at(q) == PlaceOf(q, size, root)
    IN  [graph |->
            [size |-> (size + f.graph.size) - 1,
             epsilon |-> built.graph.epsilon
                            \cup { << at(e[1]), at(e[2]) >> : e \in f.graph.epsilon },
             assertion |-> built.graph.assertion
                            \cup { << at(e[1]), e[2], at(e[3]) >> : e \in f.graph.assertion },
             consuming |-> built.graph.consuming
                            \cup { << at(e[1]), e[2], at(e[3]) >> : e \in f.graph.consuming }],
         terminals |->
            [q \in DOMAIN built.terminals \cup { at(2) } |->
                IF q = at(2) THEN { ordinal } ELSE built.terminals[q]]]

\* Whatever leads from the first state to the terminal shows the units of a prefix first:
\* every state has its place in the prefix or lies behind it.
Requires(f, units) ==
    \E level \in [1..(f.graph.size - 1) -> 0..Len(units)] :
        /\ level[1] = 0 /\ level[2] = Len(units)
        /\ \A e \in f.graph.epsilon \ { << 0, 1 >> } : level[e[2]] = level[e[1]]
        /\ \A e \in f.graph.assertion : level[e[3]] = level[e[1]]
        /\ \A e \in f.graph.consuming :
              IF level[e[1]] = Len(units) THEN level[e[3]] = Len(units)
              ELSE level[e[3]] = level[e[1]] + 1 /\ e[2] = { units[level[e[1]] + 1] }

ASSUME PrefixAssumption ==
    /\ PrefixSymbol \subseteq Symbol
    /\ PrefixLength \in Nat \ {0} /\ MinPatternCount \in Nat \ {0}
    /\ MinInput \in Nat \ {0} /\ SampleLength \in Nat \ {0}
    /\ Texts \subseteq Seq(Symbol)

\* What the proofs take from the compiler, for every pattern of every list: it puts a
\* pattern's own fragment behind the states there are, wherever that is, and below the
\* root it is given; and what a strict prefix says of an expression holds of its fragment.
ASSUME CompilerAssumption ==
    \A list \in PatternSets :
        /\ Len(list) \in Nat /\ 0..(Len(list) - 1) \subseteq Ordinal
        /\ \A n \in 1..Len(list) :
              LET e == list[n]
                  ordinary == OrdinaryCompilations(list)
                  shared == SharedCompilations(list)
              IN  /\ IsFragment(Fragment(e))
                  /\ \A units \in StrictPrefix(e) : Requires(Fragment(e), units)
                  /\ ordinary[n] = Placed(ordinary[n - 1], Fragment(e), n - 1, 0)
                  /\ shared[n] = Placed(shared[n - 1], Fragment(e), n - 1, RootOf(e))

VARIABLES
    patterns,
    stage,             \* compile, ineligible, ready, preflight, free, plan, bearing,
                       \* deliver, ended
    built,             \* the compilation in progress, then the shared database
    compiled,          \* how many patterns it holds
    bearing_count,     \* assertion_bearing_pattern_count
    prefix,            \* assertion_ascii_five, an Option
    prefix_possible,
    input, policy,     \* of the call
    events,            \* buffered by the two views
    decision,          \* None until the plan of the bearing view
    candidates,        \* its bitmap
    delivered,         \* the events the sink was called with
    outcome            \* of the build, then of the call

matcherVars == <<patterns, built, compiled, bearing_count, prefix, prefix_possible>>
argumentVars == <<input, policy>>
callVars == <<argumentVars, events, decision, candidates, delivered, outcome>>
prefixVars == <<matcherVars, stage, callVars>>

None == "none"

-----------------------------------------------------------------------------
(* Building: the loop of compile_shared_cohorts, then the static proof. *)

\* Mutant of NotePrefix: after a pattern that does not fit, the search begins anew.
NotePrefixAnew(e) ==
    LET fits == StrictPrefix(e) # {} /\ prefix \subseteq StrictPrefix(e)
    IN  /\ prefix' = IF fits THEN StrictPrefix(e) ELSE {}
        /\ UNCHANGED prefix_possible

\* A pattern that does not fit gives up the prefix for good.
NotePrefix(e) ==
    LET fits == /\ prefix_possible
                /\ StrictPrefix(e) # {} /\ prefix \subseteq StrictPrefix(e)
    IN  /\ prefix' = IF fits THEN StrictPrefix(e) ELSE {}
        /\ prefix_possible' = fits

PrefixInit ==
    /\ patterns \in PatternSets
    /\ stage = "compile"
    /\ built = EmptyCompilation(2) /\ compiled = 0
    /\ bearing_count = 0 /\ prefix = {} /\ prefix_possible = TRUE
    /\ input = <<>> /\ policy = None
    /\ events = <<>> /\ decision = None /\ candidates = {} /\ delivered = <<>>
    /\ outcome = None

CompileFree ==
    /\ stage = "compile" /\ compiled < Len(patterns)
    /\ ~ HasAssertions(patterns[compiled + 1])
    /\ built' = CompileOf(built, patterns[compiled + 1], compiled, AssertionFreeRoot)
    /\ compiled' = compiled + 1
    /\ UNCHANGED <<patterns, stage, bearing_count, prefix, prefix_possible, callVars>>

CompileBearing ==
    /\ stage = "compile" /\ compiled < Len(patterns)
    /\ HasAssertions(patterns[compiled + 1])
    /\ bearing_count' = bearing_count + 1
    /\ NotePrefix(patterns[compiled + 1])
    /\ built' = CompileOf(built, patterns[compiled + 1], compiled, AssertionBearingRoot)
    /\ compiled' = compiled + 1
    /\ UNCHANGED <<patterns, stage, callVars>>

Compiled == stage = "compile" /\ compiled = Len(patterns)

Ineligible ==
    /\ Compiled
    /\ bearing_count < MinPatternCount \/ prefix = {}
    /\ outcome' = IF bearing_count = 0 THEN "NoAssertionBearingPatterns"
                  ELSE IF bearing_count < MinPatternCount
                  THEN "TooFewAssertionBearingPatterns"
                  ELSE "NoSharedFiveUnitAsciiPrefix"
    /\ stage' = "ineligible"
    /\ UNCHANGED <<matcherVars, argumentVars, events, decision, candidates, delivered>>

FinishBuild ==
    /\ Compiled
    /\ bearing_count >= MinPatternCount /\ prefix # {}
    /\ stage' = "ready"
    /\ UNCHANGED <<matcherVars, callVars>>

-----------------------------------------------------------------------------
(* scan_with_policy.  The matcher is immutable: one call stands for any. *)

ScanWithPolicy(text, requested) ==
    /\ stage = "ready"
    /\ input' = text /\ policy' = requested
    /\ stage' = IF requested = "RequireSpecialized" THEN "preflight" ELSE "free"
    /\ UNCHANGED <<matcherVars, events, decision, candidates, delivered, outcome>>

\* scan_assertion_prefix: the starts from one up to another that show the prefix.
ScanPrefix(from, to) ==
    { s \in from..(to - 1) : /\ s + PrefixLength <= Len(input)
                             /\ SubSeq(input, s + 1, s + PrefixLength) \in prefix }

SampleEnd == Min({ Len(input), SampleLength })

\* Mutant of PreflightDecision: a sample that is exactly half full passes.
PreflightDecisionStrict ==
    IF Len(input) < MinInput THEN "InputSize"
    ELSE IF 2 * Cardinality(ScanPrefix(0, SampleEnd)) > SampleEnd THEN "DenseSample"
    ELSE "Activated"

\* preflight_assertion_prefix; the plan decides by code of its own.
PreflightDecision ==
    IF Len(input) < MinInput THEN "InputSize"
    ELSE IF 2 * Cardinality(ScanPrefix(0, SampleEnd)) >= SampleEnd THEN "DenseSample"
    ELSE "Activated"

Preflight ==
    /\ stage = "preflight"
    /\ PreflightDecision = "Activated"
    /\ stage' = "free"
    /\ UNCHANGED <<matcherVars, callVars>>

Refuse ==
    /\ stage = "preflight"
    /\ PreflightDecision # "Activated"
    /\ stage' = "ended"
    /\ outcome' = "SpecializationUnavailable"
    /\ UNCHANGED <<matcherVars, argumentVars, events, decision, candidates, delivered>>

\* What the engine reports from a root for some starts: by start, then by ordinal.
AllStarts == 0..(Len(input) - 1)
Comes(x, y) == x[1] < y[1] \/ (x[1] = y[1] /\ x[2] < y[2])
InOrder(S) ==
    [i \in 1..Cardinality(S) |->
        CHOOSE x \in S : Cardinality({ y \in S : Comes(y, x) }) = i - 1]
EventsFrom(root, starts) ==
    InOrder(UNION { LongestMatches(Freeze(built), root, input, s) : s \in starts })

\* The view without assertions; its prefilter is disabled.
ScanFreeView ==
    /\ stage = "free"
    /\ events' = EventsFrom(AssertionFreeRoot, AllStarts)
    /\ stage' = "plan"
    /\ UNCHANGED <<matcherVars, argumentVars, decision, candidates, delivered, outcome>>

\* plan_assertion_prefix: every start, because the input is short ...
PlanInputSize ==
    /\ stage = "plan"
    /\ Len(input) < MinInput
    /\ decision' = "InputSize"
    /\ stage' = "bearing"
    /\ UNCHANGED <<matcherVars, argumentVars, events, candidates, delivered, outcome>>

Sample == ScanPrefix(0, SampleEnd)

\* ... or the sample dense ...
PlanDense ==
    /\ stage = "plan"
    /\ Len(input) >= MinInput
    /\ Cardinality(Sample) * 2 >= SampleEnd
    /\ decision' = "DenseSample"
    /\ stage' = "bearing"
    /\ UNCHANGED <<matcherVars, argumentVars, events, candidates, delivered, outcome>>

\* ... or the sample's candidates and those after it.
PlanCandidates ==
    /\ stage = "plan"
    /\ Len(input) >= MinInput
    /\ Cardinality(Sample) * 2 < SampleEnd
    /\ candidates' = Sample \cup ScanPrefix(SampleEnd, Len(input))
    /\ decision' = "Activated"
    /\ stage' = "bearing"
    /\ UNCHANGED <<matcherVars, argumentVars, events, delivered, outcome>>

\* The view with assertions.  The policy is consulted again before any callback.
ScanBearingView ==
    /\ stage = "bearing"
    /\ events' = events \o EventsFrom(AssertionBearingRoot,
                                      IF decision = "Activated" THEN candidates ELSE AllStarts)
    /\ IF policy = "RequireSpecialized" /\ decision # "Activated"
       THEN stage' = "ended" /\ outcome' = "SpecializationUnavailable"
       ELSE stage' = "deliver" /\ UNCHANGED outcome
    /\ UNCHANGED <<matcherVars, argumentVars, decision, candidates, delivered>>

\* A view's scan may return an error; what was buffered is dropped with it.
ViewFails ==
    /\ stage \in {"free", "bearing"}
    /\ stage' = "ended"
    /\ outcome' = "Matcher"
    /\ UNCHANGED <<matcherVars, argumentVars, events, decision, candidates, delivered>>

\* One callback.
Deliver ==
    /\ stage = "deliver"
    /\ Len(delivered) < Len(events)
    /\ delivered' = Append(delivered, events[Len(delivered) + 1])
    /\ UNCHANGED <<matcherVars, argumentVars, events, decision, candidates>>

CallbackReturns == Deliver /\ UNCHANGED <<stage, outcome>>

\* A panic of the callback passes through the call.
CallbackPanics == Deliver /\ stage' = "ended" /\ outcome' = "panic"

Report ==
    /\ stage = "deliver"
    /\ Len(delivered) = Len(events)
    /\ outcome' = IF decision = "Activated" THEN "AssertionPrefixV1" ELSE "GenericExactFallback"
    /\ stage' = "ended"
    /\ UNCHANGED <<matcherVars, argumentVars, events, decision, candidates, delivered>>

PrefixNext ==
    \/ CompileFree \/ CompileBearing \/ Ineligible \/ FinishBuild
    \/ /\ stage = "ready"
       /\ \E text \in Texts, requested \in {"RequireSpecialized", "AllowExactFallback"} :
            ScanWithPolicy(text, requested)
    \/ Preflight \/ Refuse \/ ScanFreeView
    \/ PlanInputSize \/ PlanDense \/ PlanCandidates \/ ScanBearingView \/ ViewFails
    \/ CallbackReturns \/ CallbackPanics \/ Report

PrefixSpec == PrefixInit /\ [][PrefixNext]_prefixVars

-----------------------------------------------------------------------------
(* Properties *)

\* What an ordinary matcher of the same patterns owes: one root, every start.
OrdinaryEvents ==
    LET database == Freeze(OrdinaryCompilations(patterns)[Len(patterns)])
    IN  UNION { LongestMatches(database, database.root, input, s) : s \in AllStarts }

\* "Match semantics are identical to Matcher::scan" (assertion_prefix_v1.rs:352): a call
\* that reports has delivered each event of the ordinary matcher once, whichever backend
\* ran; one that a callback cut short has delivered no other event, and none twice.
EventsAreTheOrdinaryOnes ==
    delivered # <<>> \/ outcome \in {"AssertionPrefixV1", "GenericExactFallback"} =>
        /\ ToSet(events) = OrdinaryEvents
        /\ Len(events) = Cardinality(OrdinaryEvents)
        /\ delivered = SubSeq(events, 1, Len(delivered))
        /\ outcome # "panic" /\ stage = "ended" => delivered = events

\* A refusal comes before any generic work and any callback, although preflight and
\* plan decide by separate code: the policy is never found unmet after the views were
\* scanned.  A call that requires the specialization is never handled without it, and an
\* engine error of either view comes before any callback too.
RefusedBeforeScanning ==
    /\ outcome = "SpecializationUnavailable" =>
         policy = "RequireSpecialized" /\ decision = None /\ delivered = <<>>
    /\ outcome = "Matcher" => delivered = <<>>
    /\ outcome = "GenericExactFallback" => policy = "AllowExactFallback"
=============================================================================
