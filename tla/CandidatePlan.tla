---------------------------- MODULE CandidatePlan -----------------------------
(***************************************************************************)
(* The prefilter of one partition (rustmatch/src/prefilter.rs): compiling   *)
(* it from the partition's patterns and database, and choosing the starts   *)
(* of one scan.  ScanJob takes any set of starts; here is where they come   *)
(* from, and the property is that no start with a match is left out.        *)
(*                                                                          *)
(* An Option is a set with at most one member.                              *)
(***************************************************************************)
EXTENDS PatternDatabase, LiteralFilter

CONSTANTS
    PatternSets,       \* the pattern lists of a partition
    Texts,             \* the inputs
    DatabaseOf(_),     \* what a list compiles to
    HasAssertions(_),  \* whether an expression holds an assertion
    HintOf(_),         \* necessary_prefix: the units found at the beginning of an expression
    MinPatternCount,   \* MIN_LITERAL_PATTERN_COUNT
    MinInput,          \* MIN_LITERAL_INPUT_UNITS
    DensitySample      \* DENSITY_SAMPLE_UNITS

\* The symbols are UTF-16 units; a database has its own states, and its ordinals are
\* those of its patterns.
ASSUME PlanAssumption ==
    /\ Ascii \subseteq Symbol
    /\ MinInput \in Nat \ {0} /\ DensitySample \in Nat \ {0}
    /\ Texts \subseteq Seq(Symbol)
    /\ \A list \in PatternSets :
          /\ Len(list) \in Nat
          /\ \A i \in 1..Len(list) : HintOf(list[i]) \in Seq(Symbol)
          /\ DatabaseOf(list) \in Database(DatabaseOf(list).state)
          /\ IsFiniteSet(DatabaseOf(list).state)
          /\ DatabaseOf(list).root \in DatabaseOf(list).state
          /\ (\E i \in DOMAIN list : HasAssertions(list[i])) \/ DatabaseOf(list).assertion = {}
          /\ \A s \in DatabaseOf(list).state :
                DatabaseOf(list).terminals[s] \subseteq 0..(Len(list) - 1)

-----------------------------------------------------------------------------
(* The start table: the first unit, and the first two, of any match. *)

EpsilonClosureInto(db, seeds) == ExtendEpsilonClosure(db, seeds, {})
TransitionInto(db, source, symbol) ==
    EpsilonClosureInto(db, ConsumingTargets(db, source, symbol))

\* Mutant of Continues: a match that ends after its first unit is forgotten.
ContinuesBeyond(db, states, second) == TransitionInto(db, states, second) # {}

\* Whether the states behind a first unit allow a second one after it.
Continues(db, states, second) ==
    \/ TerminalsOf(db, states) # {}
    \/ TransitionInto(db, states, second) # {}

StartTable(db) ==
    LET after == [a \in Ascii |-> TransitionInto(db, EpsilonClosureInto(db, { db.root }), a)]
        first == { a \in Ascii : after[a] # {} }
    IN  [first |-> first,
         pair  |-> { p \in first \X Ascii : Continues(db, after[p[1]], p[2]) }]

TableAllows(table, input, start) ==
    input[start + 1] \in Ascii =>
        /\ input[start + 1] \in table.first
        /\ start + 1 < Len(input) /\ input[start + 2] \in Ascii =>
               <<input[start + 1], input[start + 2]>> \in table.pair

-----------------------------------------------------------------------------
VARIABLES
    patterns,     \* the partition's expressions
    database,     \* compiled from them
    input,        \* of the scan being planned
    stage,        \* compile, ready, sample, rest, planned
    hints,        \* the patterns' literals collected so far
    literal,      \* the literal filter, if the set has one
    start_table,  \* the start table, if the set has one
    tested,       \* the next start the filter tests
    bitmap,       \* the starts whose bit is set
    plan          \* All, StartTable, Candidates, once planned

partitionVars == <<patterns, database>>
compileVars == <<hints, literal, start_table>>
bitmapVars == <<tested, bitmap>>
planVars == <<partitionVars, input, stage, compileVars, bitmapVars, plan>>

AnyAssertions == \E i \in DOMAIN patterns : HasAssertions(patterns[i])

PlanInit ==
    /\ patterns \in PatternSets
    /\ database = DatabaseOf(patterns)
    /\ input = <<>>
    /\ stage = "compile"
    /\ hints = <<>> /\ literal = {}
    /\ start_table = IF AnyAssertions THEN {} ELSE { StartTable(database) }
    /\ tested = 0 /\ bitmap = {}
    /\ plan = "None"

\* Prefilter::compile without a literal filter: a set with assertions, or a small one.
CompileWithoutLiteral ==
    /\ stage = "compile"
    /\ AnyAssertions \/ Len(patterns) < MinPatternCount
    /\ stage' = "ready"
    /\ UNCHANGED <<partitionVars, input, compileVars, bitmapVars, plan>>

CollectingHints ==
    /\ stage = "compile"
    /\ ~ AnyAssertions /\ Len(patterns) >= MinPatternCount
    /\ UNCHANGED <<partitionVars, input, bitmapVars, plan>>

NextPrefix == HintOf(patterns[Len(hints) + 1])

CollectHint ==
    /\ CollectingHints
    /\ Len(hints) < Len(patterns)
    /\ Len(NextPrefix) >= MinLiteral
    /\ hints' = Append(hints, NextPrefix)
    /\ UNCHANGED <<stage, literal, start_table>>

\* One pattern without a hint leaves the whole set without a filter.
Unfilterable ==
    /\ CollectingHints
    /\ Len(hints) < Len(patterns)
    /\ Len(NextPrefix) < MinLiteral
    /\ stage' = "ready"
    /\ UNCHANGED compileVars

CompileLiteral ==
    /\ CollectingHints
    /\ Len(hints) = Len(patterns)
    /\ literal' = { CompileFilter(ToSet(hints)) }
    /\ stage' = "ready"
    /\ UNCHANGED <<hints, start_table>>

StartOrAll ==
    /\ plan' = IF start_table = {} THEN "All" ELSE "StartTable"
    /\ stage' = "planned"

\* Prefilter::plan with the prefilter switched off.
PlanDisabled(text) ==
    /\ stage = "ready"
    /\ input' = text
    /\ plan' = "All"
    /\ stage' = "planned"
    /\ UNCHANGED <<partitionVars, compileVars, bitmapVars>>

\* The literal filter is switched off, missing, or not worth its cost.
PlanWithoutLiteral(text, literal_enabled) ==
    /\ stage = "ready"
    /\ ~ literal_enabled \/ literal = {} \/ Len(text) < MinInput
    /\ input' = text
    /\ StartOrAll
    /\ UNCHANGED <<partitionVars, compileVars, bitmapVars>>

BeginSample(text) ==
    /\ stage = "ready"
    /\ literal # {} /\ Len(text) >= MinInput
    /\ input' = text
    /\ stage' = "sample"
    /\ UNCHANGED <<partitionVars, compileVars, bitmapVars, plan>>

SampledUnits == Min({ Len(input), DensitySample })

Insert(start) == bitmap' = bitmap \cup { start }

\* One round of scan_starts.
ScanStart ==
    /\ stage \in {"sample", "rest"}
    /\ tested < IF stage = "sample" THEN SampledUnits ELSE Len(input)
    /\ IF \E filter \in literal : Admits(filter, input, tested) THEN Insert(tested)
       ELSE UNCHANGED bitmap
    /\ tested' = tested + 1
    /\ UNCHANGED <<partitionVars, input, stage, compileVars, plan>>

SampleIsDense == Cardinality(bitmap) * 2 >= SampledUnits

\* Too many candidates in the sample: the bitmap is dropped.
PlanDense ==
    /\ stage = "sample" /\ tested = SampledUnits
    /\ SampleIsDense
    /\ StartOrAll
    /\ bitmap' = {}
    /\ UNCHANGED <<partitionVars, input, compileVars, tested>>

\* The full bitmap begins as a copy of the sample's.
KeepSample ==
    /\ stage = "sample" /\ tested = SampledUnits
    /\ ~ SampleIsDense
    /\ stage' = "rest"
    /\ UNCHANGED <<partitionVars, input, compileVars, bitmapVars, plan>>

PlanCandidates ==
    /\ stage = "rest" /\ tested = Len(input)
    /\ plan' = "Candidates"
    /\ stage' = "planned"
    /\ UNCHANGED <<partitionVars, input, compileVars, bitmapVars>>

PlanStep ==
    \/ CompileWithoutLiteral \/ CollectHint \/ Unfilterable \/ CompileLiteral
    \/ \E text \in Texts :
         \/ PlanDisabled(text)
         \/ \E literal_enabled \in BOOLEAN : PlanWithoutLiteral(text, literal_enabled)
         \/ BeginSample(text)
    \/ ScanStart \/ PlanDense \/ KeepSample \/ PlanCandidates

PlanSpec == PlanInit /\ [][PlanStep]_planVars

\* The starts a scan visits (scan_with_stats): a database with assertions is scanned
\* from every start whatever the plan.
ScanStarts ==
    { s \in 0..(Len(input) - 1) :
        \/ plan = "All" \/ AnyAssertions
        \/ plan = "StartTable" /\ \E t \in start_table : TableAllows(t, input, s)
        \/ plan = "Candidates" /\ s \in bitmap }

-----------------------------------------------------------------------------
(* Properties *)

\* The matches the event rule asks for from a start.
MatchesFrom(db, text, s) == LongestMatches(db, db.root, text, s)

(***************************************************************************)
(* Whatever plan is chosen, a start it leaves out has no match: the         *)
(* prefilter is invisible in the events ("conservative candidate-start      *)
(* acceleration", prefilter.rs:1).                                          *)
(***************************************************************************)
NoMatchSkipped ==
    stage = "planned" => \A s \in 0..(Len(input) - 1) \ ScanStarts :
        MatchesFrom(database, input, s) = {}

\* Whether the text goes on with the units of a literal at a start.
BeginsWith(text, s, units) ==
    s + Len(units) <= Len(text) /\ \A k \in 1..Len(units) : text[s + k] = units[k]

(***************************************************************************)
(* A hint is necessary: every match of its pattern begins with it, also     *)
(* when loops, options, equal branches and the cut at MAX_LITERAL_UNITS     *)
(* meet in one expression (necessary_prefix).                               *)
(***************************************************************************)
HintsAreNecessary ==
    stage = "compile" =>
        \A text \in Texts : \A s \in 0..(Len(text) - 1) :
            \A match \in MatchesFrom(database, text, s) :
                match[2] < Len(hints) => BeginsWith(text, s, hints[match[2] + 1])
=============================================================================
