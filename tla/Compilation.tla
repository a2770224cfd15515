----------------------------- MODULE Compilation ------------------------------
(***************************************************************************)
(* From registered expressions to a shared-cohort database: the calls of    *)
(* MatcherBuilder::add_with_flags (rustmatch/src/api.rs) with the check at  *)
(* the end of parse_with_flags (rustmatch/src/parser.rs), then the loop of  *)
(* compile_shared_cohorts (rustmatch/src/nfa.rs), one pattern per step.     *)
(* `compile' is the same loop with a single root.                           *)
(*                                                                          *)
(* Hir says what an expression denotes; the properties compare what the     *)
(* growing database accepts, and what the structural facts promise, with    *)
(* that.                                                                    *)
(***************************************************************************)
EXTENDS NfaCompile

CONSTANTS
    PatternIds,    \* the identifiers callers register under
    Expressions,   \* what the parser may produce for the first registration
    Companions,    \* those of them that are registered beside others
    MaxCalls,      \* bound: registrations tried
    Texts          \* the inputs acceptance is judged on

VARIABLES
    phase,         \* register, compile, built, failed
    pattern_ids,   \* the builder's set of identifiers
    patterns,      \* the builder's list: records [id, expression]
    calls,         \* registrations tried so far
    refused,       \* the expressions registration refused
    built,         \* the compilation in progress
    compiled       \* how many patterns it holds

builderVars == <<pattern_ids, patterns, calls, refused>>
databaseVars == <<built, compiled>>
compilationVars == <<phase, builderVars, databaseVars>>

\* A pattern that can match nothing but the empty span is refused.
OnlyEmpty(e) == Nullable(e) /\ MinimumConsumed(e) = 0 /\ ~ CanConsume(e)

Init ==
    /\ phase = "register"
    /\ pattern_ids = {} /\ patterns = <<>>
    /\ calls = 0
    /\ refused = {}
    /\ built = EmptyCompilation(2)
    /\ compiled = 0

Registering ==
    /\ phase = "register"
    /\ calls < MaxCalls
    /\ calls' = calls + 1
    /\ UNCHANGED <<phase, databaseVars>>

Register(id, e) ==
    /\ Registering
    /\ id \notin pattern_ids
    /\ ~ OnlyEmpty(e)
    /\ pattern_ids' = pattern_ids \cup { id }
    /\ patterns' = Append(patterns, [id |-> id, expression |-> e])
    /\ UNCHANGED refused

\* Error::DuplicatePatternId, before the pattern is looked at.
RejectDuplicate(id) ==
    /\ Registering
    /\ id \in pattern_ids
    /\ UNCHANGED <<pattern_ids, patterns, refused>>

\* Error::InvalidPattern for a pattern that only matches the empty span.
Refuse(id, e) ==
    /\ Registering
    /\ id \notin pattern_ids
    /\ OnlyEmpty(e)
    /\ refused' = refused \cup { e }
    /\ UNCHANGED <<pattern_ids, patterns>>

\* build() consumes the builder.
Build ==
    /\ phase = "register"
    /\ phase' = IF patterns = <<>> THEN "failed" ELSE "compile"
    /\ UNCHANGED <<builderVars, databaseVars>>

CompileNext ==
    /\ phase = "compile"
    /\ compiled < Len(patterns)
    /\ LET e == patterns[compiled + 1].expression
       IN  built' = CompilePattern(built, e, compiled, CohortRoot(e))
    /\ compiled' = compiled + 1
    /\ UNCHANGED <<phase, builderVars>>

FinishDatabase ==
    /\ phase = "compile"
    /\ compiled = Len(patterns)
    /\ phase' = "built"
    /\ UNCHANGED <<builderVars, databaseVars>>

\* Only companions keep company.
Offered ==
    IF patterns = <<>> /\ refused = {} THEN Expressions
    ELSE IF { patterns[i].expression : i \in DOMAIN patterns } \cup refused \subseteq Companions
    THEN Companions ELSE {}

Next ==
    \/ \E id \in PatternIds, e \in Offered : Register(id, e) \/ Refuse(id, e)
    \/ \E id \in PatternIds : RejectDuplicate(id)
    \/ Build \/ CompileNext \/ FinishDatabase

Spec == Init /\ [][Next]_compilationVars

-----------------------------------------------------------------------------
(* Properties *)

database == Freeze(built)
Expression(i) == patterns[i].expression
StartsOf(input) == 0..(Len(input) - 1)

\* An alternative, an optional copy or a loop body that begins with an unbounded
\* repetition of minimum zero shares the state that repetition loops on.
RECURSIVE BeginsWithLoop(_)
BeginsWithLoop(e) ==
    CASE e.kind = "Repeat" -> (e.min = 0 /\ e.max = Unbounded) \/ BeginsWithLoop(e.item)
      [] e.kind = "Sequence" -> BeginsWithLoop(e.items[1])
      [] e.kind = "Alternation" -> \E i \in DOMAIN e.items : BeginsWithLoop(e.items[i])
      [] OTHER -> FALSE

RECURSIVE SharesLoopedState(_)
SharesLoopedState(e) ==
    CASE e.kind = "Repeat" ->
            SharesLoopedState(e.item) \/ (e.max # e.min /\ BeginsWithLoop(e.item))
      [] e.kind = "Sequence" -> \E i \in DOMAIN e.items : SharesLoopedState(e.items[i])
      [] e.kind = "Alternation" ->
            \E i \in DOMAIN e.items : SharesLoopedState(e.items[i]) \/ BeginsWithLoop(e.items[i])
      [] OTHER -> FALSE

\* The ends at which the database accepts a pattern from a start.
Accepted(ordinal, input, start) ==
    AcceptedEnds(ReachableConfigurations(database, CohortRoot(Expression(ordinal + 1)),
                                         input, start),
                 database, ordinal)

AcceptsDenotation(ordinal) ==
    \A input \in Texts : \A start \in StartsOf(input) :
        Accepted(ordinal, input, start) = Ends(Expression(ordinal + 1), input, start)

\* What is compiled accepts exactly what the expression denotes, for every pattern
\* of the set at once.  Where a construct shares a looped state (BeginsWithLoop) it
\* may accept more, but nothing the expression denotes is ever lost.
CompiledAcceptsDenotation ==
    \A i \in 1..compiled :
        /\ ~ SharesLoopedState(Expression(i)) => AcceptsDenotation(i - 1)
        /\ \A input \in Texts : \A start \in StartsOf(input) :
               Ends(Expression(i), input, start) \subseteq Accepted(i - 1, input, start)

\* The first part with no exception, as README.md:213 and README.md:233 promise.
EveryPatternAcceptsDenotation ==
    \A i \in 1..compiled : AcceptsDenotation(i - 1)

\* Patterns share the roots and nothing else: from the first state of one no path
\* leads to a terminal of another, nor back to a root.
PatternsAreDisjoint ==
    LET edges == database.epsilon
                 \cup { <<e[1], e[3]>> : e \in database.assertion }
                 \cup { <<e[1], e[3]>> : e \in database.consuming }
        from(s) == ExtendClosure(database.state, edges, { s }, {})
        roots == { AssertionFreeRoot, AssertionBearingRoot }
    IN  \A r \in roots : \A e \in { d \in database.epsilon : d[1] = r } :
            /\ roots \cap from(e[2]) = {}
            /\ \E i \in 1..compiled :
                 /\ CohortRoot(Expression(i)) = r
                 /\ TerminalsOf(database, from(e[2])) \subseteq { i - 1 }

\* minimum_consumed is a lower bound, and "impossible" means no span at all, not
\* even an empty one: it is reported with the pattern's facts, tells whether a
\* sequence can consume anything, and with that decides what registration refuses
\* (parser.rs:31), which must be only patterns that no input gives a nonempty span.
FactsAreSound ==
    /\ \A i \in 1..compiled : \A input \in Texts : \A start \in 0..Len(input) :
        LET places == Interpret(Expression(i), input, { <<start, FALSE>> })
            least  == MinimumConsumed(Expression(i))
        IN  IF least = Impossible THEN places = {}
            ELSE \A p \in places : p[1] - start >= least
    /\ \A e \in refused : \A input \in Texts : \A start \in StartsOf(input) :
        Ends(e, input, start) = {}

\* Normalization keeps the meaning: the lists a constructor drops and splices.
NormalizationKeepsMeaning ==
    phase = "built" => \A i, j \in DOMAIN patterns :
        LET x == Expression(i)
            y == Expression(j)
            means(e, f) == \A input \in Texts : \A place \in StartsOf(input) \X BOOLEAN :
                               Interpret(e, input, { place }) = Interpret(f, input, { place })
        IN  /\ means(Sequence(<<x, Epsilon, y>>), SequenceOf(<<x, y>>))
            /\ means(Alternation(<<x, Never, y>>), AlternationOf(<<x, y>>))
=============================================================================
