-------------------------------- MODULE MCJobs --------------------------------
(***************************************************************************)
(* Small scan jobs for the engine runs: databases compiled from a few       *)
(* pattern sets, with every input up to a length and every set of starts.   *)
(***************************************************************************)
EXTENDS NfaCompile

a == SymbolOf("a")
b == SymbolOf("b")
dot == PredicateOf(Symbol)
Caret == AssertionOf("LineStart")
Dollar == AssertionOf("LineEnd")
Boundary == AssertionOf("WordBoundary")
NoBoundary == AssertionOf("NonWordBoundary")

\* a(b)*  |  ab?a  |  [^]b : overlapping lengths, a loop, shared first symbols.
PlainPatterns ==
    << Sequence(<<a, Repeat(b, 0, Unbounded)>>),
       Sequence(<<a, Repeat(b, 0, 1), a>>),
       Sequence(<<dot, b>>) >>

\* (a|b)+a  |  a{2,3} : many distinct state sets for the cache.
DensePatterns ==
    << Sequence(<<Repeat(Alternation(<<a, b>>), 1, Unbounded), a>>),
       Repeat(a, 2, 3) >>

\* ^a  |  .?$\n?  |  \b.a  |  a(\B|b) : each assertion before, inside, after a unit.
AssertedPatterns ==
    << Sequence(<<Caret, a>>),
       Sequence(<<Repeat(dot, 0, 1), Dollar, Repeat(SymbolOf(LineFeed), 0, 1)>>),
       Sequence(<<Boundary, dot, a>>),
       Sequence(<<a, Alternation(<<NoBoundary, b>>)>>) >>

\* ab  |  ^a+ : one pattern in each cohort of a shared database.
CohortPatterns ==
    << Sequence(<<a, b>>),
       Sequence(<<Caret, Repeat(a, 1, Unbounded)>>) >>

Inputs(alphabet, bound) == UNION { [1..n -> alphabet] : n \in 0..bound }

JobsFor(database, root, inputs, starts(_), uses) ==
    UNION { { [db |-> database, root |-> root, input |-> i, starts |-> s,
               uses_assertions |-> uses] : s \in starts(i) } : i \in inputs }

AllStarts(input) == { 0..(Len(input) - 1) }
AnyStarts(input) == SUBSET (0..(Len(input) - 1))

PlainDatabase == Compile(PlainPatterns)
DenseDatabase == Compile(DensePatterns)
AssertedDatabase == Compile(AssertedPatterns)
CohortDatabase == CompileSharedCohorts(CohortPatterns)

\* The bounds of the runs.
PlainLength == 3
AssertedLength == 3
CachedLength == 5

MCPlainJobs ==
    JobsFor(PlainDatabase, 0, Inputs({"a", "b"}, PlainLength), AnyStarts, FALSE)
MCAssertedJobs ==
    JobsFor(AssertedDatabase, 0, Inputs(Symbol, AssertedLength), AllStarts, TRUE)
MCCohortJobs ==
    JobsFor(CohortDatabase, AssertionBearingRoot, Inputs(Symbol, 2), AnyStarts, TRUE)
    \cup
    JobsFor(CohortDatabase, AssertionFreeRoot, Inputs(Symbol, 2), AllStarts, FALSE)

MCEngineJobs == MCPlainJobs \cup MCAssertedJobs \cup MCCohortJobs

MCCachedJobs ==
    JobsFor(DenseDatabase, 0, Inputs({"a", "b"}, CachedLength), AllStarts, FALSE)
    \cup
    JobsFor(CohortDatabase, AssertionFreeRoot, Inputs(Symbol, 2), AllStarts, FALSE)

\* Three buckets: most state sets collide.
MCHash(states) == Cardinality(states) % 3
=============================================================================
