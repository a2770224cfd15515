------------------------------ MODULE NfaCompile ------------------------------
(***************************************************************************)
(* The Thompson compiler of rustmatch/src/nfa.rs.  `compile_expression'     *)
(* wires an expression between two states that exist already, so a          *)
(* construct shares its start and its end with whatever surrounds it: an    *)
(* alternation compiles every branch between the same two states, and an    *)
(* unbounded repetition with minimum zero loops on the start it was given.  *)
(*                                                                          *)
(* A graph under construction is a record as in EmptyGraph, its states are  *)
(* 0..size-1.                                                               *)
(***************************************************************************)
EXTENDS Hir

AddState(g) == [g EXCEPT !.size = @ + 1]
AddEpsilon(g, from, to) == [g EXCEPT !.epsilon = @ \cup { <<from, to>> }]

RECURSIVE CompileExpression(_, _, _, _)

\* Copies of an expression chained from `from'; the last one ends in `end' when
\* `closed', every other one in a state of its own.  With `optional' each copy may
\* be skipped to `end'.  The pair returned is the graph and the state reached.
RECURSIVE CompileCopies(_, _, _, _, _, _, _)
CompileCopies(g, e, count, from, end, closed, optional) ==
    IF count = 0 THEN <<g, from>>
    ELSE LET skipped == IF optional THEN AddEpsilon(g, from, end) ELSE g
             last    == count = 1 /\ closed
             grown   == IF last THEN skipped ELSE AddState(skipped)
             to      == IF last THEN end ELSE skipped.size
         IN  CompileCopies(CompileExpression(grown, e, from, to), e, count - 1, to, end,
                           closed, optional)

\* Mutant of CompileRepetition: a loop may be left before its required copies.
CompileRepetitionLeftEarly(g, e, min, max, start, end) ==
    LET required == CompileCopies(g, e, min, start, end, max = min, FALSE)
        current  == required[2]
        loop_end == required[1].size
        exit     == AddEpsilon(AddEpsilon(required[1], current, end), start, end)
    IN  IF max = min THEN IF min = 0 THEN AddEpsilon(g, start, end) ELSE required[1]
        ELSE IF max # Unbounded
             THEN CompileCopies(required[1], e, max - min, current, end, TRUE, TRUE)[1]
        ELSE AddEpsilon(CompileExpression(AddState(exit), e, current, loop_end),
                        loop_end, current)

CompileRepetition(g, e, min, max, start, end) ==
    LET required == CompileCopies(g, e, min, start, end, max = min, FALSE)
        current  == required[2]
        loop_end == required[1].size
        exit     == AddEpsilon(required[1], current, end)
    IN  IF max = min THEN IF min = 0 THEN AddEpsilon(g, start, end) ELSE required[1]
        ELSE IF max # Unbounded
             THEN CompileCopies(required[1], e, max - min, current, end, TRUE, TRUE)[1]
        ELSE AddEpsilon(CompileExpression(AddState(exit), e, current, loop_end),
                        loop_end, current)

CompileExpression(g, e, start, end) ==
    CASE e.kind = "Never" -> g
      [] e.kind = "Epsilon" -> AddEpsilon(g, start, end)
      [] e.kind = "Assertion" ->
            [g EXCEPT !.assertion = @ \cup { <<start, e.assertion, end>> }]
      [] e.kind = "Symbol" -> [g EXCEPT !.consuming = @ \cup { <<start, {e.symbol}, end>> }]
      [] e.kind = "Predicate" ->
            [g EXCEPT !.consuming = @ \cup { <<start, e.symbols, end>> }]
      [] e.kind = "Sequence" ->
            LET last == Len(e.items)
                step(acc, i) ==
                    LET grown == IF i = last THEN acc[1] ELSE AddState(acc[1])
                        to    == IF i = last THEN end ELSE acc[1].size
                    IN  <<CompileExpression(grown, e.items[i], acc[2], to), to>>
            IN  FoldLeft(step, <<g, start>>, [i \in 1..last |-> i])[1]
      [] e.kind = "Alternation" ->
            FoldLeft(LAMBDA acc, branch : CompileExpression(acc, branch, start, end),
                     g, e.items)
      [] e.kind = "Repeat" -> CompileRepetition(g, e.item, e.min, e.max, start, end)

(***************************************************************************)
(* compile and compile_shared_cohorts.  Each pattern gets a first state     *)
(* behind an epsilon edge from a root and a terminal state that accepts its *)
(* ordinal.  A compilation in progress is a record as in EmptyCompilation.  *)
(***************************************************************************)
\* Mutant of CompilePattern: the first state is the last one of the pattern before.
CompilePatternReusingState(built, e, ordinal, root) ==
    LET first    == built.graph.size - 1
        terminal == first + 1
        grown    == AddEpsilon(AddState(built.graph), root, first)
    IN  [graph     |-> CompileExpression(grown, e, first, terminal),
         terminals |-> built.terminals @@ (terminal :> { ordinal })]

CompilePattern(built, e, ordinal, root) ==
    LET first    == built.graph.size
        terminal == first + 1
        grown    == AddEpsilon(AddState(AddState(built.graph)), root, first)
    IN  [graph     |-> CompileExpression(grown, e, first, terminal),
         terminals |-> built.terminals @@ (terminal :> { ordinal })]

CompilePatterns(patterns, roots, root_of) ==
    Freeze(FoldLeft(LAMBDA built, i :
                        CompilePattern(built, patterns[i], i - 1, root_of[i]),
                    EmptyCompilation(roots), [i \in 1..Len(patterns) |-> i]))

Compile(patterns) == CompilePatterns(patterns, 1, [i \in DOMAIN patterns |-> 0])

\* A shared database has two roots, and a pattern hangs below one of them.
CohortRoot(e) == IF UsesAssertions(e) THEN AssertionBearingRoot ELSE AssertionFreeRoot
CompileSharedCohorts(patterns) ==
    CompilePatterns(patterns, 2, [i \in DOMAIN patterns |-> CohortRoot(patterns[i])])
=============================================================================
