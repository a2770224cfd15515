--------------------------------- MODULE Hir ---------------------------------
(***************************************************************************)
(* The normalized expressions of rustmatch/src/hir.rs: the constructors     *)
(* that normalize, the structural facts registration and the prefilter      *)
(* rely on, and the set of spans an expression denotes.  The last is the    *)
(* reference interpreter engine.rs keeps beside its tests; everything else  *)
(* is judged against it.                                                    *)
(*                                                                          *)
(* TLC evaluates this module; its recursive operators keep it out of the    *)
(* modules that hold proofs.                                                *)
(***************************************************************************)
EXTENDS PatternDatabase

Unbounded == -1          \* Repeat { max: None }
Impossible == -1         \* minimum_consumed() = None

Never == [kind |-> "Never"]
Epsilon == [kind |-> "Epsilon"]
AssertionOf(a) == [kind |-> "Assertion", assertion |-> a]
SymbolOf(a) == [kind |-> "Symbol", symbol |-> a]
PredicateOf(S) == [kind |-> "Predicate", symbols |-> S]
SequenceOf(s) == [kind |-> "Sequence", items |-> s]
AlternationOf(s) == [kind |-> "Alternation", items |-> s]
RepeatOf(e, min, max) == [kind |-> "Repeat", item |-> e, min |-> min, max |-> max]

\* Mutant of Splice: a nested list is spliced in reverse.
SpliceReversed(kind, items) ==
    FlattenSeq([i \in DOMAIN items |->
                  IF items[i].kind = kind THEN Reverse(items[i].items) ELSE << items[i] >>])

\* Nested lists of the same kind are spliced, one level deep as in the code.
Splice(kind, items) ==
    FlattenSeq([i \in DOMAIN items |->
                  IF items[i].kind = kind THEN items[i].items ELSE << items[i] >>])

Sequence(expressions) ==
    LET kept == Splice("Sequence", SelectSeq(expressions, LAMBDA e : e.kind # "Epsilon"))
    IN  IF \E i \in DOMAIN expressions : expressions[i].kind = "Never" THEN Never
        ELSE IF kept = <<>> THEN Epsilon
        ELSE IF Len(kept) = 1 THEN kept[1]
        ELSE SequenceOf(kept)

Alternation(expressions) ==
    LET kept == Splice("Alternation", SelectSeq(expressions, LAMBDA e : e.kind # "Never"))
    IN  IF kept = <<>> THEN Never
        ELSE IF Len(kept) = 1 THEN kept[1]
        ELSE AlternationOf(kept)

Repeat(e, min, max) ==
    IF max = 0 \/ e.kind = "Epsilon" \/ (e.kind = "Never" /\ min = 0) THEN Epsilon
    ELSE IF e.kind = "Never" THEN Never
    ELSE IF min = 1 /\ max = 1 THEN e
    ELSE RepeatOf(e, min, max)

-----------------------------------------------------------------------------
(* Structural facts. *)

RECURSIVE Nullable(_)
Nullable(e) ==
    CASE e.kind \in {"Never", "Symbol", "Predicate"} -> FALSE
      [] e.kind \in {"Epsilon", "Assertion"} -> TRUE
      [] e.kind = "Sequence" -> \A i \in DOMAIN e.items : Nullable(e.items[i])
      [] e.kind = "Alternation" -> \E i \in DOMAIN e.items : Nullable(e.items[i])
      [] e.kind = "Repeat" -> e.min = 0 \/ Nullable(e.item)

\* Mutant of Least: an alternation is as long as its longest branch.
LeastAsGreatest(lengths) == IF lengths = {} THEN Impossible ELSE Max(lengths)

\* The shortest branch of an alternation, if any is possible.
Least(lengths) == IF lengths = {} THEN Impossible ELSE Min(lengths)

RECURSIVE MinimumConsumed(_)
MinimumConsumed(e) ==
    CASE e.kind = "Never" -> Impossible
      [] e.kind \in {"Epsilon", "Assertion"} -> 0
      [] e.kind = "Symbol" -> 1
      [] e.kind = "Predicate" -> IF e.symbols = {} THEN Impossible ELSE 1
      [] e.kind = "Sequence" ->
            LET lengths == [i \in DOMAIN e.items |-> MinimumConsumed(e.items[i])]
            IN  IF \E i \in DOMAIN lengths : lengths[i] = Impossible THEN Impossible
                ELSE FoldSeq(+, 0, lengths)
      [] e.kind = "Alternation" ->
            Least({ MinimumConsumed(e.items[i]) : i \in DOMAIN e.items } \ { Impossible })
      [] e.kind = "Repeat" ->
            IF e.min = 0 THEN 0
            ELSE IF MinimumConsumed(e.item) = Impossible THEN Impossible
            ELSE e.min * MinimumConsumed(e.item)

RECURSIVE CanConsume(_)
CanConsume(e) ==
    CASE e.kind \in {"Never", "Epsilon", "Assertion"} -> FALSE
      [] e.kind = "Symbol" -> TRUE
      [] e.kind = "Predicate" -> e.symbols # {}
      [] e.kind = "Sequence" ->
            /\ MinimumConsumed(e) # Impossible
            /\ \E i \in DOMAIN e.items : CanConsume(e.items[i])
      [] e.kind = "Alternation" -> \E i \in DOMAIN e.items : CanConsume(e.items[i])
      [] e.kind = "Repeat" -> e.max # 0 /\ CanConsume(e.item)

RECURSIVE UsesAssertions(_)
UsesAssertions(e) ==
    CASE e.kind = "Assertion" -> TRUE
      [] e.kind \in {"Sequence", "Alternation"} ->
            \E i \in DOMAIN e.items : UsesAssertions(e.items[i])
      [] e.kind = "Repeat" -> UsesAssertions(e.item)
      [] OTHER -> FALSE

-----------------------------------------------------------------------------
(* The literal every match of an expression begins with (prefilter.rs). *)

AppendBounded(output, suffix, limit) ==
    output \o SubSeq(suffix, 1, Min({ Len(suffix), limit - Len(output) }))

Copies(unit, count, limit) ==
    FoldLeft(LAMBDA output, i : AppendBounded(output, unit, limit), <<>>, [i \in 1..count |-> i])

\* The one literal an expression stands for, cut at the limit MAX_LITERAL_UNITS, if it is one.
RECURSIVE ExactLiteral(_, _)
ExactLiteral(e, limit) ==
    CASE e.kind = "Epsilon" -> { <<>> }
      [] e.kind = "Symbol" -> { << e.symbol >> }
      [] e.kind = "Sequence" ->
            FoldLeft(LAMBDA output, item : { AppendBounded(o, u, limit) :
                                                o \in output, u \in ExactLiteral(item, limit) },
                     { <<>> }, e.items)
      [] e.kind = "Alternation" ->
            IF \A i \in DOMAIN e.items : ExactLiteral(e.items[i], limit) = ExactLiteral(e.items[1], limit)
            THEN ExactLiteral(e.items[1], limit) ELSE {}
      [] e.kind = "Repeat" ->
            { Copies(u, e.min, limit) : u \in IF e.min = e.max THEN ExactLiteral(e.item, limit) ELSE {} }
      [] OTHER -> {}

\* Mutant of Extends: what follows an expression of several literals is added too.
ExtendsAnyway(prefix, item, limit) == Len(prefix) < limit

\* Whether a prefix ending with an item may go on with the item after it.
Extends(prefix, item, limit) == ExactLiteral(item, limit) # {} /\ Len(prefix) < limit

RECURSIVE NecessaryPrefix(_, _)
NecessaryPrefix(e, limit) ==
    CASE e.kind = "Symbol" -> << e.symbol >>
      [] e.kind = "Sequence" ->
            LET step(acc, item) ==
                  IF ~ acc.open THEN acc
                  ELSE LET grown == AppendBounded(acc.prefix, NecessaryPrefix(item, limit), limit)
                       IN  [prefix |-> grown, open |-> Extends(grown, item, limit)]
            IN  FoldLeft(step, [prefix |-> <<>>, open |-> TRUE], e.items).prefix
      [] e.kind = "Alternation" ->
            LongestCommonPrefix({ NecessaryPrefix(e.items[i], limit) : i \in DOMAIN e.items })
      [] e.kind = "Repeat" /\ e.min > 0 ->
            IF ExactLiteral(e.item, limit) = {} THEN NecessaryPrefix(e.item, limit)
            ELSE Copies(CHOOSE u \in ExactLiteral(e.item, limit) : TRUE, e.min, limit)
      [] OTHER -> <<>>

-----------------------------------------------------------------------------
(***************************************************************************)
(* What an expression denotes: from a place <<position, after_current>> in  *)
(* an input, the places its paths end at.                                   *)
(***************************************************************************)
RECURSIVE Interpret(_, _, _)
Interpret(e, input, places) ==
    LET consume(S) == { <<p[1] + 1, TRUE>> : p \in { q \in places :
                          q[1] < Len(input) /\ input[q[1] + 1] \in S } }
        again(n) == LET iterate[k \in Nat] ==
                          IF k = 0 THEN places ELSE Interpret(e.item, input, iterate[k - 1])
                    IN  iterate[n]
    IN  CASE e.kind = "Never" -> {}
          [] e.kind = "Epsilon" -> places
          [] e.kind = "Assertion" ->
                { p \in places : AssertionMatches(e.assertion, input, p[1], p[2]) }
          [] e.kind = "Symbol" -> consume({ e.symbol })
          [] e.kind = "Predicate" -> consume(e.symbols)
          [] e.kind = "Sequence" ->
                FoldLeft(LAMBDA from, item : Interpret(item, input, from), places, e.items)
          [] e.kind = "Alternation" ->
                UNION { Interpret(e.items[i], input, places) : i \in DOMAIN e.items }
          [] e.kind = "Repeat" ->
                UNION { again(n) : n \in e.min..(IF e.max = Unbounded
                                                 THEN e.min + Len(input) + 1 ELSE e.max) }

\* The ends of the nonempty spans an expression denotes from a start.
Ends(e, input, start) ==
    { p[1] : p \in { q \in Interpret(e, input, { <<start, FALSE>> }) : q[2] } }
=============================================================================
