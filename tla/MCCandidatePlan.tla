--------------------------- MODULE MCCandidatePlan ----------------------------
(***************************************************************************)
(* Pattern sets of one and two expressions, over an alphabet of two ASCII   *)
(* units and one beyond ASCII.                                              *)
(***************************************************************************)
EXTENDS CandidatePlan, NfaCompile

a == SymbolOf("a")
b == SymbolOf("b")
u == SymbolOf("u")
Either == PredicateOf({"a", "b"})

Leaves == { a, b, u, Either, Epsilon }
Bounds == { <<0, 1>>, <<1, Unbounded>>, <<2, 2>>, <<1, 2>> }
Repeats(S) == { Repeat(x, n[1], n[2]) : x \in S, n \in Bounds }
Chains(S, T) == { Sequence(<<x, y>>) : x \in S, y \in T }
Branches(S, T) == { Alternation(<<x, y>>) : x \in S, y \in T }

OneLevel == Leaves \cup Repeats(Leaves) \cup Chains(Leaves, Leaves) \cup Branches(Leaves, Leaves)

\* Expressions of two levels, each in a set of its own beside a plain literal.
TwoLevels == OneLevel \cup Chains(OneLevel, Leaves) \cup Chains(Leaves, OneLevel)
             \cup Repeats(OneLevel) \cup Branches(OneLevel, { a, b, u })

Bounded == { e \in TwoLevels : ~ (Nullable(e) /\ ~ CanConsume(e)) }

\* Literals of one to five units: every table, and beyond the cut.
Word(n) == Sequence([i \in 1..n |-> IF i % 3 = 0 THEN b ELSE a])
Words == { Word(n) : n \in 1..5 } \cup { Sequence(<<a, u>>), Sequence(<<b, a, u>>) }

MCPatternSets ==
    { <<e, Sequence(<<b, u>>)>> : e \in Bounded }
    \cup { <<v, w>> : v, w \in Words }
    \cup { <<e>> : e \in OneLevel \ { Epsilon } }
    \cup { <<Sequence(<<AssertionOf("LineStart"), a>>), Word(2)>> }

TextLength == 4
MCTexts == UNION { [1..n -> Symbol] : n \in 0..TextLength }

\* Literals are cut at four units: MAX_LITERAL_UNITS is 4 here.
MCHintOf(e) == NecessaryPrefix(e, 4)

\* A hash that collides on every pair of prefixes with the same first unit.
MCHashIndex(units) == units[1]
=============================================================================
