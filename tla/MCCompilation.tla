---------------------------- MODULE MCCompilation -----------------------------
(***************************************************************************)
(* Every expression of two levels of constructors over a few leaves, alone  *)
(* and beside a second pattern of one level.                                *)
(***************************************************************************)
EXTENDS Compilation

\* Identifiers are only compared.
IdSymmetry == Permutations(PatternIds)

Leaves == { SymbolOf("a"), SymbolOf("b"), PredicateOf({}), PredicateOf({"a", "b"}),
            Epsilon, Never, AssertionOf("WordBoundary"), AssertionOf("LineEnd") }

Bounds == { <<0, 1>>, <<0, Unbounded>>, <<1, Unbounded>>, <<1, 2>>, <<2, 2>>, <<0, 2>> }

Pairs(S, T) ==
    { Sequence(<<x, y>>) : x \in S, y \in T } \cup { Sequence(<<y, x>>) : x \in S, y \in T }
    \cup { Alternation(<<x, y>>) : x \in S, y \in T }

Repeats(S) == { Repeat(x, b[1], b[2]) : x \in S, b \in Bounds }

OneLevel == Leaves \cup Pairs(Leaves, Leaves) \cup Repeats(Leaves)
Core == { SymbolOf("a"), PredicateOf({"a", "b"}), AssertionOf("WordBoundary") }
TwoLevels == OneLevel \cup Repeats(OneLevel) \cup Pairs(OneLevel, Core)

Strings(bound) == UNION { [1..n -> Symbol] : n \in 0..bound }
MCTexts == Strings(3)

\* One level over the core: small enough for every pair of patterns.
CoreLevel == Core \cup Pairs(Core, Core) \cup Repeats(Core) \cup { Epsilon, Never }

\* What `a*|b', `(a*b)?' and `(a*b)*' parse to, beside their one-pattern parts.
LoopedStates ==
    LET a == SymbolOf("a")
        b == SymbolOf("b")
        star == Repeat(a, 0, Unbounded)
    IN  { a, b, star, Sequence(<<star, b>>), Alternation(<<star, b>>),
          Repeat(Sequence(<<star, b>>), 0, 1),
          Repeat(Sequence(<<star, b>>), 0, Unbounded) }
=============================================================================
