-------------------------- MODULE MCAssertionPrefix ---------------------------
(***************************************************************************)
(* Sets of two and three patterns that share a prefix of two units, share   *)
(* none, or hide it behind another construct, with and without a pattern    *)
(* free of assertions.                                                      *)
(***************************************************************************)
EXTENDS AssertionPrefix, NfaCompile

a == SymbolOf("a")
b == SymbolOf("b")
u == SymbolOf("u")
Boundary == AssertionOf("WordBoundary")
Ab == <<a, b>>

\* Behind a boundary or a line start, alone, followed by more, never matching.
Fitting ==
    { Sequence(<<Boundary>> \o Ab \o t) :
         t \in { <<>>, <<Boundary>>, <<u>>, <<Repeat(PredicateOf({"a", "b"}), 1, Unbounded)>> } }
    \cup { Sequence(<<Boundary, AssertionOf("LineStart")>> \o Ab),
           Sequence(<<AssertionOf("NonWordBoundary")>> \o Ab),
           Sequence(<<AssertionOf("LineEnd")>> \o Ab) }

\* Another prefix, a predicate in it, an assertion after or inside it, a choice.
Unfitting ==
    { Sequence(<<Boundary, b, a>>),
      Sequence(<<Boundary, PredicateOf({"a", "b"}), b>>),
      Sequence(Ab \o <<Boundary>>),
      Sequence(<<Boundary, a, Boundary, b>>),
      Sequence(<<Boundary, Alternation(<<Sequence(Ab), u>>)>>),
      Sequence(<<Boundary, a>>) }

Free == { a, Repeat(b, 1, Unbounded), Sequence(Ab) }

Simple == { Sequence(<<Boundary>> \o Ab) }

MCPatternSets ==
    { <<v, w>> : v \in Fitting, w \in Simple }
    \cup { <<v, w>> : v \in Fitting, w \in Unfitting }
    \cup { <<v, x, x>> : v \in Fitting, x \in Unfitting }
    \cup { <<f, v, w>> : f \in Free, v \in Fitting, w \in Simple }
    \cup { <<w, f, v>> : f \in Free, v \in Fitting, w \in Simple }
    \cup { <<f, v>> : f \in Free, v \in Fitting \cup Free }

\* Every short text, and longer ones with the prefix once or twice in the sample, across
\* its end and after it.
TextLength == 3
MCTexts ==
    UNION { [1..n -> Symbol] : n \in 0..TextLength }
    \cup { <<"a", "b">> \o t : t \in [1..2 -> Symbol] }
    \cup { <<"a", "b", "u">> \o t : t \in [1..3 -> Symbol] }
=============================================================================
