----------------------------- MODULE PatternSyntax -----------------------------
(***************************************************************************)
(* What a pattern may look like and what it denotes, said without a parser: *)
(* a pattern is split in every way its grammar allows, and each way gives   *)
(* an expression.  The grammar is that of README.md (Regular-expression     *)
(* syntax) with the limits of parser.rs.  The parser is judged against it.  *)
(***************************************************************************)
EXTENDS Parser

CONSTANT Probes    \* the inputs over which two expressions are compared

Between(u, v) == { w \in Symbol : Code(u) <= Code(w) /\ Code(w) <= Code(v) }
Digits == Between("0", "9")
Words == Between("a", "z") \cup Between("A", "Z") \cup Digits \cup { "_" }
Spaces == { " ", "\t", "\n", VerticalTab, "\f", "\r" }
ShorthandSet(u) ==
    CASE u = "d" -> Digits [] u = "D" -> Symbol \ Digits
      [] u = "w" -> Words  [] u = "W" -> Symbol \ Words
      [] u = "s" -> Spaces [] u = "S" -> Symbol \ Spaces

Inner(s) == SubSeq(s, 2, Len(s) - 1)

\* Either case of a unit, if it has two.
EitherCase(u) == IF insensitive /\ Varies(u) THEN { Fold(u)[1], Fold(u)[2] } ELSE { u }

ClassEscapes == { "\\", "]", "[", "-", "^" }

\* The single units a piece of a class may stand for.
ClassUnitsOf(s) ==
    IF Len(s) = 1 /\ s[1] \notin { "]", "-", "\\" } THEN { s[1] }
    ELSE IF Len(s) = 2 /\ s[1] = "\\" /\ s[2] \in ClassEscapes THEN { s[2] }
    ELSE IF Len(s) = 2 /\ s[1] = "\\" /\ s[2] \in Controls THEN { Control(s[2]) }
    ELSE {}

\* The units from u to v, in both cases when both have two.
RangeSet(u, v) ==
    Between(u, v) \cup
    IF insensitive /\ Varies(u) /\ Varies(v)
    THEN Between(Fold(u)[1], Fold(v)[1]) \cup Between(Fold(u)[2], Fold(v)[2]) ELSE {}

RangeAllowed(u, v) ==
    /\ Code(u) <= Code(v)
    /\ (insensitive /\ Varies(u) /\ Varies(v)) =>
          \A c \in {1, 2} : Code(Fold(u)[c]) <= Code(Fold(v)[c])

\* The sets one element of a class may denote.
ClassElement(s) ==
    { { u } \cup EitherCase(u) : u \in ClassUnitsOf(s) }
    \cup { ShorthandSet(s[2]) : x \in { y \in {1} : Len(s) = 2 /\ s[1] = "\\"
                                                 /\ s[2] \in { "d", "w", "s" } } }
    \cup UNION { { RangeSet(u, v) : u \in ClassUnitsOf(SubSeq(s, 1, k - 1)),
                                    v \in { w \in ClassUnitsOf(SubSeq(s, k + 1, Len(s))) :
                                       \A u \in ClassUnitsOf(SubSeq(s, 1, k - 1)) : RangeAllowed(u, w) } }
                 : k \in { j \in 2..(Len(s) - 1) : s[j] = "-" } }

\* The sets a class body may denote.
RECURSIVE ClassBody(_)
ClassBody(s) ==
    IF s = <<>> THEN { {} }
    ELSE UNION { { S \cup T : S \in ClassElement(SubSeq(s, 1, k)),
                              T \in IF ClassElement(SubSeq(s, 1, k)) = {} THEN {}
                                    ELSE ClassBody(SubSeq(s, k + 1, Len(s))) }
                 : k \in 1..Min({ Len(s), 5 }) }

ClassMeaning(body) ==
    IF body # <<>> /\ body[1] = "^"
    THEN { Symbol \ S : S \in ClassBody(Tail(body)) }
    ELSE ClassBody(body)

EscapeMeaning(u) ==
    IF u \in EscapedLiterals THEN { PredicateOf(EitherCase(u)) }
    ELSE IF u \in Controls THEN { SymbolOf(Control(u)) }
    ELSE IF u \in Shorthands THEN { PredicateOf(ShorthandSet(u)) }
    ELSE IF u = "b" THEN { AssertionOf("WordBoundary") }
    ELSE IF u = "B" THEN { AssertionOf("NonWordBoundary") }
    ELSE {}

UnitMeaning(u) ==
    IF u = "." THEN { PredicateOf(Symbol) }
    ELSE IF u = "^" THEN { AssertionOf("LineStart") }
    ELSE IF u = "$" THEN { AssertionOf("LineEnd") }
    ELSE IF u \in RepetitionOperators \cup { "\\", "[", "(", ")", "|" } THEN {}
    ELSE { PredicateOf(EitherCase(u)) }

\* A decimal number within the limit.
Numbers(s) ==
    LET value == FoldLeft(LAMBDA v, u : 10 * v + Code(u) - Code("0"), 0, s)
    IN  IF s # <<>> /\ (\A i \in DOMAIN s : s[i] \in Digits) /\ value <= MaxCounted
        THEN { value } ELSE {}

CountMeaning(s) ==
    { <<n, n>> : n \in Numbers(s) }
    \cup UNION { { <<m, n>> : m \in Numbers(SubSeq(s, 1, k - 1)),
                     n \in IF k = Len(s) THEN { Unbounded } ELSE Numbers(SubSeq(s, k + 1, Len(s))) }
                 : k \in { j \in DOMAIN s : s[j] = "," } }

\* The bounds an operator stands for; a count of zero or out of order is none.
OperatorMeaning(s) ==
    IF s = <<>> THEN { <<1, 1>> }
    ELSE IF s = <<"?">> THEN { <<0, 1>> }
    ELSE IF s = <<"*">> THEN { <<0, Unbounded>> }
    ELSE IF s = <<"+">> THEN { <<1, Unbounded>> }
    ELSE IF s[1] = "{" /\ Len(s) > 1 /\ s[Len(s)] = "}"
    THEN { b \in CountMeaning(Inner(s)) : b[2] = Unbounded \/ (b[1] <= b[2] /\ b[2] > 0) }
    ELSE {}

RECURSIVE Alternatives(_, _), Concatenations(_, _), Atoms(_, _)

\* The expressions one atom may denote with `depth' groups left to open.
Atoms(s, depth) ==
    LET inner == IF Len(s) > 3 /\ SubSeq(s, 2, 3) = << "?", ":" >>
                 THEN SubSeq(s, 4, Len(s) - 1) ELSE Inner(s)
    IN  IF Len(s) = 1 THEN UnitMeaning(s[1])
        ELSE IF Len(s) = 2 /\ s[1] = "\\" THEN EscapeMeaning(s[2])
        ELSE IF s[1] = "[" /\ s[Len(s)] = "]" /\ Len(s) > 1
        THEN { PredicateOf(S) : S \in ClassMeaning(Inner(s)) }
        ELSE IF s[1] = "(" /\ s[Len(s)] = ")"
        THEN IF inner = <<>> THEN { Never }
             ELSE IF depth = 0 THEN {} ELSE Alternatives(inner, depth - 1)
        ELSE {}

\* A sequence is an atom and an operator followed by a sequence.
Concatenations(s, depth) ==
    IF s = <<>> THEN { Epsilon }
    ELSE UNION { LET atoms == Atoms(SubSeq(s, 1, c[1]), depth)
                     bounds == OperatorMeaning(SubSeq(s, c[1] + 1, c[2]))
                 IN  IF atoms = {} \/ bounds = {} THEN {}
                     ELSE { SequenceOf(<< RepeatOf(a, b[1], b[2]), e >>) :
                              a \in atoms, b \in bounds,
                              e \in Concatenations(SubSeq(s, c[2] + 1, Len(s)), depth) }
                 : c \in { d \in (1..Len(s)) \X (1..Len(s)) : d[1] <= d[2] } }

\* An alternation; a bar at its very end opens no alternative.
Alternatives(s, depth) ==
    LET whole == IF s # <<>> /\ s[Len(s)] = "|" THEN Front(s) ELSE s
    IN  Concatenations(whole, depth)
        \cup UNION { { AlternationOf(<< e, f >>) :
                         e \in Concatenations(SubSeq(s, 1, k - 1), depth),
                         f \in Alternatives(SubSeq(s, k + 1, Len(s)), depth) }
                     : k \in { j \in 1..(Len(s) - 1) : s[j] = "|" } }

Body == IF HasFlagPrefix(units) THEN SubSeq(units, FlagRun(units) + 4, Len(units)) ELSE units
Meanings == Alternatives(Body, MaxNesting)

SameEnds(e, f) ==
    \A t \in Probes : \A p \in 0..(Len(t) - 1) : Ends(e, t, p) = Ends(f, t, p)

-----------------------------------------------------------------------------
(***************************************************************************)
(* parse_with_flags accepts a pattern exactly when the grammar gives it a   *)
(* meaning that may consume something, and the expression it returns        *)
(* denotes that meaning over every text: empty alternatives and groups,     *)
(* operators, counts at their limit, nesting at its limit, classes with     *)
(* ranges, signs and inversion, and both ways to ask for either case.       *)
(***************************************************************************)
AcceptsTheGrammar ==
    outcome.kind \in { "ok", "empty", "invalid", "too deep" } =>
        LET meant == IF units = <<>> THEN {} ELSE { e \in Meanings : ~ OnlyEmpty(e) }
        IN  /\ outcome.kind = "ok" <=> meant # {}
            /\ outcome.kind = "ok" => \A e \in meant : SameEnds(outcome.expression, e)

(***************************************************************************)
(* A refusal points at units of the pattern: its span is nonempty and never *)
(* reaches beyond the end, wherever in an unfinished group, class, escape   *)
(* or count the pattern stops.                                              *)
(***************************************************************************)
RefusalsPointInside ==
    outcome.kind = "invalid" =>
        /\ 0 <= outcome.start /\ outcome.start < outcome.end
        /\ outcome.end <= Len(units)

(***************************************************************************)
(* A class has one form for each set of units, whatever ranges, literals    *)
(* and shorthands it was put together from: its wide ranges are sorted and  *)
(* no two touch.  `matches' and complement() are wrong on any other list.   *)
(***************************************************************************)
PredicatesHaveOneForm == class # NoClass => IsNormal(class.predicate)
=============================================================================
