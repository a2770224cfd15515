-------------------------------- MODULE Parser --------------------------------
(***************************************************************************)
(* The parser of rustmatch/src/parser.rs: one pass over the units of a      *)
(* pattern, its recursive functions made visible as a stack of open         *)
(* alternations and its loops as one step per atom, operator or class       *)
(* token.  A class is built as a predicate in the form predicate.rs keeps;  *)
(* the expression holds the set of units it answers for.                    *)
(*                                                                          *)
(* A unit is written as the character it stands for; Code gives its value.  *)
(* Positions are zero-based as in the code.                                 *)
(***************************************************************************)
EXTENDS Hir, Predicate

CONSTANTS
    Code(_),      \* the value of a unit
    Fold(_),      \* case_fold::lower_upper: the pair <<lower, upper>>
    MaxCounted,   \* MAX_COUNTED_REPETITION
    MaxNesting    \* MAX_GROUP_NESTING

VARIABLES
    units,        \* the pattern
    insensitive,  \* case_insensitive
    index,        \* the next unit
    stack,        \* the alternations being parsed, the outermost first
    atom,         \* the atom parse_repetition was called with, if any
    class,        \* the character class being parsed, if any
    outcome       \* what parse_with_flags returned

parserVars == << units, insensitive, index, stack, atom, class, outcome >>

NoUnit == ""
At(i) == IF i < Len(units) THEN units[i + 1] ELSE NoUnit
Current == At(index)
Parsing == outcome.kind = "parsing"

\* `invalid': the pattern is refused, with the span of the offence.
Fail(start, end) ==
    /\ outcome' = [kind |-> "invalid", start |-> start, end |-> end]
    /\ UNCHANGED << units, insensitive, index, stack, atom, class >>

-----------------------------------------------------------------------------
(* Units and the sets they stand for. *)

RepetitionOperators == { "?", "*", "+", "{" }
EscapedLiterals ==
    { "\\", ".", "*", "+", "?", "[", "]", "(", ")", "|", "^", "$", "-", "{", "}" }
Controls == { "n", "t", "r", "f" }
Control(u) == CASE u = "n" -> "\n" [] u = "t" -> "\t" [] u = "r" -> "\r" [] u = "f" -> "\f"

Digit == FromRanges(<< << Code("0"), Code("9") >> >>)
Word == InsertAll(FromRanges(<< << Code("a"), Code("z") >>, << Code("A"), Code("Z") >>,
                                << Code("0"), Code("9") >> >>), << Code("_") >>)
\* The unit TLA+ has no escape for.
VerticalTab == "VT"
Whitespace == InsertAll(NoSymbol, << Code(" "), Code("\t"), Code("\n"), Code(VerticalTab),
                                     Code("\f"), Code("\r") >>)

Shorthands == { "d", "D", "w", "W", "s", "S" }
Shorthand(u) ==
    CASE u = "d" -> Digit      [] u = "D" -> Complement(Digit)
      [] u = "w" -> Word       [] u = "W" -> Complement(Word)
      [] u = "s" -> Whitespace [] u = "S" -> Complement(Whitespace)

\* The units a predicate admits, as an expression.
PredicateHir(p) == PredicateOf({ u \in Symbol : Matches(p, Code(u)) })

Varies(u) == Fold(u)[1] # Fold(u)[2]

Literal(u) ==
    IF insensitive /\ Varies(u)
    THEN PredicateHir(InsertAll(NoSymbol, << Code(Fold(u)[1]), Code(Fold(u)[2]) >>))
    ELSE SymbolOf(u)

WithLiteral(p, u) ==
    InsertAll(p, IF insensitive THEN << Code(u), Code(Fold(u)[1]), Code(Fold(u)[2]) >> ELSE << Code(u) >>)

\* A range is folded end by end, and only if both ends have two cases.
ClassRanges(first, last) ==
    << << Code(first), Code(last) >> >> \o
    IF insensitive /\ Varies(first) /\ Varies(last)
    THEN [c \in {1, 2} |-> << Code(Fold(first)[c]), Code(Fold(last)[c]) >>] ELSE <<>>

-----------------------------------------------------------------------------
(* Entry, alternations and sequences. *)

FlagRun(s) ==
    LET flags(k) == \A i \in 3..(k + 2) : s[i] \in { "i", "s" }
    IN  IF Len(s) < 2 \/ SubSeq(s, 1, 2) # << "(", "?" >> THEN 0
        ELSE Max({ k \in 0..(Len(s) - 2) : flags(k) })

\* The prefix counts only if it has a flag and is closed.
HasFlagPrefix(s) == FlagRun(s) > 0 /\ Len(s) > FlagRun(s) + 2 /\ s[FlagRun(s) + 3] = ")"

EmptyFrame(start) == [start |-> start, alternatives |-> <<>>, items |-> <<>>]
NoClass == [start |-> -1]

\* parse_with_flags called on the units s.
Entry(s, flag) ==
    LET prefixed == HasFlagPrefix(s)
        named == \E i \in 3..(FlagRun(s) + 2) : s[i] = "i"
    IN  [units |-> s, index |-> IF prefixed THEN FlagRun(s) + 3 ELSE 0,
         insensitive |-> flag \/ (prefixed /\ named),
         outcome |-> [kind |-> IF s = <<>> THEN "empty" ELSE "parsing"]]

Depth == Len(stack) - 1
InGroup == Depth > 0
Top == stack[Len(stack)]
Inside == Parsing /\ atom = <<>> /\ class = NoClass
AtSequenceEnd == Current \in { "|", NoUnit } \/ (InGroup /\ Current = ")")

\* Mutant of Clipped: a span may end behind the pattern.
ClippedNever(end) == end

Clipped(end) == Min({ end, Len(units) })

OnlyEmpty(e) == Nullable(e) /\ MinimumConsumed(e) = 0 /\ ~ CanConsume(e)

\* parse_with_flags after parse_alternation returned.
Finish(e) ==
    IF OnlyEmpty(e) THEN Fail(0, Len(units))
    ELSE /\ outcome' = [kind |-> "ok", expression |-> e]
         /\ UNCHANGED << units, insensitive, index, stack, atom, class >>

\* parse_group after parse_alternation returned; the group is an atom.
CloseGroup(e, after) ==
    IF At(after) # ")" THEN Fail(Top.start, Len(units))
    ELSE /\ index' = after + 1
         /\ stack' = Front(stack)
         /\ atom' = << e >>
         /\ UNCHANGED << units, insensitive, class, outcome >>

\* Mutant of Continues: an empty alternative at the end counts.
ContinuesAfterBar(after) == Current = "|"

\* A bar at the very end of a pattern or a group opens no alternative.
Continues(after) ==
    /\ Current = "|"
    /\ after # Len(units)
    /\ ~ (InGroup /\ At(after) = ")")

EndSequence ==
    /\ Inside /\ AtSequenceEnd
    /\ LET alternatives == Append(Top.alternatives, Sequence(Top.items))
           after == IF Current = "|" THEN index + 1 ELSE index
       IN  IF Continues(after)
           THEN /\ index' = after
                /\ stack' = [stack EXCEPT ![Len(stack)] =
                                [@ EXCEPT !.alternatives = alternatives, !.items = <<>>]]
                /\ UNCHANGED << units, insensitive, atom, class, outcome >>
           ELSE IF InGroup THEN CloseGroup(Alternation(alternatives), after)
                ELSE Finish(Alternation(alternatives))

-----------------------------------------------------------------------------
(* Atoms. *)

AtomStart == Inside /\ ~ AtSequenceEnd

TakeAtom(e, after) ==
    /\ atom' = << e >>
    /\ index' = after
    /\ UNCHANGED << units, insensitive, stack, class, outcome >>

Refuse == AtomStart /\ Current \in RepetitionOperators \cup { ")" } /\ Fail(index, index + 1)

Dot == AtomStart /\ Current = "." /\ TakeAtom(PredicateHir(AnySymbol), index + 1)
Anchor ==
    \/ AtomStart /\ Current = "^" /\ TakeAtom(AssertionOf("LineStart"), index + 1)
    \/ AtomStart /\ Current = "$" /\ TakeAtom(AssertionOf("LineEnd"), index + 1)

PlainUnit ==
    /\ AtomStart
    /\ Current \notin RepetitionOperators \cup { ".", "\\", "[", "(", ")", "^", "$" }
    /\ TakeAtom(Literal(Current), index + 1)

Escape ==
    /\ AtomStart /\ Current = "\\"
    /\ LET u == At(index + 1) IN
       \/ u = NoUnit /\ Fail(index, index + 1)
       \/ u \in EscapedLiterals /\ TakeAtom(Literal(u), index + 2)
       \/ u \in Controls /\ TakeAtom(SymbolOf(Control(u)), index + 2)
       \/ u \in Shorthands /\ TakeAtom(PredicateHir(Shorthand(u)), index + 2)
       \/ u = "b" /\ TakeAtom(AssertionOf("WordBoundary"), index + 2)
       \/ u = "B" /\ TakeAtom(AssertionOf("NonWordBoundary"), index + 2)
       \/ /\ u \notin EscapedLiterals \cup Controls \cup Shorthands \cup { NoUnit, "b", "B" }
          /\ Fail(index, index + 2)

NestingIsFull == Depth = MaxNesting

\* An empty group is settled before the nesting limit is looked at.
OpenGroup ==
    /\ AtomStart /\ Current = "("
    /\ LET marked == At(index + 1) = "?"
           after == IF marked THEN index + 3 ELSE index + 1
       IN  IF marked /\ At(index + 2) # ":" THEN Fail(index, Clipped(index + 2))
           ELSE IF At(after) = ")" THEN TakeAtom(Never, after + 1)
           ELSE IF NestingIsFull
           THEN /\ outcome' = [kind |-> "too deep"]
                /\ UNCHANGED << units, insensitive, index, stack, atom, class >>
           ELSE /\ stack' = Append(stack, EmptyFrame(index))
                /\ index' = after
                /\ UNCHANGED << units, insensitive, atom, class, outcome >>

-----------------------------------------------------------------------------
(* Repetition operators. *)

IsDigit(u) == Code(u) \in Code("0")..Code("9")
EndOfDigits(i) ==
    Max({ j \in i..Len(units) : \A k \in i..(j - 1) : IsDigit(At(k)) } \cup { i })

Saturated(value) == Min({ value, MaxCounted + 1 })

\* parse_count from position i.
Count(i) ==
    LET end == EndOfDigits(i)
        value == FoldLeft(LAMBDA v, u : Saturated(10 * v + Code(u) - Code("0")), 0,
                          SubSeq(units, i + 1, end))
    IN  [end |-> end, value |-> value, valid |-> end > i /\ value <= MaxCounted,
         refused |-> Clipped(Max({ end, i + 1 }))]

Bounds(min, max, after) == [valid |-> TRUE, min |-> min, max |-> max, after |-> after]
NoBounds(end) == [valid |-> FALSE, end |-> end]

\* parse_counted_repetition up to its final test.
CountedBounds ==
    LET min == Count(index + 1)
        max == Count(min.end + 1)
    IN  IF ~ min.valid THEN NoBounds(min.refused)
        ELSE IF At(min.end) = "}" THEN Bounds(min.value, min.value, min.end + 1)
        ELSE IF At(min.end) # "," THEN NoBounds(Clipped(min.end))
        ELSE IF At(min.end + 1) = "}" THEN Bounds(min.value, Unbounded, min.end + 2)
        ELSE IF ~ max.valid THEN NoBounds(max.refused)
        ELSE IF At(max.end) # "}" THEN NoBounds(Clipped(max.end))
        ELSE Bounds(min.value, max.value, max.end + 1)

OperatorBounds ==
    CASE Current = "?" -> Bounds(0, 1, index + 1)
      [] Current = "*" -> Bounds(0, Unbounded, index + 1)
      [] Current = "+" -> Bounds(1, Unbounded, index + 1)
      [] Current = "{" -> CountedBounds

Ordered(b) == b.max = Unbounded \/ (b.min <= b.max /\ b.max # 0)

TakeItem(e, after) ==
    /\ stack' = [stack EXCEPT ![Len(stack)].items = Append(@, e)]
    /\ atom' = <<>>
    /\ index' = after
    /\ UNCHANGED << units, insensitive, class, outcome >>

PlainAtom ==
    /\ Parsing /\ atom # <<>> /\ Current \notin RepetitionOperators
    /\ TakeItem(atom[1], index)

\* An operator may not follow an operator.
Repetition ==
    /\ Parsing /\ atom # <<>> /\ Current \in RepetitionOperators
    /\ LET b == OperatorBounds IN
       IF ~ b.valid THEN Fail(index, b.end)
       ELSE IF ~ Ordered(b) THEN Fail(index, b.after)
       ELSE IF At(b.after) \in RepetitionOperators THEN Fail(index, b.after + 1)
       ELSE TakeItem(Repeat(atom[1], b.min, b.max), b.after)

-----------------------------------------------------------------------------
(* Character classes. *)

OpenClass ==
    /\ AtomStart /\ Current = "["
    /\ LET inverted == At(index + 1) = "^" IN
       /\ class' = [start |-> index, inverted |-> inverted, predicate |-> NoSymbol,
                    pending |-> <<>>, range |-> <<>>]
       /\ index' = IF inverted THEN index + 2 ELSE index + 1
    /\ UNCHANGED << units, insensitive, stack, atom, outcome >>

InClass == Parsing /\ class # NoClass

\* What a literal waiting for a range sign adds when none came.
Flushed == IF class.pending = <<>> THEN class.predicate
           ELSE WithLiteral(class.predicate, class.pending[1])

CloseClass ==
    /\ InClass /\ Current \in { "]", NoUnit }
    /\ IF Current = NoUnit THEN Fail(class.start, index)
       ELSE IF class.range # <<>> THEN Fail(class.start, index + 1)
       ELSE /\ atom' = << PredicateHir(IF class.inverted THEN Complement(Flushed) ELSE Flushed) >>
            /\ class' = NoClass
            /\ index' = index + 1
            /\ UNCHANGED << units, insensitive, stack, outcome >>

TakeToken(c, after) ==
    /\ class' = c
    /\ index' = after
    /\ UNCHANGED << units, insensitive, stack, atom, outcome >>

\* A literal ends a range, or waits for one and lets the literal before it go.
ClassUnit(u, after) ==
    IF class.range = <<>>
    THEN TakeToken([class EXCEPT !.predicate = Flushed, !.pending = << u, index >>], after)
    ELSE LET ranges == ClassRanges(class.range[1], u) IN
         IF \E i \in DOMAIN ranges : ranges[i][1] > ranges[i][2] THEN Fail(class.range[2], after)
         ELSE TakeToken([class EXCEPT !.range = <<>>, !.predicate =
                  InsertRanges(@, ranges)], after)

ClassSet(p, after) ==
    IF class.range # <<>> THEN Fail(class.start, after)
    ELSE TakeToken([class EXCEPT !.predicate = Joined(Flushed, p), !.pending = <<>>], after)

\* The sign needs a literal that waits: none does after another sign.
RangeSign ==
    IF class.pending = <<>> THEN Fail(index, index + 1)
    ELSE TakeToken([class EXCEPT !.range = class.pending, !.pending = <<>>], index + 1)

ClassToken ==
    /\ InClass /\ Current \notin { "]", NoUnit }
    /\ LET u == At(index + 1) IN
       \/ Current \notin { "-", "\\" } /\ ClassUnit(Current, index + 1)
       \/ Current = "-" /\ RangeSign
       \/ /\ Current = "\\"
          /\ \/ u = NoUnit /\ Fail(index, index + 1)
             \/ u \in { "\\", "]", "[", "-", "^" } /\ ClassUnit(u, index + 2)
             \/ u \in Controls /\ ClassUnit(Control(u), index + 2)
             \/ u \in { "d", "w", "s" } /\ ClassSet(Shorthand(u), index + 2)
             \/ /\ u \notin { NoUnit, "\\", "]", "[", "-", "^", "d", "w", "s" } \cup Controls
                /\ Fail(index, index + 2)

ParseStep ==
    \/ EndSequence \/ Refuse \/ Dot \/ Anchor \/ PlainUnit \/ Escape \/ OpenGroup
    \/ PlainAtom \/ Repetition \/ OpenClass \/ ClassToken \/ CloseClass
=============================================================================
