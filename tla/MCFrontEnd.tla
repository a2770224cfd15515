------------------------------ MODULE MCFrontEnd -------------------------------
(***************************************************************************)
(* Every pattern up to a length over small alphabets, each alphabet picked  *)
(* for one part of the grammar, and every expression of two levels over a   *)
(* few leaves.  Ten stands for the greatest count, two for the deepest      *)
(* nesting and for the longest prefix kept.                                 *)
(***************************************************************************)
EXTENDS FrontEnd

\* A short order of units that keeps the order of their values.
Order == << "\t", "\n", "VT", "\f", "\r", " ", "$", "(", ")", "*", "+", ",", "-", ".", "0", "1",
            "9", ":", "?", "A", "B", "D", "S", "W", "Z", "[", "\\", "]", "^", "_", "a", "b", "d", "f", "i", "n",
            "s", "t", "w", "z", "{", "|", "}" >>
Wide == { "E'", "e'", "near", "last" }
MCSymbol == { Order[i] : i \in DOMAIN Order } \cup Wide

MCLineFeed == "\n"

\* The digits keep their distance; the others only their order.
Place(u) == CHOOSE i \in DOMAIN Order : Order[i] = u
MCCode(u) == CASE u = "0" -> 48 [] u = "1" -> 49 [] u = "9" -> 57
               [] u = "E'" -> 128 [] u = "e'" -> 129 [] u = "near" -> 65534 [] u = "last" -> 65535
               [] OTHER -> IF Place(u) < Place("0") THEN Place(u) ELSE 60 + Place(u)

\* `w' stands for a unit with two cases that is neither of them.
MCFold(u) ==
    CASE u \in { "a", "A" } -> << "a", "A" >>
      [] u \in { "b", "B" } -> << "b", "B" >>
      [] u \in { "z", "Z" } -> << "z", "Z" >>
      [] u \in { "E'", "e'" } -> << "e'", "E'" >>
      [] u = "w" -> << "d", "D" >>
      [] OTHER -> << u, u >>

Over(alphabet, bound) == UNION { [1..n -> alphabet] : n \in 0..bound }

Structure == Over({ "a", "|", "(", ")", "*" }, 5)
Groups == { << "(" >> \o s : s \in Over({ "a", "?", ":", "(", ")" }, 4) \cup Over({ "a", "(", ")" }, 5) }
Counts == { << "a", "{" >> \o s : s \in Over({ "0", "1", ",", "}" }, 5) }
              \cup { << "a", "{", "1", "}" >> \o s : s \in Over({ "?", "{", "b" }, 2) }
Ranges == { << "[" >> \o s : s \in Over({ "a", "b", "-", "^", "]" }, 5) }
Sets == { << "[" >> \o s : s \in Over({ "a", "-", "]", "\\", "d" }, 4) }
Escapes == Over({ "\\", "b", "B", "n", "d", ".", "$", "z", "^" }, 3)
ShorthandEscapes == Over({ "\\", "s", "S", "w", "W", "D" }, 3)
ShorthandMembers == { << "[" >> \o s : s \in Over({ "\\", "s", "w", "^", "]" }, 5) }
Cases == { << "[" >> \o s : s \in Over({ "A", "b", "Z", "-", "]" }, 4) }
             \cup Over({ "a", "w", "[", "]" }, 3)
             \cup { << "[" >> \o s : s \in Over({ "E'", "e'", "-", "z", "]" }, 4) }
WideClasses == { << "[" >> \o s \o << "]" >> : s \in Over(Wide \cup { "-", "^" }, 4) }
Prefixed == { << "(", "?" >> \o s : s \in Over({ "i", "s", ")", "a", ":" }, 4) }

OneRow(s, flag) == << [id |-> 1, units |-> s, insensitive |-> flag] >>

\* Lists of three rows: two may name one pattern, one may be refused.
Lists ==
    { [i \in 1..3 |-> [id |-> ids[i], units |-> us[i], insensitive |-> FALSE]] :
        ids \in { << 7, 3, 5 >>, << 7, 3, 7 >> },
        us \in [1..3 -> { << "a" >>, << "a", "$" >>, << "b", "*" >> }] }

\* The patterns about cases ignore them; the others are read as they are.
MCFiles ==
    { { OneRow(s, FALSE) : s \in part } :
        part \in { Structure, Groups, Counts, Ranges, Sets, WideClasses, Escapes,
                  ShorthandEscapes, ShorthandMembers, Prefixed } }
    \cup { { OneRow(s, TRUE) : s \in Cases }, Lists }

MCProbes == Over({ "a", "b", "A" }, 2) \cup { << u >> : u \in MCSymbol } \cup { << "a", "a", "a" >> }

-----------------------------------------------------------------------------
(* Every expression of two levels, taken up after its parse. *)
Leaves == { SymbolOf("a"), SymbolOf("e'"), PredicateOf({}), PredicateOf({"a", "e'"}),
            Epsilon, Never, AssertionOf("WordBoundary"), AssertionOf("LineEnd") }
Counters == { <<0, 1>>, <<0, Unbounded>>, <<1, Unbounded>>, <<1, 2>>, <<2, 2>>, <<3, 3>> }
Pairs(S, T) ==
    { Sequence(<<x, y>>) : x \in S, y \in T } \cup { Sequence(<<y, x>>) : x \in S, y \in T }
    \cup { Alternation(<<x, y>>) : x \in S, y \in T }
Repeats(S) == { Repeat(x, b[1], b[2]) : x \in S, b \in Counters }

OneLevel == Leaves \cup Pairs(Leaves, Leaves) \cup Repeats(Leaves)
TwoLevels == { OneLevel, Repeats(OneLevel), { Sequence(<<x, y>>) : x \in OneLevel, y \in Leaves },
               { Sequence(<<y, x>>) : x \in OneLevel, y \in Leaves },
               { Alternation(<<x, y>>) : x \in OneLevel, y \in Leaves } }
MCRegistrations == { { << [id |-> 7, expression |-> e] >> : e \in level } : level \in TwoLevels }

MCTexts == UNION { [1..n -> {"a", "e'"}] : n \in 1..3 }
MCAscii == { u \in MCSymbol : MCCode(u) < 128 }

\* a[]? and a[]*: the class is empty, but it may be skipped.
SkippedClasses == { { OneRow(<< "a", "[", "]", u >>, FALSE) : u \in { "?", "*", "+" } },
                    { OneRow(s, FALSE) : s \in Over({ "a", "(", ")", "?" }, 4) } }
=============================================================================
