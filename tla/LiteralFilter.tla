---------------------------- MODULE LiteralFilter -----------------------------
(***************************************************************************)
(* The literal tables of rustmatch/src/prefilter.rs (LiteralPrefilter) and  *)
(* their union over partitions (rustmatch/src/shared_candidate.rs,          *)
(* UnionLiteralFilter).                                                     *)
(*                                                                          *)
(* Every pattern of a filtered set owes a literal its matches begin with, a *)
(* hint.  A hint is filed by its length: one exact table for the shortest   *)
(* length, hashed tables for the next length and for everything longer.     *)
(* Units outside ASCII are in no table; a start that shows one is admitted. *)
(* A filter is a record                                                     *)
(*    has     per table, whether a hint was filed in it                     *)
(*    table   per table, the indices whose bit is set                       *)
(***************************************************************************)
EXTENDS Integers, Sequences, FiniteSets

CONSTANTS
    Ascii,         \* the UTF-16 code units below 128
    MinLiteral,    \* MIN_LITERAL_UNITS
    HashIndex(_)   \* prefix_hash_index: any function of the units

ASSUME FilterAssumption == MinLiteral \in Nat \ {0}

\* The lengths of the three tables: 3, 4 and 5 units in the code.
Tables == MinLiteral..(MinLiteral + 2)

\* The n units at a start; a start is zero-based.
UnitsAt(input, start, n) == SubSeq(input, start + 1, start + n)

AllAscii(units) == \A i \in DOMAIN units : units[i] \in Ascii

\* ascii_triple_index is injective, prefix_hash_index need not be.
IndexOf(units) == IF Len(units) = MinLiteral THEN units ELSE HashIndex(units)

\* The table a hint is filed in; the last one takes every longer hint too.
TableOf(hint) == IF Len(hint) > MinLiteral + 2 THEN MinLiteral + 2 ELSE Len(hint)

CompileFilter(hints) ==
    [has   |-> [n \in Tables |-> \E h \in hints : TableOf(h) = n],
     table |-> [n \in Tables |->
                  { IndexOf(UnitsAt(h, 0, n)) :
                      h \in { g \in hints : TableOf(g) = n /\ AllAscii(UnitsAt(g, 0, n)) } }]]

(***************************************************************************)
(* prefix_allows and allows_start, with the bound their callers test first. *)
(* The code looks at three units, then at a fourth, then at a fifth: a      *)
(* start near the end of the input is judged by the tables that fit.        *)
(***************************************************************************)
Admits(filter, input, start) ==
    \E n \in Tables :
        /\ start + n <= Len(input)
        /\ \/ ~ AllAscii(UnitsAt(input, start, n))
           \/ filter.has[n] /\ IndexOf(UnitsAt(input, start, n)) \in filter.table[n]

\* Mutant of UnionOf: the flags of the first filter are kept.
UnionOfTables(filters) ==
    [has   |-> filters[1].has,
     table |-> [n \in Tables |-> UNION { filters[i].table[n] : i \in DOMAIN filters }]]

\* The bits and flags of several partitions' filters, joined.
UnionOf(filters) ==
    [has   |-> [n \in Tables |-> \E i \in DOMAIN filters : filters[i].has[n]],
     table |-> [n \in Tables |-> UNION { filters[i].table[n] : i \in DOMAIN filters }]]

\* The starts a filter admits in an input: its private candidates.
Admitted(filter, input) == { s \in 0..(Len(input) - 1) : Admits(filter, input, s) }
=============================================================================
