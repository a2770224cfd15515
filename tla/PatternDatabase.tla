--------------------------- MODULE PatternDatabase ---------------------------
(***************************************************************************)
(* The immutable pattern database of rustmatch (rustmatch/src/nfa.rs) as    *)
(* the engine sees it: one Thompson NFA shared by every pattern of a        *)
(* partition.  A database is a record                                       *)
(*                                                                          *)
(*   state      the dense state identifiers                                 *)
(*   root       the state every scan starts from                            *)
(*   epsilon    pairs <<from, to>>                                          *)
(*   assertion  triples <<from, assertion, to>>                             *)
(*   consuming  triples <<from, symbols, to>>: a Symbol edge carries a      *)
(*              singleton, a Predicate edge the set the predicate admits    *)
(*   terminals  for each state, the pattern ordinals that accept in it      *)
(*                                                                          *)
(* An input is a sequence of symbols.  Positions are zero-based as in the   *)
(* code: the unit at position p is input[p + 1].                            *)
(***************************************************************************)
EXTENDS Integers, Sequences, FiniteSets, SequencesExt

CONSTANTS
    Symbol,      \* the UTF-16 code units told apart
    LineFeed,    \* the unit '\n' (a member of Symbol, or no unit at all)
    WordSymbol,  \* the units is_ascii_word accepts
    Ordinal      \* pattern ordinals: positions in a partition's pattern list

ASSUME AlphabetAssumption ==
    /\ WordSymbol \subseteq Symbol
    /\ LineFeed \notin WordSymbol
    /\ Ordinal \subseteq Nat /\ IsFiniteSet(Ordinal)

Assertion == {"LineStart", "LineEnd", "WordBoundary", "NonWordBoundary"}

Database(states) ==
    [state     : {states},
     root      : states,
     epsilon   : SUBSET (states \X states),
     assertion : SUBSET (states \X Assertion \X states),
     consuming : SUBSET (states \X (SUBSET Symbol) \X states),
     terminals : [states -> SUBSET Ordinal]]

(***************************************************************************)
(* A database under construction: a graph on the states 0..size-1, whose    *)
(* first states are the roots, and the ordinals that its terminals accept.  *)
(* A database shared by two cohorts has a root for each.                    *)
(***************************************************************************)
EmptyGraph(size) == [size |-> size, epsilon |-> {}, assertion |-> {}, consuming |-> {}]
EmptyCompilation(roots) == [graph |-> EmptyGraph(roots), terminals |-> << >>]

AssertionFreeRoot == 0
AssertionBearingRoot == 1

\* The arrays of the finished database.
Freeze(built) ==
    LET states == 0..(built.graph.size - 1)
    IN  [state     |-> states,
         root      |-> 0,
         epsilon   |-> built.graph.epsilon,
         assertion |-> built.graph.assertion,
         consuming |-> built.graph.consuming,
         terminals |-> [s \in states |-> IF s \in DOMAIN built.terminals
                                         THEN built.terminals[s] ELSE {}]]

(***************************************************************************)
(* What an assertion edge asks of the input.  `after_current' is FALSE only *)
(* in the closure taken before the first unit of a candidate match: a line  *)
(* end never holds there.                                                   *)
(***************************************************************************)
IsWordAt(input, p) ==
    /\ p \in 0..(Len(input) - 1)
    /\ input[p + 1] \in WordSymbol

IsWordBoundary(input, p) == IsWordAt(input, p - 1) # IsWordAt(input, p)

AssertionMatches(assertion, input, p, after_current) ==
    CASE assertion = "LineStart" ->
            p = 0 \/ input[p] = LineFeed
      [] assertion = "LineEnd" ->
            /\ after_current
            /\ p = Len(input) \/ input[p + 1] = LineFeed
      [] assertion = "WordBoundary"    -> IsWordBoundary(input, p)
      [] assertion = "NonWordBoundary" -> ~ IsWordBoundary(input, p)

\* The edges a closure may follow without consuming a unit at position p.
FollowsWithoutConsuming(db, input, p, after_current) ==
    db.epsilon \cup
    { <<e[1], e[3]>> : e \in { a \in db.assertion :
                       AssertionMatches(a[2], input, p, after_current) } }

(***************************************************************************)
(* The depth-first closures of the engine.  Every one of them skips a state *)
(* already marked in its `visited' array, both as a seed and as a target,   *)
(* so what it appends to its output is what the seeds reach through states  *)
(* that were not marked when it began.  The order of the output does not    *)
(* matter: the cached engine sorts it, the others only iterate over it.     *)
(***************************************************************************)
ExtendClosure(states, edges, seeds, visited) ==
    LET grow[reached \in SUBSET states] ==
          LET more == { e[2] : e \in { f \in edges : /\ f[1] \in reached
                                                     /\ f[2] \notin reached
                                                     /\ f[2] \notin visited } }
          IN  IF more = {} THEN reached ELSE grow[reached \cup more]
    IN  states \cap grow[seeds \ visited]

ExtendEpsilonClosure(db, seeds, visited) ==
    ExtendClosure(db.state, db.epsilon, seeds, visited)

ExtendAssertionClosure(db, input, p, after_current, seeds, visited) ==
    ExtendClosure(db.state, FollowsWithoutConsuming(db, input, p, after_current),
                  seeds, visited)

\* The targets of the consuming edges that leave `source' on a symbol.
ConsumingTargets(db, source, symbol) ==
    { e[3] : e \in { f \in db.consuming : f[1] \in source /\ symbol \in f[2] } }

\* Every ordinal that accepts in some state of a set.
TerminalsOf(db, states) == UNION { db.terminals[s] : s \in states }

(***************************************************************************)
(* record_terminal and reset_terminals: the greatest end of each ordinal    *)
(* accepted from the current start.  NoEnd is the code's None; an end is at *)
(* least 1 because a unit has been consumed before anything is recorded.    *)
(* Ends are recorded left to right, so the last one recorded is kept.       *)
(***************************************************************************)
NoEnd == 0

RecordTerminals(best_end, ordinals, end) ==
    [o \in Ordinal |-> IF o \in ordinals THEN end ELSE best_end[o]]

ResetTerminals(best_end, touched) ==
    [o \in Ordinal |-> IF o \in touched THEN NoEnd ELSE best_end[o]]

\* What one start delivers to the sink: touched_ordinals is sorted first, so the
\* events <<start, ordinal, end>> come in ordinal order.
Ascending(S) ==
    [i \in 1..Cardinality(S) |->
        CHOOSE o \in S : Cardinality({ q \in S : q < o }) = i - 1]

EventsOf(start, best_end, touched) ==
    [i \in 1..Cardinality(touched) |->
        LET o == Ascending(touched)[i] IN <<start, o, best_end[o]>>]

(***************************************************************************)
(* The longest-match rule of docs/adr/0002-match-event-semantics.md, stated *)
(* on the NFA and not on the engine: a configuration <<p, q, consumed>> is  *)
(* a state q reached at position p, and a pattern matches start..end when   *)
(* some path from the root accepts there after consuming a unit.            *)
(***************************************************************************)
ConfigurationStep(db, input) ==
    { <<<<p, e[1], c>>, <<p, e[2], c>>>> :
         p \in 0..Len(input), e \in db.epsilon, c \in BOOLEAN }
    \cup
    (UNION { { <<<<p, e[1], c>>, <<p, e[3], c>>>> :
                 e \in { a \in db.assertion : AssertionMatches(a[2], input, p, c) } } :
             p \in 0..Len(input), c \in BOOLEAN })
    \cup
    (UNION { { <<<<p, e[1], c>>, <<p + 1, e[3], TRUE>>>> :
                 e \in { f \in db.consuming : input[p + 1] \in f[2] } } :
             p \in 0..(Len(input) - 1), c \in BOOLEAN })

ReachableConfigurations(db, root, input, start) ==
    ExtendClosure((0..Len(input)) \X db.state \X BOOLEAN,
                  ConfigurationStep(db, input), { <<start, root, FALSE>> }, {})

AcceptedEnds(configurations, db, ordinal) ==
    { c[1] : c \in { d \in configurations : d[3] /\ ordinal \in db.terminals[d[2]] } }

\* The events every conforming scan owes for one start.
LongestMatches(db, root, input, start) ==
    LET reached == ReachableConfigurations(db, root, input, start)
        ends(o) == AcceptedEnds(reached, db, o)
    IN  { <<start, o, Max(ends(o))>> : o \in { q \in Ordinal : ends(q) # {} } }

=============================================================================
