------------------------------ MODULE CohortFacts ------------------------------
(***************************************************************************)
(* The pattern facts of rustmatch/src/cohort.rs and the report the          *)
(* benchmark tool makes of them (cohort_report in rustmatch-bench): a       *)
(* registered list is classified pattern by pattern, sorted into two        *)
(* cohorts, and paired again with the registered rows.                      *)
(***************************************************************************)
EXTENDS Hir

CONSTANTS
    Ascii,         \* the units below 128
    MaxPrefix,     \* MAX_PREFIX_UNITS
    Texts          \* the inputs over which the facts are judged

VARIABLES
    rows,        \* the pattern file: records [id, units, insensitive]
    registered,  \* the builder's patterns: records [id, expression]
    facts,       \* PatternDiagnostics, in registration order
    free,        \* assertion_free_pattern_ids
    bearing,     \* assertion_bearing_pattern_ids
    receipts,    \* the report's rows
    status       \* "parse", "classify", "report", "done", "refused", "rejected"

factVars == << rows, registered, facts, free, bearing, receipts, status >>

-----------------------------------------------------------------------------
(* Width facts: a number, or one of two more verdicts. *)

NoWidth == -1        \* MaximumConsumed::Impossible
NoLimit == -2        \* MaximumConsumed::Unbounded

\* An alternation is as wide as its widest possible branch.
WidestBranch(widths) ==
    LET all == { widths[i] : i \in DOMAIN widths }
    IN  IF NoLimit \in all THEN NoLimit ELSE Max(all \cup { NoWidth })

\* In a sequence the first item that has no number decides.
TotalWidth(widths) ==
    FoldLeft(LAMBDA total, w : IF total < 0 THEN total ELSE IF w < 0 THEN w ELSE total + w,
             0, widths)

RECURSIVE MaximumConsumed(_)
MaximumConsumed(e) ==
    LET items == [i \in DOMAIN e.items |-> MaximumConsumed(e.items[i])]
        item == MaximumConsumed(e.item)
    IN  CASE e.kind = "Never" -> NoWidth
          [] e.kind \in {"Epsilon", "Assertion"} -> 0
          [] e.kind = "Symbol" -> 1
          [] e.kind = "Predicate" -> IF e.symbols = {} THEN NoWidth ELSE 1
          [] e.kind = "Sequence" -> TotalWidth(items)
          [] e.kind = "Alternation" -> WidestBranch(items)
          [] e.kind = "Repeat" ->
                IF item = NoWidth \/ item = 0 THEN item
                ELSE IF item = NoLimit \/ e.max = Unbounded THEN NoLimit
                ELSE item * e.max

RECURSIVE AssertionKinds(_)
AssertionKinds(e) ==
    CASE e.kind = "Assertion" -> { e.assertion }
      [] e.kind \in {"Sequence", "Alternation"} ->
            UNION { AssertionKinds(e.items[i]) : i \in DOMAIN e.items }
      [] e.kind = "Repeat" -> AssertionKinds(e.item)
      [] OTHER -> {}

RECURSIVE AsciiOnly(_)
AsciiOnly(e) ==
    CASE e.kind = "Symbol" -> e.symbol \in Ascii
      [] e.kind = "Predicate" -> e.symbols \subseteq Ascii
      [] e.kind \in {"Sequence", "Alternation"} ->
            \A i \in DOMAIN e.items : AsciiOnly(e.items[i])
      [] e.kind = "Repeat" -> AsciiOnly(e.item)
      [] OTHER -> TRUE

RECURSIVE HirNodes(_)
HirNodes(e) ==
    1 + CASE e.kind \in {"Sequence", "Alternation"} ->
               FoldLeft(LAMBDA n, item : n + HirNodes(item), 0, e.items)
          [] e.kind = "Repeat" -> HirNodes(e.item)
          [] OTHER -> 0

-----------------------------------------------------------------------------
(* The necessary prefix, and whether it is the whole match. *)

Summary(units, exact) == [units |-> units, exact |-> exact]
Bounded(units, suffix) ==
    units \o SubSeq(suffix, 1, Min({ Len(suffix), MaxPrefix - Len(units) }))

\* Whether appending loses units, or leaves no room for an item still to come.
Cut(units, suffix, more) ==
    \/ Len(units) + Len(suffix) > MaxPrefix
    \/ Len(Bounded(units, suffix)) = MaxPrefix /\ more

\* Summaries appended one after the other until one is not exact or is cut.
Chained(summaries) ==
    LET step(acc, i) ==
          IF ~ acc.exact THEN acc
          ELSE Summary(Bounded(acc.units, summaries[i].units),
                       /\ summaries[i].exact
                       /\ ~ Cut(acc.units, summaries[i].units, i < Len(summaries)))
    IN  FoldLeft(step, Summary(<<>>, TRUE), [i \in DOMAIN summaries |-> i])

\* Mutant of Agree: alternatives need not be the same literal.
AgreeInLength(items) == \A i \in DOMAIN items : items[i].exact /\ Len(items[i].units) = Len(items[1].units)

\* Alternatives stand for one literal when each does, and for the same.
Agree(items) == \A i \in DOMAIN items : items[i].exact /\ items[i].units = items[1].units

RECURSIVE PrefixSummary(_)
PrefixSummary(e) ==
    LET items == [i \in DOMAIN e.items |-> PrefixSummary(e.items[i])]
        item == PrefixSummary(e.item)
        chain == Chained([i \in 1..e.min |-> item])
    IN  CASE e.kind \in {"Never", "Predicate"} -> Summary(<<>>, FALSE)
          [] e.kind \in {"Epsilon", "Assertion"} -> Summary(<<>>, TRUE)
          [] e.kind = "Symbol" -> Summary(<< e.symbol >>, TRUE)
          [] e.kind = "Sequence" -> Chained(items)
          [] e.kind = "Alternation" ->
                Summary(LongestCommonPrefix({ items[i].units : i \in DOMAIN items }),
                        Agree(items))
          [] e.kind = "Repeat" ->
                IF e.min = 0 THEN Summary(<<>>, e.max = 0)
                ELSE IF ~ item.exact THEN item
                ELSE Summary(chain.units, chain.exact /\ e.max = e.min)

Unproven == -1

Classified(ordinal, pattern) ==
    LET e == pattern.expression
        prefix == PrefixSummary(e)
    IN  [id |-> pattern.id, ordinal |-> ordinal, kinds |-> AssertionKinds(e),
         nullable |-> Nullable(e), minimum |-> MinimumConsumed(e),
         maximum |-> MaximumConsumed(e), ascii |-> AsciiOnly(e),
         literal |-> IF AssertionKinds(e) = {} /\ prefix.exact THEN Len(prefix.units) ELSE Unproven,
         prefix |-> Len(prefix.units), nodes |-> HirNodes(e)]

-----------------------------------------------------------------------------
(* The report. *)

JoinCohort(cohort, id) == Append(cohort, id)

\* The patterns are classified in registration order; each joins one cohort.
ClassifyNext ==
    /\ status = "classify" /\ Len(facts) < Len(registered)
    /\ LET new == Classified(Len(facts), registered[Len(facts) + 1]) IN
       /\ facts' = Append(facts, new)
       /\ IF new.kinds # {}
          THEN bearing' = JoinCohort(bearing, new.id) /\ free' = free
          ELSE free' = JoinCohort(free, new.id) /\ bearing' = bearing
    /\ UNCHANGED << rows, registered, receipts, status >>

StartReport ==
    /\ status = "classify" /\ Len(facts) = Len(registered)
    /\ status' = IF Len(rows) = Len(facts) THEN "report" ELSE "refused"
    /\ UNCHANGED << rows, registered, facts, free, bearing, receipts >>

\* maximum_consumed() and has_unbounded_maximum(), as the receipt tells them.
WidthStatus(f) ==
    IF f.maximum = NoLimit THEN "unbounded" ELSE IF f.maximum = NoWidth THEN "impossible" ELSE "finite"

\* A row is refused when its facts belong to another pattern.
ReportNext ==
    /\ status = "report" /\ Len(receipts) < Len(rows)
    /\ LET k == Len(receipts) + 1 IN
       IF rows[k].id # facts[k].id
       THEN status' = "refused" /\ receipts' = receipts
       ELSE /\ receipts' = Append(receipts, [pattern |-> rows[k].id,
                 cohort |-> IF facts[k].kinds = {} THEN "assertion-free" ELSE "assertion-bearing",
                 width |-> WidthStatus(facts[k]), filterable |-> facts[k].prefix >= 3])
            /\ status' = status
    /\ UNCHANGED << rows, registered, facts, free, bearing >>

FinishReport ==
    /\ status = "report" /\ Len(receipts) = Len(rows)
    /\ status' = "done"
    /\ UNCHANGED << rows, registered, facts, free, bearing, receipts >>

ReportStep == ClassifyNext \/ StartReport \/ ReportNext \/ FinishReport

-----------------------------------------------------------------------------
\* The spans a pattern denotes, as <<text, start, end>>.
Spans(e) ==
    UNION { UNION { { << t, s, p >> : p \in Ends(e, t, s) } : s \in 0..(Len(t) - 1) } : t \in Texts }

(***************************************************************************)
(* Every fact holds of every match: it is no shorter than the minimum, no   *)
(* longer than a finite maximum, begins with the necessary prefix, is       *)
(* exactly the proven literal where one is proven, and consumes only ASCII  *)
(* units when the pattern is called ASCII-only.  A literal that is proven   *)
(* is also found wherever its units stand in an input, so that a literal    *)
(* engine may take the pattern over.  Facts are judged as they are made.    *)
(***************************************************************************)
FactsHoldOfEveryMatch ==
    (status = "classify" /\ facts # <<>>) =>
        LET f == Last(facts)
            e == registered[Len(facts)].expression
            prefix == PrefixSummary(e).units
        IN  /\ \A m \in Spans(e) :
                LET consumed == SubSeq(m[1], m[2] + 1, m[3]) IN
                /\ Len(consumed) >= f.minimum
                /\ f.maximum >= 0 => Len(consumed) <= f.maximum
                /\ IsPrefix(prefix, consumed)
                /\ f.literal # Unproven => consumed = prefix
                /\ f.ascii => \A i \in DOMAIN consumed : consumed[i] \in Ascii
            /\ f.literal > 0 =>
                \A t \in Texts : \A s \in 0..(Len(t) - 1) :
                    IsPrefix(prefix, SubSeq(t, s + 1, Len(t)))
                        => s + Len(prefix) \in Ends(e, t, s)

(***************************************************************************)
(* A report lists every row of the file once, in order, with the facts of   *)
(* its own pattern, and each pattern in the one cohort its row names; the   *)
(* cohorts keep the order of registration.  No row is paired with another.  *)
(***************************************************************************)
ReportIsComplete ==
    /\ status # "refused"
    /\ status = "done" =>
        LET named(c) == SelectSeq(receipts, LAMBDA r : r.cohort = c)
            ids(list) == [i \in DOMAIN list |-> list[i].pattern]
        IN  /\ ids(receipts) = [i \in DOMAIN rows |-> rows[i].id]
            /\ free = ids(named("assertion-free"))
            /\ bearing = ids(named("assertion-bearing"))
            /\ \A k \in DOMAIN receipts :
                  receipts[k].cohort = "assertion-bearing" <=> UsesAssertions(registered[k].expression)

(***************************************************************************)
(* What a report tells is true: its facts hold of every match of the        *)
(* pattern they stand beside, and it leaves no row out.                     *)
(***************************************************************************)
ReportIsSound == FactsHoldOfEveryMatch /\ ReportIsComplete

(***************************************************************************)
(* What cohort.rs promises and a report prints: a pattern whose maximum is  *)
(* "impossible" is an impossible expression, which matches nothing.         *)
(***************************************************************************)
ImpossibleMatchesNothing ==
    \A k \in DOMAIN receipts :
        receipts[k].width = "impossible" => Spans(registered[k].expression) = {}
=============================================================================
