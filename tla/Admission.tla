------------------------------- MODULE Admission --------------------------------
(***************************************************************************)
(* What rustmatch-bench does with receipts once they are files: a baseline  *)
(* and a candidate are compared under the gate of their campaign, or scale  *)
(* receipts are set out in a table.  Times are counted in units of ten      *)
(* microseconds, in which every limit of the code is a whole number.        *)
(***************************************************************************)
EXTENDS Integers, Sequences, FiniteSetsExt, SequencesExt

CONSTANTS
    Requests,   \* the commands given: [command, receipts], the baseline first
    MaxPoints   \* stands for u128::MAX, what a quotient by zero becomes

\* A receipt as it is read; << >> where the measurement's day and second are not recorded.
Receipts ==
    [kind : STRING, sound : BOOLEAN, fixture : STRING, runner : STRING, revision : STRING,
     gate : STRING, expected_path : STRING, mode : STRING, workers : Nat, warmups : Nat,
     samples : Nat, patterns : Nat, corpus : Nat, units : Nat, compile : Nat, scan : Nat,
     diagnosed : BOOLEAN, path : STRING, bypass : STRING, retained : Nat, bitmap : Nat,
     measured_at : { << >> } \cup (Nat \X Nat)]

ComparisonCommands ==
    { "compare-tripwire", "compare-i6", "compare-i7", "compare-wuthering-tripwire",
      "compare-i7-wuthering" }

ASSUME AdmissionAssumption ==
    /\ MaxPoints \in Nat
    /\ \A r \in Requests :
          /\ r.command \in ComparisonCommands \cup { "render-table" }
          /\ r.receipts \in Seq(Receipts)
          /\ r.command \in ComparisonCommands => Len(r.receipts) = 2

VARIABLES
    request,
    decision,   \* "pending", "pass", or why the command failed
    table       \* the rows and the measurement window of the rendered report

admissionVars == << request, decision, table >>

NoTable == [rows |-> <<>>, window |-> <<>>, recorded |-> 0]

-----------------------------------------------------------------------------
(* What a receipt must say of itself, and what two receipts must share. *)

KindOf(command) ==
    CASE command = "compare-tripwire" -> "C1"
      [] command = "compare-i6" -> "I6-P1"
      [] command = "compare-i7" -> "I7-P1"
      [] OTHER -> "I6-B1"

ValidTripwire(r) == r.sound /\ r.scan # 0
ValidI6(r) == r.sound /\ r.compile # 0 /\ r.scan # 0
ValidScale(r) ==
    ValidI6(r) /\ r.patterns # 0 /\ r.corpus # 0 /\ r.workers # 0
ValidI7(r) ==
    ValidI6(r) /\ r.patterns # 0 /\ r.corpus # 0 /\ r.units # 0
               /\ r.warmups >= 3 /\ r.samples >= 7

\* The workers, the prefilter's mode and, of a scale receipt, the units are no part of it.
IdentityTripwire(r) == << r.fixture, r.patterns, r.corpus, r.warmups, r.samples >>
IdentityScale(r) == << r.fixture, r.patterns, r.corpus, r.warmups, r.samples >>
IdentityI6(r) == IdentityScale(r) \o << r.gate >>
IdentityI7(r) == IdentityScale(r) \o << r.gate, r.expected_path, r.units >>

Valid(r) ==
    CASE r.kind = "C1" -> ValidTripwire(r) [] r.kind = "I6-P1" -> ValidI6(r)
      [] r.kind = "I7-P1" -> ValidI7(r)    [] r.kind = "I6-B1" -> ValidScale(r)

Identity(r) ==
    CASE r.kind = "C1" -> IdentityTripwire(r) [] r.kind = "I6-P1" -> IdentityI6(r)
      [] r.kind = "I7-P1" -> IdentityI7(r)    [] r.kind = "I6-B1" -> IdentityScale(r)

\* The path an I7 scenario is frozen to take with the prefilter on.
TookExpectedPath(r) ==
    CASE r.expected_path = "literal-prefilter" -> r.path = "literal-prefilter" /\ r.bypass = "none"
      [] r.expected_path = "literal-or-density-bypass" ->
            r.path = "literal-prefilter" \/ (r.path = "start-table" /\ r.bypass = "dense-sample")
      [] r.expected_path = "assertion-bypass" -> r.path = "all-starts" /\ r.bypass = "assertions"
      [] r.expected_path = "start-table" -> r.path = "start-table"
      [] r.expected_path = "below-size-bypass" -> r.path = "start-table" /\ r.bypass = "input-size"
      [] OTHER -> FALSE

TookAllStarts(r) == r.path = "all-starts" /\ r.bypass = "disabled"

MaxRetained == 8 * 1024 * 1024
BitmapLimit(r) == (r.units + 7) \div 8 + 64 * 1024

-----------------------------------------------------------------------------
(* How much faster or slower, in hundredths of a percent rounded down. *)

Excess(x, y) == IF x > y THEN x - y ELSE 0

\* Mutant of Decrease: the improvement is measured against the candidate.
DecreaseOfCandidate(b, c) == IF c = 0 THEN MaxPoints ELSE (Excess(b, c) * 10000) \div c

Decrease(b, c) == IF b = 0 THEN MaxPoints ELSE (Excess(b, c) * 10000) \div b
Increase(b, c) == IF b = 0 THEN MaxPoints ELSE (Excess(c, b) * 10000) \div b
Slowdown(b, c) == Excess(IF b = 0 THEN MaxPoints ELSE (c * 10000) \div b, 10000)

-----------------------------------------------------------------------------
(* The comparisons: each is a list of checks, and the first to fail decides. *)

Check(reason, fails) == [reason |-> reason, fails |-> fails]

Decided(checks) ==
    LET failed == { i \in DOMAIN checks : checks[i].fails }
    IN  IF failed = {} THEN "pass" ELSE checks[Min(failed)].reason

Comparable(b, c) ==
    << Check("metadata", ~ Valid(b) \/ ~ Valid(c)),
       Check("fixture", Identity(b) # Identity(c)),
       Check("runner", b.runner # c.runner) >>

OneRevision(b, c) == Check("revision", b.revision # c.revision)
OneWorker(b, c) == Check("workers", b.workers # 1 \/ c.workers # 1)

\* A tripwire fires only when both its limits are exceeded.
Tripwire(b, c, points, ns) ==
    Check("regression", Slowdown(b.scan, c.scan) > points /\ Excess(c.scan, b.scan) >= ns)

TripwireLimits(b, c) == << Tripwire(b, c, 5000, 10000) >>

WutheringTripwireLimits(b, c) == << OneWorker(b, c), Tripwire(b, c, 10000, 5000) >>

I6Limits(b, c) ==
    << Check("compile", Increase(b.compile, c.compile) > 300),
       Check("improvement", b.gate = "improvement-5-percent" /\ Decrease(b.scan, c.scan) < 500),
       Check("regression", b.gate = "non-regression-3-percent" /\ Increase(b.scan, c.scan) > 300),
       Check("gate", b.gate \notin { "improvement-5-percent", "non-regression-3-percent" }) >>

PositiveGate(b, c) ==
    Check("improvement", Decrease(b.scan, c.scan) < 1000 \/ Excess(b.scan, c.scan) < 200)
GuardGate(b, c) ==
    Check("regression", Increase(b.scan, c.scan) > 300 /\ Excess(c.scan, b.scan) > 100)
CompileGuard(b, c) == Check("compile", Excess(c.compile, b.compile) > 2500)
Retained(c) == Check("resources", c.retained > MaxRetained \/ c.bitmap > BitmapLimit(c))

I7Limits(b, c) ==
    << OneRevision(b, c),
       Check("mode", b.mode # "off" \/ c.mode # "on"),
       Check("baseline path", ~ TookAllStarts(b)),
       Check("path", ~ TookExpectedPath(c)),
       Retained(c),
       Check("resources", c.path # "literal-prefilter" /\ c.bitmap # 0),
       CASE b.gate = "positive-10-percent-and-2-ms" -> PositiveGate(b, c)
         [] b.gate = "guard-3-percent-and-1-ms" -> GuardGate(b, c)
         [] OTHER -> Check("gate", TRUE),
       CompileGuard(b, c) >>

\* Receipts of older builds may lack the diagnostics.
I7WutheringLimits(b, c) ==
    << OneRevision(b, c), OneWorker(b, c),
       Check("iterations", b.warmups < 3 \/ b.samples < 7),
       Check("campaign", b.patterns \notin { 1000, 5000, 10000 }),
       Check("diagnostics", ~ b.diagnosed \/ ~ c.diagnosed),
       Check("baseline path", ~ TookAllStarts(b)),
       Check("path", c.path # "literal-prefilter" \/ c.bypass # "none"),
       Retained(c), PositiveGate(b, c), CompileGuard(b, c) >>

Judge(command, b, c) ==
    IF b.kind # KindOf(command) \/ c.kind # KindOf(command) THEN "unreadable"
    ELSE Decided(
        Comparable(b, c) \o
        CASE command = "compare-tripwire" -> TripwireLimits(b, c)
          [] command = "compare-i6" -> I6Limits(b, c)
          [] command = "compare-i7" -> I7Limits(b, c)
          [] command = "compare-wuthering-tripwire" -> WutheringTripwireLimits(b, c)
          [] command = "compare-i7-wuthering" -> I7WutheringLimits(b, c))

-----------------------------------------------------------------------------
(* The table of scale receipts, and the dates in it. *)

\* The civil date of a day counted from the epoch, in eras of 400 years from March 1.
CivilDate(days) ==
    LET shifted == days + 719468
        era == shifted \div 146097
        day_of_era == shifted - era * 146097
        year_of_era == (day_of_era - day_of_era \div 1460 + day_of_era \div 36524
                            - day_of_era \div 146096) \div 365
        day_of_year == day_of_era
                           - (365 * year_of_era + year_of_era \div 4 - year_of_era \div 100)
        month_prime == (5 * day_of_year + 2) \div 153
        month == month_prime + IF month_prime < 10 THEN 3 ELSE -9
    IN  << year_of_era + era * 400 + (IF month <= 2 THEN 1 ELSE 0),
           month,
           day_of_year - (153 * month_prime + 2) \div 5 + 1 >>

\* A day and a second of that day; digits of fixed width sort as the numbers they write.
Timestamp(at) ==
    CivilDate(at[1]) \o << at[2] \div 3600, (at[2] % 3600) \div 60, at[2] % 60 >>

Before(s, t) == \E i \in DOMAIN s : s[i] < t[i] /\ \A j \in 1..(i - 1) : s[j] = t[j]
RowKey(r) == << r.corpus, r.patterns, r.workers >>

\* The places of the keys of a list once it is sorted; equal keys keep their order.
SortedPlaces(keys) ==
    LET Earlier(i) == { j \in DOMAIN keys :
                            Before(keys[j], keys[i]) \/ (keys[j] = keys[i] /\ j < i) }
    IN  [n \in DOMAIN keys |-> CHOOSE i \in DOMAIN keys : Cardinality(Earlier(i)) = n - 1]

Table(receipts) ==
    LET place == SortedPlaces([i \in DOMAIN receipts |-> RowKey(receipts[i])])
        dated == { i \in DOMAIN receipts : receipts[i].measured_at # <<>> }
        times == { Timestamp(receipts[i].measured_at) : i \in dated }
    IN  [rows |-> [n \in DOMAIN receipts |-> receipts[place[n]]],
         window |-> IF times = {} THEN <<>>
                    ELSE << CHOOSE t \in times : \A u \in times : ~ Before(u, t),
                            CHOOSE t \in times : \A u \in times : ~ Before(t, u) >>,
         recorded |-> Cardinality(dated)]

-----------------------------------------------------------------------------
Compare ==
    /\ decision = "pending" /\ request.command # "render-table"
    /\ decision' = Judge(request.command, request.receipts[1], request.receipts[2])
    /\ UNCHANGED << request, table >>

\* All are read before the first is validated; one that is not fit stops the table.
RenderTable ==
    /\ decision = "pending" /\ request.command = "render-table"
    /\ LET given == ToSet(request.receipts) IN
       decision' = Decided(<< Check("unreadable", \E r \in given : r.kind # "I6-B1"),
                              Check("metadata", \E r \in given : ~ Valid(r)) >>)
    /\ table' = IF decision' = "pass" THEN Table(request.receipts) ELSE NoTable
    /\ UNCHANGED request

AdmissionInit == request \in Requests /\ decision = "pending" /\ table = NoTable
AdmissionStep == Compare \/ RenderTable

-----------------------------------------------------------------------------
(* The properties, in exact ratios: x percent faster is (b - c) / b >= x / 100. *)

Baseline == request.receipts[1]
Candidate == request.receipts[2]
Campaign == IF Baseline.kind \in { "I6-P1", "I7-P1" } THEN Baseline.gate ELSE request.command

FasterBy(percent) == 100 * (Baseline.scan - Candidate.scan) >= percent * Baseline.scan
SlowerBy(percent) == 100 * (Candidate.scan - Baseline.scan) > percent * Baseline.scan

\* Wherever a limit in percent is rounded, it is by less than a hundredth of a percent.
SlowerByMoreThanRounding(percent) ==
    10000 * (Candidate.scan - Baseline.scan) >= (100 * percent + 1) * Baseline.scan

\* The limits a campaign is named for.
WithinLimits ==
    CASE Campaign = "improvement-5-percent" -> FasterBy(5)
      [] Campaign = "non-regression-3-percent" -> ~ SlowerByMoreThanRounding(3)
      [] Campaign \in { "positive-10-percent-and-2-ms", "compare-i7-wuthering" } ->
            FasterBy(10) /\ Baseline.scan - Candidate.scan >= 200
      [] Campaign = "guard-3-percent-and-1-ms" ->
            ~ SlowerByMoreThanRounding(3) \/ Candidate.scan - Baseline.scan <= 100
      [] Campaign = "compare-tripwire" ->
            ~ SlowerByMoreThanRounding(50) \/ Candidate.scan - Baseline.scan < 10000
      [] Campaign = "compare-wuthering-tripwire" ->
            ~ SlowerByMoreThanRounding(100) \/ Candidate.scan - Baseline.scan < 5000

\* What passes is comparable and within its limits.
PassesWithinLimits ==
    decision = "pass" /\ request.command # "render-table" =>
        /\ Identity(Baseline) = Identity(Candidate) /\ Baseline.runner = Candidate.runner
        /\ WithinLimits

\* What is refused for its time is beyond them.
RefusesBeyondLimits ==
    /\ decision = "improvement" =>
        CASE Campaign = "improvement-5-percent" -> ~ FasterBy(5)
          [] OTHER -> ~ FasterBy(10) \/ Baseline.scan - Candidate.scan < 200
    /\ decision = "regression" =>
        CASE Campaign = "compare-tripwire" -> SlowerBy(50)
          [] Campaign = "compare-wuthering-tripwire" -> SlowerBy(100)
          [] OTHER -> SlowerBy(3)

\* A candidate is not refused for being faster, nor for a slower baseline.
FasterStillPasses ==
    decision = "pass" /\ request.command # "render-table" =>
        \A by \in { 1, Candidate.scan \div 2 } :
            /\ by < Candidate.scan =>
                Judge(request.command, Baseline, [Candidate EXCEPT !.scan = @ - by]) = "pass"
            /\ Judge(request.command, [Baseline EXCEPT !.scan = @ + by], Candidate) = "pass"

\* No two receipts are each an improvement on the other.
ImprovementIsOneWay ==
    decision = "pass" /\ request.command = "compare-i6" /\ Campaign = "improvement-5-percent" =>
        Judge("compare-i6", Candidate, Baseline) # "pass"

LeapYear(y) == y % 4 = 0 /\ (y % 100 = 0 => y % 400 = 0)
DaysIn(y, m) ==
    CASE m = 2 -> (IF LeapYear(y) THEN 29 ELSE 28) [] m \in { 4, 6, 9, 11 } -> 30 [] OTHER -> 31

\* The day after a date, by the calendar.
Tomorrow(date) ==
    IF date[3] < DaysIn(date[1], date[2]) THEN << date[1], date[2], date[3] + 1 >>
    ELSE IF date[2] < 12 THEN << date[1], date[2] + 1, 1 >>
    ELSE << date[1] + 1, 1, 1 >>

\* Every receipt of a table is a row of it, as often, and the rows are in order.
RowsAreTrue ==
    /\ \A r \in ToSet(request.receipts) \cup ToSet(table.rows) :
          Cardinality({ i \in DOMAIN table.rows : table.rows[i] = r })
              = Cardinality({ i \in DOMAIN request.receipts : request.receipts[i] = r })
    /\ \A i \in 1..(Len(table.rows) - 1) :
          ~ Before(RowKey(table.rows[i + 1]), RowKey(table.rows[i]))

\* The window of a table is that of its dates, which follow the calendar.
DatesAreTrue ==
    \A r \in ToSet(request.receipts) : r.measured_at # <<>> =>
        /\ ~ Before(Timestamp(r.measured_at), table.window[1])
        /\ ~ Before(table.window[2], Timestamp(r.measured_at))
        /\ r.measured_at[1] = 0 => CivilDate(0) = << 1970, 1, 1 >>
        /\ CivilDate(r.measured_at[1] + 1) = Tomorrow(CivilDate(r.measured_at[1]))

TableIsTrue == request.command = "render-table" /\ decision = "pass" => RowsAreTrue /\ DatesAreTrue

(***************************************************************************)
(* A comparison decides what its gate is named for, exactly but for the     *)
(* rounding of a hundredth of a percent, and stands when the candidate gets *)
(* faster; a table keeps every receipt and dates it by the calendar.        *)
(***************************************************************************)
AdmissionIsExact ==
    /\ PassesWithinLimits /\ RefusesBeyondLimits
    /\ FasterStillPasses /\ ImprovementIsOneWay
    /\ TableIsTrue
=============================================================================
