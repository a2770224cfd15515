------------------------------ MODULE Measurement ------------------------------
(***************************************************************************)
(* The scan loops of rustmatch-bench: a command builds a matcher, scans     *)
(* once, then scans for its warm-ups and its samples, judges what each scan *)
(* delivered, and issues a receipt.  The commands differ in whether the     *)
(* first scan is timed, in what a later scan is compared with, and how.     *)
(***************************************************************************)
EXTENDS Integers, Sequences, FiniteSets

CONSTANTS
    Commands,     \* the measuring commands, built with the operators below
    Expected,     \* the sorted events the campaign's fixture expects
    Deliveries,   \* what a scan may deliver: sequences of events
    Reports,      \* what a scan may report: its policy, backend and fallback
    Durations,    \* elapsed nanoseconds
    Hash(_),      \* event_hash
    PatternOf(_), \* the pattern of an event
    WordBits,     \* the width of a hash
    ExclusiveOr(_, _) \* exclusive or of two words, bit by bit

Event == UNION { { d[i] : i \in DOMAIN d } : d \in Deliveries \cup { Expected } }
HashWords == 0..(2^WordBits - 1)

Command ==
    [warmups : Nat, repeats : Nat \ {0}, timed : BOOLEAN, fixture : BOOLEAN,
     judged : { "count", "summary", "events" }, positive : BOOLEAN, experimental : BOOLEAN]

\* A command takes at least one sample. Exclusive or has the laws of the operation on bits.
ASSUME MeasurementAssumption ==
    /\ Commands \subseteq Command
    /\ Durations \subseteq Nat
    /\ Expected \in Seq(Event) /\ Deliveries \subseteq Seq(Event)
    /\ WordBits \in Nat \ {0} /\ \A k \in 0..WordBits : 2^k \in Nat \ {0}
    /\ \A e \in Event : Hash(e) \in HashWords /\ PatternOf(e) \in Nat
    /\ \A a, b, c \in HashWords :
          /\ ExclusiveOr(a, b) \in HashWords
          /\ ExclusiveOr(a, b) = ExclusiveOr(b, a)
          /\ ExclusiveOr(ExclusiveOr(a, b), c) = ExclusiveOr(a, ExclusiveOr(b, c))

VARIABLES
    measuring,    \* the command under way
    measured,     \* "build", "first", "loop", then how it ended
    scans,        \* every scan so far: its delivery, report and time
    evidence,     \* what the later scans are compared with
    warmup_ns,
    scan_ns,
    median_scan_ns

measureVars == << measuring, measured, scans, evidence, warmup_ns, scan_ns, median_scan_ns >>

-----------------------------------------------------------------------------
(* Event summaries: three sums in which the order of delivery is lost. *)

HashWord(n) == n % 2^WordBits
Rotated(n, by) ==
    LET k == by % WordBits IN HashWord(n * 2^k + n \div 2^(WordBits - k))

EmptySummary == [count |-> 0, sum |-> 0, xor |-> 0, sum_of_squares |-> 0]

AddEvent(summary, event) ==
    LET hash == Hash(event)
    IN  [count |-> summary.count + 1,
         sum |-> HashWord(summary.sum + hash),
         xor |-> ExclusiveOr(summary.xor, Rotated(hash, PatternOf(event))),
         sum_of_squares |-> HashWord(summary.sum_of_squares + hash * hash)]

EventSummary(events) ==
    LET add[i \in 0..Len(events)] ==
          IF i = 0 THEN EmptySummary ELSE AddEvent(add[i - 1], events[i])
    IN  add[Len(events)]

\* The events of a delivery with their multiplicity: a delivery that is sorted.
Sorted(events) ==
    [e \in { events[i] : i \in DOMAIN events } |->
        Cardinality({ i \in DOMAIN events : events[i] = e })]

-----------------------------------------------------------------------------
(* The commands. *)

\* harness-run and generic-run: the first scan is a warm-up, or the first sample
\* when there is none; the scans after it are only counted.
HarnessRun(warmups, repeats) ==
    [warmups |-> warmups, repeats |-> repeats, timed |-> TRUE, fixture |-> FALSE,
     judged |-> "count", positive |-> TRUE, experimental |-> FALSE]

\* experimental-run: the same, and each scan must report as the first did.
ExperimentalRun(warmups, repeats) ==
    [HarnessRun(warmups, repeats) EXCEPT !.experimental = TRUE]

\* A scan apart, checked against the fixture, comes before the warm-ups.
FixtureScan(warmups, repeats, judged) ==
    [warmups |-> warmups, repeats |-> repeats, timed |-> FALSE, fixture |-> TRUE,
     judged |-> judged, positive |-> FALSE, experimental |-> FALSE]

LiteralTripwire(warmups, repeats) == FixtureScan(warmups, repeats, "count")
I6Scan(warmups, repeats) == FixtureScan(warmups, repeats, "events")
I7Scan(warmups, repeats) == FixtureScan(warmups, repeats, "summary")

\* wuthering-scan has no fixture: a first scan apart says what to expect.
WutheringScan(warmups, repeats) ==
    [I7Scan(warmups, repeats) EXCEPT !.fixture = FALSE]

-----------------------------------------------------------------------------
MeasureInit ==
    /\ measuring \in Commands
    /\ measured = "build"
    /\ scans = <<>> /\ evidence = <<>>
    /\ warmup_ns = <<>> /\ scan_ns = <<>> /\ median_scan_ns = -1

End(how) ==
    /\ measured' = how
    /\ UNCHANGED << measuring, scans, evidence, warmup_ns, scan_ns, median_scan_ns >>

Build ==
    /\ measured = "build"
    /\ \/ End("first")
       \/ End("failed")
       \/ measuring.experimental /\ End("ineligible")

\* Before it delivers anything, a specialized scan may turn out not to be possible.
SpecializationUnavailable ==
    measured = "first" /\ measuring.experimental /\ End("ineligible")

ScanFails == measured \in { "first", "loop" } /\ End("failed")

Scan(delivery, report, ns) ==
    /\ measuring.experimental \/ report = CHOOSE r \in Reports : TRUE
    /\ scans' = Append(scans, [delivery |-> delivery, report |-> report, ns |-> ns])
    /\ UNCHANGED << measuring, median_scan_ns >>

\* Mutant of FirstSample: the first scan is a sample although it warmed up.
FirstSampleAlways(ns) == warmup_ns' = warmup_ns /\ scan_ns' = Append(scan_ns, ns)

FirstSample(ns) ==
    IF measuring.warmups = 0
    THEN warmup_ns' = warmup_ns /\ scan_ns' = Append(scan_ns, ns)
    ELSE warmup_ns' = Append(warmup_ns, ns) /\ scan_ns' = scan_ns

FirstScan ==
    /\ measured = "first"
    /\ \E d \in Deliveries, r \in Reports, ns \in Durations :
        /\ Scan(d, r, ns)
        /\ IF measuring.timed THEN FirstSample(ns) ELSE UNCHANGED << warmup_ns, scan_ns >>
        /\ evidence' = IF measuring.fixture THEN Expected ELSE d
        /\ measured' = IF measuring.fixture /\ Sorted(d) # Sorted(Expected) THEN "inconsistent" ELSE "loop"

Warming == measured = "loop" /\ Len(warmup_ns) < measuring.warmups
Sampling == measured = "loop" /\ Len(warmup_ns) = measuring.warmups /\ Len(scan_ns) < measuring.repeats

\* What a later scan delivered agrees with what is expected of it.
Agrees(delivery) ==
    CASE measuring.judged = "count" -> Len(delivery) = Len(evidence)
      [] measuring.judged = "summary" -> EventSummary(delivery) = EventSummary(evidence)
      [] measuring.judged = "events" -> Sorted(delivery) = Sorted(evidence)

SameReport(report) == measuring.experimental => report = scans[1].report

\* The time is taken before the scan is judged; a scan that differs ends the command.
Judged(delivery, report) ==
    measured' = IF SameReport(report) /\ Agrees(delivery) THEN "loop" ELSE "inconsistent"

WarmUp ==
    /\ Warming
    /\ \E d \in Deliveries, r \in Reports, ns \in Durations :
        /\ Scan(d, r, ns) /\ Judged(d, r)
        /\ warmup_ns' = Append(warmup_ns, ns)
    /\ UNCHANGED << evidence, scan_ns >>

Measure ==
    /\ Sampling
    /\ \E d \in Deliveries, r \in Reports, ns \in Durations :
        /\ Scan(d, r, ns) /\ Judged(d, r)
        /\ scan_ns' = Append(scan_ns, ns)
    /\ UNCHANGED << evidence, warmup_ns >>

\* The sample in the middle once they are sorted: as many come before it as half of them.
Median(samples) ==
    LET Earlier(i) == { j \in DOMAIN samples :
                            samples[j] < samples[i] \/ (samples[j] = samples[i] /\ j < i) }
    IN  samples[CHOOSE i \in DOMAIN samples : Cardinality(Earlier(i)) = Len(samples) \div 2]

Issue ==
    /\ measured = "loop" /\ ~ Warming /\ ~ Sampling
    /\ median_scan_ns' = Median(scan_ns)
    /\ measured' = IF measuring.positive /\ Median(scan_ns) = 0 THEN "failed" ELSE "measured"
    /\ UNCHANGED << measuring, scans, evidence, warmup_ns, scan_ns >>

MeasureStep ==
    \/ Build \/ SpecializationUnavailable \/ ScanFails
    \/ FirstScan \/ WarmUp \/ Measure \/ Issue

-----------------------------------------------------------------------------
\* The scans that were timed: all of them, or all but the one apart.
TimedScans == IF measuring.timed THEN scans ELSE Tail(scans)
Times == [i \in DOMAIN TimedScans |-> TimedScans[i].ns]

(***************************************************************************)
(* A receipt vouches for scans that were made: its times are the times of   *)
(* the scans in order, each counted once, a warm-up never as a sample; its  *)
(* median splits the samples in halves; and every one of these scans        *)
(* reported alike and delivered what the receipt counts.                    *)
(***************************************************************************)
MeasuredIsVouchedFor ==
    measured = "measured" =>
        /\ Times = warmup_ns \o scan_ns
        /\ Len(warmup_ns) = measuring.warmups /\ Len(scan_ns) = measuring.repeats
        /\ \A i \in DOMAIN scans :
            /\ Agrees(scans[i].delivery)
            /\ measuring.experimental => scans[i].report = scans[1].report
        /\ LET below == { i \in DOMAIN scan_ns : scan_ns[i] < median_scan_ns }
               above == { i \in DOMAIN scan_ns : scan_ns[i] > median_scan_ns }
           IN  /\ 2 * Cardinality(below) <= Len(scan_ns)
               /\ 2 * Cardinality(above) <= Len(scan_ns)
               /\ \E i \in DOMAIN scan_ns : scan_ns[i] = median_scan_ns
               /\ measuring.positive => median_scan_ns > 0

\* A command that finds its matcher unfit never delivered anything, and one is called
\* inconsistent only when scans differ in more than the order of their events, which a
\* parallel matcher is free to change.
RefusalsAreDeserved ==
    /\ measured = "ineligible" => scans = <<>> /\ warmup_ns \o scan_ns = <<>>
    /\ measured = "inconsistent" =>
        \/ Sorted(scans[Len(scans)].delivery) # Sorted(evidence)
        \/ scans[Len(scans)].report # scans[1].report

MeasurementIsHonest == MeasuredIsVouchedFor /\ RefusalsAreDeserved
=============================================================================
