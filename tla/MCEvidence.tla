------------------------------- MODULE MCEvidence -------------------------------
(***************************************************************************)
(* The command-line programs around the library.  They share no state while *)
(* they run, only files afterwards; an invocation is of one of them, and    *)
(* what the others keep stays as it is.                                     *)
(*                                                                          *)
(* In the instance, pattern lists are as in MCFrontEnd and gates as in      *)
(* MCGate. A matcher delivers two events, in both orders, doubled or one of *)
(* them, within a few nanoseconds; receipts stand on both sides of every    *)
(* limit of every admission; a repository of two documents changes once and *)
(* a command is interrupted once; a fixture set and Java's results of it    *)
(* fit or fail to fit in every way.                                         *)
(***************************************************************************)
EXTENDS MCFrontEnd, Measurement, Admission, Publication, Parity, MCGate, Bitwise

\* The states of a program that was not invoked.
AnyCommand == CHOOSE c \in Commands : TRUE
AnyRequest == CHOOSE r \in Requests : TRUE
AnyLedger == CHOOSE l \in Ledgers : TRUE
AnyCampaign == CHOOSE c \in Campaigns : TRUE

FrontIdle ==
    /\ NoCall /\ rows = <<>> /\ registered = <<>> /\ status = "idle"
    /\ facts = <<>> /\ free = <<>> /\ bearing = <<>> /\ receipts = <<>>
MeasureIdle ==
    /\ measuring = AnyCommand /\ measured = "idle" /\ scans = <<>> /\ evidence = <<>>
    /\ warmup_ns = <<>> /\ scan_ns = <<>> /\ median_scan_ns = -1
AdmissionIdle == request = AnyRequest /\ decision = "idle" /\ table = NoTable
PublicationIdle ==
    /\ ledger = AnyLedger /\ tree = <<>> /\ task = "none" /\ queue = <<>> /\ published = "none"
    /\ renders = 0 /\ edits = 0 /\ crashes = 0
ParityIdle ==
    /\ campaign = AnyCampaign /\ family = 1 /\ case = 0 /\ remaining = <<>> /\ configuration = 0
    /\ reference = None /\ observed = {} /\ comparisons = 0 /\ conclusion = "idle"
GateIdle ==
    /\ invoked = "none" /\ truth = {} /\ homes = <<>> /\ java = <<>> /\ done = <<>>
    /\ stage = "first" /\ temporary = <<>> /\ written = {} /\ gate = "idle"

\* rustmatch-bench reads a pattern list, measures, or admits what was measured;
BenchRun ==
    /\ PublicationIdle /\ ParityIdle /\ GateIdle
    /\ \/ MeasureIdle /\ AdmissionIdle /\ FrontInit
       \/ FrontIdle /\ AdmissionIdle /\ MeasureInit
       \/ FrontIdle /\ MeasureIdle /\ AdmissionInit

\* cargo xtask publishes the ledger or runs a gate;
XtaskRun ==
    /\ FrontIdle /\ MeasureIdle /\ AdmissionIdle /\ ParityIdle
    /\ \/ GateIdle /\ PublicationInit
       \/ PublicationIdle /\ GateInit

\* and rustmatch-compat verifies.
CompatRun ==
    /\ FrontIdle /\ MeasureIdle /\ AdmissionIdle /\ PublicationIdle /\ GateIdle
    /\ ParityInit

EvidenceInit == BenchRun \/ XtaskRun \/ CompatRun

EvidenceNext ==
    \/ FrontNext /\ UNCHANGED << measureVars, admissionVars, publicationVars, parityVars, gateVars >>
    \/ MeasureStep /\ UNCHANGED << frontVars, admissionVars, publicationVars, parityVars, gateVars >>
    \/ AdmissionStep /\ UNCHANGED << frontVars, measureVars, publicationVars, parityVars, gateVars >>
    \/ PublicationStep /\ UNCHANGED << frontVars, measureVars, admissionVars, parityVars, gateVars >>
    \/ ParityStep /\ UNCHANGED << frontVars, measureVars, admissionVars, publicationVars, gateVars >>
    \/ GateStep /\ UNCHANGED << frontVars, measureVars, admissionVars, publicationVars, parityVars >>

EvidenceSpec ==
    EvidenceInit /\ [][EvidenceNext]_<< frontVars, measureVars, admissionVars, publicationVars,
                                        parityVars, gateVars >>

-----------------------------------------------------------------------------
(* Measurement *)
OneEvent == [pattern |-> 1, hash |-> 3]
TwoEvent == [pattern |-> 2, hash |-> 6]
MCExpected == << OneEvent, TwoEvent >>
MCDeliveries == { << OneEvent, TwoEvent >>, << TwoEvent, OneEvent >>, << OneEvent, OneEvent >>, << OneEvent >> }
MCCommands ==
    { HarnessRun(1, 2), HarnessRun(2, 1), ExperimentalRun(1, 2), ExperimentalRun(0, 2),
      LiteralTripwire(1, 3), I6Scan(1, 2), I7Scan(1, 2), WutheringScan(1, 2) }
MCHash(e) == e.hash
MCPatternOf(e) == e.pattern
MCXor(a, b) == a ^^ b

-----------------------------------------------------------------------------
(* Admission *)
Receipt ==
    [kind |-> "C1", sound |-> TRUE, fixture |-> "sparse", runner |-> "host", revision |-> "r1",
     gate |-> "", expected_path |-> "", mode |-> "on", workers |-> 1, warmups |-> 3,
     samples |-> 7, patterns |-> 1000, corpus |-> 4096, units |-> 4096, compile |-> 500,
     scan |-> 0, diagnosed |-> TRUE, path |-> "literal-prefilter", bypass |-> "none",
     retained |-> 0, bitmap |-> 512, measured_at |-> <<>>]
AllStarts(r) == [r EXCEPT !.mode = "off", !.path = "all-starts", !.bypass = "disabled", !.bitmap = 0]
Pair(command, b, c) == [command |-> command, receipts |-> << b, c >>]

\* Each admission: its command and a receipt of its kind.
Admissions ==
    { << "compare-tripwire", Receipt >>,
      << "compare-wuthering-tripwire", [Receipt EXCEPT !.kind = "I6-B1"] >>,
      << "compare-i7-wuthering", [Receipt EXCEPT !.kind = "I6-B1"] >>,
      << "compare-i7", [Receipt EXCEPT !.kind = "I7-P1", !.gate = "positive-10-percent-and-2-ms",
                                       !.expected_path = "literal-prefilter"] >>,
      << "compare-i7", [Receipt EXCEPT !.kind = "I7-P1", !.gate = "guard-3-percent-and-1-ms",
                                       !.expected_path = "start-table", !.path = "start-table",
                                       !.bypass = "input-size", !.bitmap = 0] >> }
    \cup { << "compare-i6", [Receipt EXCEPT !.kind = "I6-P1", !.gate = g] >> :
              g \in { "improvement-5-percent", "non-regression-3-percent", "other" } }
BaselineOf(a) ==
    IF a[1] \in { "compare-i7", "compare-i7-wuthering" } THEN AllStarts(a[2]) ELSE a[2]

\* Scan times next to every limit, seen from a few baselines.
Baselines == { 1, 100, 333, 2000, 3334, 10000, 20001 }
Limits(b) ==
    { b, b - b \div 20, b - b \div 10, b - 200, b + (3 * b) \div 100, b + (301 * b) \div 10000,
      b + 100, b + b \div 2, 2 * b, b + 5000, b + 10000 }
Scans(b) == UNION { { n - 1, n, n + 1 } : n \in Limits(b) } \cap (0..40000)
TimedPairs ==
    UNION { { Pair(a[1], [BaselineOf(a) EXCEPT !.scan = b], [a[2] EXCEPT !.scan = s]) :
                s \in Scans(b) } : b \in Baselines, a \in Admissions }

\* Either receipt, or both alike, with something wrong.
Flaws(r) ==
    { [r EXCEPT !.sound = FALSE], [r EXCEPT !.fixture = "dense"], [r EXCEPT !.runner = "other"],
      [r EXCEPT !.revision = "r2"], [r EXCEPT !.workers = 2], [r EXCEPT !.warmups = 1],
      [r EXCEPT !.samples = 3], [r EXCEPT !.patterns = 7], [r EXCEPT !.units = 0],
      [r EXCEPT !.mode = "on"], [r EXCEPT !.diagnosed = FALSE], [r EXCEPT !.path = "none"],
      [r EXCEPT !.retained = 8 * 1024 * 1024 + 1], [r EXCEPT !.bitmap = 66049],
      [r EXCEPT !.compile = 3001], [r EXCEPT !.compile = 0], [r EXCEPT !.kind = "other"],
      [r EXCEPT !.gate = "other"] }
Shared(r) == { [r EXCEPT !.warmups = 1, !.samples = 3], [r EXCEPT !.patterns = 7] }
Flawed ==
    UNION { LET b == [BaselineOf(a) EXCEPT !.scan = 10000]
                c == [a[2] EXCEPT !.scan = 8000]
            IN  { Pair(a[1], b, f) : f \in Flaws(c) } \cup { Pair(a[1], f, c) : f \in Flaws(b) }
                \cup { Pair(a[1], f, g) : f \in Shared(b), g \in Shared(c) } : a \in Admissions }

\* Tables of three receipts, and of two on either side of midnight on many days.
Scale == [Receipt EXCEPT !.kind = "I6-B1", !.scan = 9]
Days == 0..1500 \cup 10900..11100 \cup 47400..47600 \cup 83900..84100 \cup 156900..157100
Rows == { [Scale EXCEPT !.corpus = c, !.workers = w, !.measured_at = m] :
            c \in {1, 2}, w \in 0..2, m \in { <<>>, << 5, 3600 >> } }
Tables ==
    { [command |-> "render-table",
       receipts |-> << [Scale EXCEPT !.measured_at = << d + 1, 0 >>],
                       [Scale EXCEPT !.measured_at = << d, 86399 >>] >>] : d \in Days }
    \cup { [command |-> "render-table", receipts |-> r] : r \in [1..3 -> Rows] }
    \cup { [command |-> "render-table", receipts |-> << Scale, Receipt >>] }
MCRequests == TimedPairs \cup Flawed \cup Tables

-----------------------------------------------------------------------------
(* Publication *)
Doc(text, links, diagrams) == [text |-> text, links |-> links, diagrams |-> diagrams]
Guide == Source("guide.md")
Notes == Source("notes.md")
CodeFile == << "code", "lib.rs" >>
MCRevision == { "r1", "r2", "r3" }

Attempt(id, how, candidate, progress) ==
    [id |-> id, status |-> how, baseline |-> "r1", candidate |-> candidate,
     exception |-> FALSE, progress |-> progress]
Snapshot(current, revision) ==
    [current |-> current, revision |-> revision, review |-> "r1", scoped |-> TRUE, metrics |-> TRUE]
FirstLedger ==
    [title |-> "first", evidence |-> { Guide }, schema |-> 3, policy |-> TRUE,
     attempts |-> << Attempt("H1", "merged", "r2", << 6, 4 >>), Attempt("H2", "rejected", "r3", <<>>) >>,
     priorities |-> << 2, 1 >>, snapshots |-> << Snapshot(TRUE, "r2") >>]
SecondLedger ==
    [FirstLedger EXCEPT !.title = "second", !.evidence = { Notes, Markdown },
       !.attempts = @ \o << [Attempt("H3", "merged", "r3", << 5, 4 >>) EXCEPT !.exception = TRUE] >>,
       !.snapshots = << Snapshot(TRUE, "r3"), Snapshot(FALSE, "r2") >>]
StaleLedger == [SecondLedger EXCEPT !.snapshots = << Snapshot(TRUE, "r2"), Snapshot(FALSE, "r3") >>]
MCLedgers == { FirstLedger, SecondLedger, StaleLedger }

MCRepositories ==
    { (Guide :> Doc("guide", { Notes, CodeFile, AuditScale }, d)) @@ (AuditScale :> Doc("other", {}, {}))
        @@ (CodeFile :> Doc("other", {}, {})) : d \in { {}, { "flow" } } }
MCEdits ==
    { [path |-> Guide, document |-> Doc("guide anew", { Mirror(Notes), Index }, { "plan" })],
      [path |-> Notes, document |-> Doc("notes", { Guide }, { "flow" })],
      [path |-> Notes, document |-> Doc("a draft", {}, { Unterminated })],
      [path |-> Notes, document |-> <<>>], [path |-> Guide, document |-> <<>>] }

-----------------------------------------------------------------------------
(* Parity *)
Suited(id, expectation) == [id |-> id, sound |-> TRUE, expectation |-> expectation]
JavaResult(id, expectation, events) ==
    [id |-> id, sound |-> TRUE, expectation |-> expectation, rejection |-> expectation # "matched",
     status |-> IF expectation = "matched" THEN "matched" ELSE "rejected", events |-> events]

FixtureA == Suited("a", "matched")
FixtureB == Suited("b", "matched")
FixtureC == Suited("c", "rejected-invalid")
JavaA == JavaResult("a", "matched", << 1, 2 >>)
JavaB == JavaResult("b", "matched", << >>)
JavaC == JavaResult("c", "rejected-invalid", << >>)

\* Fixtures and results that fit, and many that do not.
Suits ==
    { [fixtures |-> f, java |-> j] :
        f \in { << FixtureA, FixtureC >>, << FixtureA, FixtureB >>, << FixtureA, FixtureA >>,
                << FixtureA, Suited("d", "unknown") >>, << [FixtureA EXCEPT !.sound = FALSE] >> },
        j \in { << JavaA, JavaC >>, << JavaC, JavaA >>, << JavaA, JavaB >>, << JavaA, JavaA >>,
                << JavaA >>, << JavaA, JavaA, JavaC >>,
                << [JavaA EXCEPT !.events = << 2, 1 >>], JavaC >>,
                << [JavaA EXCEPT !.rejection = TRUE], JavaC >>,
                << [JavaA EXCEPT !.status = "rejected"], JavaC >>,
                << JavaA, [JavaC EXCEPT !.expectation = "matched"] >>,
                << JavaA, JavaResult("d", "unknown", <<>>) >> } }
FittingSuite == [fixtures |-> << FixtureA, FixtureC >>, java |-> << JavaC, JavaA >>]
MCCampaigns ==
    { [program |-> "differential", suites |-> << s >>] : s \in Suits }
    \cup { [program |-> "parity", suites |-> << FittingSuite, s >>] : s \in Suits }
MCResults == { [kind |-> "events", events |-> e] : e \in { << 1, 2 >>, << 2, 1 >>, << >> } }
             \cup { [kind |-> "rejected", events |-> << >>] }
=============================================================================
