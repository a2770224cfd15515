# rustmatch: specifications, model checks and proofs

`rustmatch` matches many regular expressions at once: for every pattern and every
start position it reports the longest match from that start. The library compiles all
patterns into one NFA (or one per *partition*), picks candidate starts with a prefilter,
and runs one of several scan loops over the input; partitions are scanned by threads.
Around it stand the programs of the repository: a benchmark tool whose receipts decide
what is admitted, a compatibility runner that holds the library against a Java engine,
and the `xtask` commands that publish the results and gate a change.
This directory holds the TLA+ modules of that system, their TLC configurations, and
proofs checked by TLAPS. Paths without a directory below are in `src/rustmatch/src/`;
those of the other crates begin with `rustmatch-bench/`, `rustmatch-compat/` or `xtask/`.

Run a check with `tlc -config X.cfg M`, the proofs of a module with `tlapm M.tla`.

## 1. Inventory

| Component | State it keeps | Operations | Talks to |
|---|---|---|---|
| Builder (`api.rs`, `MatcherBuilder`) | identifiers, patterns, worker count, cache budget, cohort switch | `add_*`, setters, `build` | parser, compiler, partitioning |
| Parser (`parser.rs`) | a cursor and, on the call stack, the open alternations, the atom and the class being read | `parse_with_flags` | predicates, HIR constructors |
| Predicates, case folding (`predicate.rs`, `case_fold.rs`) | two words of bits below 128, sorted disjoint ranges above; a table | insert, union, complement, fold, `matches` | parser, compiler |
| Expression HIR (`hir.rs`) | none (a tree) | normalizing constructors; nullable, minimum consumed, can-consume, uses-assertions | read by parser, compiler, prefilter, partitioning |
| Pattern facts (`cohort.rs`) | none | `classify`: cohort, widths, anchors, assertions, literal prefix | HIR; read by the benchmark tool |
| NFA compiler (`nfa.rs`) | the graph under construction, per-state terminals and edges | `compile`, `compile_shared_cohorts` | HIR; result is read by all engines |
| Partitioning (`api.rs`, `api/cohort_runtime.rs`) | slices of the pattern list, budget shares | `compile_partitions`, `allocate_cohort_partitions` | compiler |
| Scan engines (`engine.rs`) | active/next lists, visit marks, longest ends, touched ordinals | `scan_with_stats` and its uncached loops | NFA, prefilter plan, sink |
| Lazy determinization (`engine.rs`, `DeterministicCache`) | interned state sets, transition slots, hash buckets, generation stamps, counters | `intern`, `transition`, the cached loop | NFA, sink |
| Parallel scheduler (`api.rs`, `api/cohort_runtime.rs`) | threads, buffered outputs, first errors and panics | `scan_parallel_with_hooks`, the cohort schedulers | one engine per thread, candidate plan, sink |
| Shared candidate plan (`shared_candidate.rs`, `shared_engine.rs`) | the union of the literal tables; a bitmap of candidate starts, filled by scoped threads | decide, split, test starts, join | prefilter, scheduler, engines |
| Prefilter (`prefilter.rs`) | literal tables, start table; per scan a candidate bitmap | compile, choose a plan, enumerate starts | HIR, NFA, engines |
| Assertion-prefix matcher (`experimental/assertion_prefix_v1.rs`, `api/cohort_view_runtime.rs`) | two roots in one database, the shared prefix; per call the buffered events | build with a static proof, scan under a policy | NFA, prefilter, engines |
| Benchmark tool (`rustmatch-bench/src/main.rs`) | per command the evidence of its scans and their times; receipts on disk | measuring loops; `compare-*` admissions; `render-table`; the cohort report | library, receipts |
| Publication (`xtask/src/optimization_ledger.rs`, `html_universe.rs`) | the ledger; its Markdown, HTML and chart; a page per Markdown source, a drawing per diagram | validate, write, generate the universe, verify | the repository's tree, an external renderer |
| Gates (`xtask/src/main.rs`) | temporary files of the Java oracle | `ci`, `evidence` | cargo, Java, the compatibility runner (exit statuses) |
| Compatibility runner (`rustmatch-compat/src/main.rs`, `cohort_parity.rs`) | Java's results not yet matched to a fixture | the differential verifications, the cohort parity campaign | library, fixtures, retained results |
| Public value types, SIMD scanner | plain data; none | – | – |

**What is hard here.** Nothing of the library is persisted and no network is involved:
crashes, restarts and lost messages are no concern of a scan. The hard behaviours are these.

* *Reused scratch.* Every start and every unit reuses the same lists, visit marks,
  end array and touched list. Anything left behind reaches a later start or unit.
* *The cache under pressure.* The scan leaves the cache when a set cannot be interned and
  re-enters it when a later set is found; slots hold sentinels beside identifiers; visit
  stamps wrap; hashes collide.
* *Zero-width conditions at the edges of the input and between units.*
* *Graph construction.* Start and end states are shared between subexpressions.
* *Remainders*: patterns, cache states and workers that do not divide evenly, across one
  or two cohorts.
* *Threads.* Workers may fail to start, fail, or panic, in any order; the caller itself
  scans one partition and may panic before it joins anyone; the sink may panic during
  delivery; callbacks must not be invoked for a scan that fails. The threads that fill
  the candidate bitmap can do all of that too, and a partial bitmap must never be used.
* *Leaving starts out.* Every layer of the prefilter – hints, tables that collide, a
  density sample, a bitmap, the shared union, a prefix proved for a whole set – skips
  starts. A start skipped wrongly is a match lost without a trace.
* *Deciding twice.* The experimental matcher checks its policy on a preflight, scans, and
  decides again.
* *Text to meaning.* The parser decides with one unit of lookahead what a bracket, a
  minus, a brace, a backslash or an end of text means, and every refusal carries a span.
* *Two descriptions of one pattern.* Widths, anchors and prefixes are computed apart from
  the compiler and reported as facts about it.
* *Numbers that decide.* Benchmark limits are percentages of integers, floors and
  quotients rounded to hundredths; a receipt is trusted for the scan it vouches for.
* *Files written one by one.* Publication may be killed between two files or in the
  middle of one, and its inputs refer to its outputs.
* *Exit statuses.* A gate is green when every program it starts says so. What a program
  says and what it found are not the same thing.

`PROJECT.json` lists each hazard at its line with the properties that cover it.

## 2. Modules

```
PatternDatabase ──┬─ ScanJob ─┬── MatchSelection         the event rule of ADR 0002
  (NFA, closures, │           ├── Scan                   exact scan     ⟹ MatchSelection
   terminals)     │           │     └── ScanProof
                  │           ├── NfaScan                uncached loops ⟹ Scan
                  │           │     └── NfaScanRefinement
                  │           └── CachedScan             cached loop    ⟹ Scan
                  │                 └── CachedScanProof
                  ├─ Hir ── NfaCompile ── Compilation    registration and compilation
                  └─ AssertionPrefix ─┐                  the experimental matcher
Partitioning ─────────────────────────┼── MatcherProof   build()'s division of work
Predicate ────────────────────────────┘                  classes of units
LiteralFilter ──┬── CandidatePlan ───┐                   one partition's prefilter
                └── SharedCandidate ─┴─ SharedCandidateProof  one bitmap for all partitions
Delivery ⟸ ParallelScan ── ParallelScanProof             threads of one scan

Hir, Predicate ── Parser ── PatternSyntax ──┐            text to expression
Hir ── CohortFacts ─────────────────────────┴─ FrontEnd  … to facts and report
Measurement ─┐                                           the benchmark tool: receipts,
Admission ───┤                                           … their admission and table
Gate ────────┼── EvidenceProof                           ci and evidence
Parity ──────┤                                           the compatibility runner
Publication ─┘                                           ledger and HTML universe
FrontEnd, Measurement, Admission, Publication, Parity, Gate ── MCEvidence
InductionLemmas                                          facts every proof module uses
MC*                                                      instances for TLC
```

**PatternDatabase.** The frozen NFA: states, epsilon, assertion and consuming edges,
terminals per state. `ExtendEpsilonClosure` and `ExtendAssertionClosure` are the two
closure routines, `AssertionMatches` the evaluation of the four assertions
(`engine.rs:956`), `RecordTerminals`, `ResetTerminals` and `EventsOf` the shared end
bookkeeping. A predicate is the set of symbols it admits; an input is a sequence over a
small alphabet with a line feed and word symbols. `ReachableConfigurations` is the
reference semantics (paths through the NFA), independent of any closure order. A compilation
in progress (`EmptyCompilation`) and the arrays made of it (`Freeze`) are here too.

**Scan** keeps, for the start under way, the exact set of live states and the longest end
per ordinal. It has no buffers and no cache, and is the abstraction both engines
implement. **MatchSelection** is the normative rule: for each start, every accepted
ordinal once, with its greatest end.

**NfaScan** is the uncached loop: `active`/`next` with their separate visit marks, the
swap, the resets, `best_end` with `touched_ordinals`. One action is one iteration of the
inner loop. **CachedScan** is the cached loop: `states` (interned sets with one slot per
symbol), `buckets`, `cache_seen`/`cache_generation`, the cursor (an identifier or
`Uncached`), and the counters of `ScanStats` that belong to the cache. Its actions are
the paths through one iteration: a filled slot (`FollowKnown`, `FollowFallback`), a
miss (`MissDead`, `MissInterned`, `MissFallbackDead`, `MissFallback`) and a unit outside
the cache (`StepUncached`). Both modules map to `Scan` by a refinement mapping that only
defines `live`.

**Hir** has the normalizing constructors, the structural facts and `Ends`, the denotation
(the interpreter `engine.rs` keeps for its own tests). **NfaCompile** is the expression
compiler, translated state by state: which state each construct allocates, shares, loops
on. **Compilation** is the builder over a sequence of calls, successful or not, and then
one compilation step per pattern.

**Partitioning** is `build()`: the two error returns, the choice between one list and two
cohorts, the allocation loop, and `compile_partitions` called once or twice, one partition
per step. **ParallelScan** is one scan by several threads: planning, the spawn loop with
its failure branch, the caller's own partition, joins in order, the panic-before-error
order, the drop of the scope when the caller unwinds, and the delivery of the buffered
events, one callback per step. **Delivery** is what the caller is promised.

**LiteralFilter** has the tables of necessary literals and their union, **CandidatePlan**
one prefilter from its patterns to the plan of a scan: a hint is collected per step, the
sample and the rest of the bitmap are filled a start at a time, and each early return of
`Prefilter::plan` is an action. What a pattern list compiles to and what literal begins an
expression are parameters (`DatabaseOf`, `HintOf`), which the instance gives their
definitions in `NfaCompile` and `Hir`. `ScanStarts` is what the engine then visits, the premise
`ScanJob` takes for granted. **SharedCandidate** is `SharedCandidatePlan`: the decision to
share, the split of the words, one thread per shard that tests one start per step and may
be refused or panic, the joins, and the three ways to end. `PartitionStarts` is what
`shared_engine.rs` lets a partition scan. **AssertionPrefix** builds the experimental
matcher pattern by pattern – the shared prefix is agreed on as the code does, in
registration order – and then follows one call of `scan_with_policy`: preflight, the view
without assertions, the plan, the view with assertions, the second look at the policy,
and one callback per step, which may panic. What compiling one expression does to a
compilation, and whether it holds an assertion, are parameters (`CompileOf`,
`HasAssertions`), which the instance gives `CompilePattern` and `UsesAssertions`.

**Predicate** is a class as `predicate.rs` keeps it: bits below `AsciiLimit`, sorted
disjoint ranges above; `InsertRange`, union, complement and folding act on that form.
Ranges are sorted by rank in their set: one that is there twice would merge with itself.
**Parser** is `parse_with_flags` as a machine. The recursive functions are a stack of open
alternations, the loops a step per atom, operator or class token, each early `return Err` an
action that ends with the error and its span. **PatternSyntax** says what a pattern means
without a parser: it splits a text in every way the grammar of README.md allows and collects
the expressions. **CohortFacts** has the structural facts (`cohort.rs`), the division into
two cohorts and the pairing of facts with the rows of the pattern file in `cohort_report`.
**FrontEnd** composes them: each row of a file is parsed, refused with the span of its error
or registered, and the registered patterns are classified and reported.

**Measurement** is the loop the benchmark commands share: build, a first scan, warm-ups,
samples, a comparison of each delivery with the first or with what the fixture expects –
as sorted events or as an order-free summary of rotated hashes – and a receipt with the
median. A command is a record of how it does each of these. **Admission** is what becomes
of receipts: every campaign's comparison of a baseline with a candidate, limit by limit
and in the code's order, and the table with its civil calendar. **Publication** holds
the repository's files. It validates a ledger, writes its outputs, clears the universe and
writes it file by file in the order of the paths, the drawings before the index and the
pages (`WritingOrder`); `Crash` may end it between two files, tear the one being written
or, of a drawing, leave its beginning with the mark (`Remains`), and part of the clearing
may be done. `Edit` is an author's change between two commands; a diagram may be left
without an end, and then no universe is generated. **Parity** is the compatibility runner: fixtures against retained results,
and every configuration of the matcher against them and a reference. The library's
answer is chosen freely, so that a verdict is judged by what was seen. **Gate** is
`cargo xtask ci` and `evidence`: quality steps, the search for Java, two oracle runs per
fixture set with their temporary files, the comparison with what the repository retains,
and the adapters, of which the gate sees an exit status. **MCEvidence** composes the
programs: an invocation is of one of them, and the files of the others stay as they are.

`PROJECT.json` "map" gives the source lines of every definition.

## 3. Runs

| Run | Question | Bounds |
|---|---|---|
| `nfa_engine` | Do reused buffers ever leak into a later unit or start, and does the engine deliver exactly the matches of ADR 0002? | databases compiled from several patterns each (overlapping lengths, loops, every assertion before, inside and after a unit, two cohorts); every input of at most 3 units (2 for cohorts), with every set of starts or all of them |
| `cached_engine` | Is the cache exact and never evicting, do its counters tell when it is too small, and is the engine equal to the exact scan? | every input over two symbols of at most 5 units, budgets 1, 2, 3 and 7 |
| `compiled_expressions` | Does a compiled pattern accept what it denotes, alone and beside another one, and does normalization keep its meaning? | every expression of two levels over eight leaves and six repetition bounds, alone; every two of one level over a smaller core, beside each other; every text of at most 3 units |
| `looped_state` | The compiler's known disagreement (section 6) | seven expressions |
| `partitioning` | Are patterns, states and workers dealt out completely and fairly? | up to 6 patterns in every interleaving of the cohorts, 0 to 7 workers, five budgets |
| `parallel_scan` | Is the result independent of thread timing, and delivery all-or-nothing? | seven layouts of 2 to 4 partitions, including two cohorts, an empty partition, and one worker with two cohorts |
| `candidate_plan` | Does any layer of the prefilter leave out a start that has a match? | sets of one and two expressions of up to two levels, hints of every table and beyond the cut, over two ASCII units and one beyond ASCII; every text of at most 4 units |
| `shared_candidate` | Is a shared bitmap exact or unused, whatever its threads do, and does sharing change what a partition scans? | inputs whose words do not divide, up to 3 shards of 2-start words, overlapping and colliding filters |
| `assertion_prefix` | Does the experimental matcher deliver the ordinary matcher's events, and refuse only before doing anything? | sets of two and three patterns that fit, misfit, or are free of assertions, in every order that matters; texts of up to 6 units with the prefix in, across and after the sample |
| `evidence` | Is what the programs around the library say true? (below) | see below |
| `width_facts` | A fact the report gets wrong (section 6) | one-row files around `a[]?`, and every text of at most 4 units over `a()?` |
| `unchecked_evidence` | A gate that passes on a found difference (section 6) | as the gates of `evidence` |

`evidence` composes the programs, one invocation at a time, and asks of each a question of
its own. `AcceptsTheGrammar`: a text is accepted exactly when the grammar has a reading of
it that may consume something, and then means what every reading means;
`RefusalsPointInside`: a refusal's span is nonempty and in the text;
`PredicatesHaveOneForm`: a class under construction stays sorted, disjoint and merged.
`ReportIsSound`: no match contradicts a reported fact, and every row is reported once under
its cohort. `MeasurementIsHonest`: a receipt vouches for the scans that were made, each
timed once and in its place, and a command calls deliveries inconsistent only when they
differ in more than order. `AdmissionIsExact`: what passes is within its campaign's limits
and what is refused for its time is beyond them, worded over fractions; a faster candidate
still passes; no two receipts improve on each other; the table is ordered, loses no receipt
and follows the calendar. `PublicationIsSound`: whatever edits and killed commands left
behind, a completed one verifies; what verifies is true of the sources, with no drawing cut
short, although a drawing is verified by the mark at its beginning alone
(html_universe.rs:254): the drawings are written before the index, so where the index is
they are whole; the progress series never falls. `ParityIsExact`: a campaign passes exactly on agreement, having looked at every
case in every configuration. `GateIsHonest`: a pass means that a Java 21 was found, that
both runs of the oracle wrote what the repository retains for every set; a failed gate
leaves all files of the step that failed, and any other file that could not be removed
holds what is retained; `ci` passes only where every claim is true.

*Its bounds.* Texts: every text of up to three to five units after an opening (`a{`, `[`,
`(`, `(?` or none), over alphabets of three to nine units, each for one part of the
grammar, among them units beyond ASCII and one with two cases that is neither, and the
shorthands `\s`, `\w` and their complements inside and outside a class, probed with the six
units of whitespace and others; lists of
three rows; and, taken up after their parse, all expressions of two levels over eight
leaves. Counts go to 10 (1000 in the code), groups nest twice (250 times), prefixes have two
units (32). Five units hold a group with a counted atom, a class with a range and a
negation, a wide range that joins two others, or an escape before an operator. Events: two,
delivered in both orders, doubled, or one alone; times 0 to 2 ns; four-bit hashes. Receipts:
one unit below, on and above every limit of every campaign, from seven baselines, and
eighteen ways to be unfit on either side; dates through four years and around 2000, 2100,
2200 and 2400. Publication: two documents that link to each other, to code and to the
outputs, one with a diagram that may lose its end, two drawings it may be given, three
ledgers, one edit between commands and one crash within one. Parity: 55
pairings of fixtures and results. Gates: two quality steps, two fixture sets, three
adapters, in each of three places no Java, an old one or a fit one. The programs share only
files, which is why their product is not needed.

*Why the bounds are enough to be interesting.* The cached run uses
three hash buckets so that most sets collide, four identifiers so that the
cache runs out of them before its largest budget, a budget of one so that nearly
everything is a fallback, and a generation counter that wraps every second transition
(`GenerationModulus` = 3 instead of 2^32). Five units are enough to leave the cache,
re-enter it, and revisit a filled slot from a later start. For assertions the shortest
interesting distance is the start, a boundary inside, and the end, which three units
have. In `partitioning`, six patterns and seven workers give every pair
of remainders, more workers than patterns, and cohorts of one. In `parallel_scan`, four
partitions allow three workers with different outcomes beside the caller's. In
`compiled_expressions` identifiers are symmetric: the code only compares them.

The thresholds of the prefilters are constants and small in the runs: a literal of one
unit instead of 3, cut at 4 instead of 32, 2 patterns instead of 256 (or 16 for
partitions to share), an input of 2 to 5 units instead of 1 Mi (or 32 Mi), a sample of 3
or 4 units instead of 64 Ki, a prefix of 2 units instead of 5, words of 2 starts instead of
64. The order among them is kept, so every path is taken: too few patterns, too short an
input, a sample that is sparse, dense, or exactly half full, a bitmap whose last word and
last chunk are short. Hash functions collide on purpose.

Deadlock checking is off where a computation ends. That a call with several threads
ends, instead of getting stuck, is `Termination` of `ParallelScan`. A scan of one partition
is nested loops over the starts and the units, which end by their bounds; `nfa_engine`
checks the refinements of `Scan` and `MatchSelection` with their fairness, so that loops
that stopped on the way would not implement them.

**Fairness.** A scan of one partition is a single-threaded loop that runs until it
returns, hence weak fairness of `Next`. In `ParallelScan` the caller and every
worker have weak fairness of their own: the operating system runs every started thread
and each partition's scan, a loop over bounded ranges, ends. Nothing makes one
outcome of a scan more likely than another; no fairness is put on spawning to succeed or
on a worker not to panic. `MCEvidence` has none: a command may be killed, and everything
asked of the programs is safety.

**Mutants.** Each property has a mutant: a definition beside the one it stands for,
`Mutant of ...` in its comment, which is never used by the specification. It changes the
original the way a plausible bug would and the property fails with it.

## 4. Theorems

All for every value of the constants that meets the module's named assumption: any
database whose edges stay within its states and any input (`JobsAssumption`), any
hash function, budget, identifier limit and counter width of at least the sentinels
(`CacheAssumption`), any last unit and limit of the bits up to it (`UnitAssumption`), any
pattern set and worker count (`ConfigurationsAssumption`),
any number of partitions (`LayoutsAssumption`), any pattern lists, texts and limits and any
compiler that works locally (`PrefixAssumption`, `CompilerAssumption`), any calls, shard limit and word size
(`CallsAssumption`), any hash of the literal tables, any steps, fixture sets, adapters and
oracle texts (`GateAssumption`), any suites, answers and numbers of configurations
(`ParityAssumption`), any receipts with the fields of their kind, two of them for a
comparison (`AdmissionAssumption`), any repositories, ledgers and edits of documents
(`PublicationAssumption`), and any measuring commands that take a sample, any deliveries,
times, event hashes and width of a word (`MeasurementAssumption`).

What the assumptions say of the program: a database's states and ordinals are finitely
many (`Vec`s indexed by both) and `uses_assertions` is false only where no pattern has an
assertion (it is set where one is compiled); a campaign has a suite with a fixture set, its worker counts,
cache budgets and failing constructions are fixed nonempty arrays, and a differential
program has one suite. `CompilerAssumption` says of the expression compiler that it puts a
pattern's own fragment (`Fragment`: what it makes of the expression alone) behind the states
there are, wherever that is and whichever root it hangs below (`Placed`), that this fragment
leads from its first state only to states of its own (`IsFragment`), and that where an
expression begins with a strict prefix each path to the terminal shows its units
first (`Requires`: every state has a place in the prefix or lies behind it). The
first holds because `compile_expression` only adds states at the end and edges between the
two it was given and those it adds; to prove any of it takes an induction over
expressions. TLC evaluates each of these assumptions in its runs, this one for
`NfaCompile`'s compiler and every pattern list of the instance.

* **CachedScanProof** proves every safety invariant of the cached engine,
  `NoEviction` and `PressureIsReported`: the misses counted are the slots filled, and a
  fallback is counted, in whichever of its three places, exactly when a slot is FALLBACK. The invariants are not inductive alone. The
  strengthening joins the shape of cache and scratch, the exactness of the buckets (each
  identifier is in the bucket of its set and in no other, and sets are distinct), the exactness of
  every slot, the stamps (`cache_seen` never exceeds `cache_generation`), and where the
  cursor can be. The hard case is FALLBACK: the slot is written when the cache is full and
  its meaning – the successor is nonempty and not in the cache – must remain true,
  which needs that a full cache never grows.
  It also proves `Spec => Scan!Spec` under the mapping `live <- Represented`, each action
  to a step or a stutter.
* **NfaScanRefinement** proves the same of the uncached loops, `Spec => Exact!Spec`, and
  `TouchedListIsComplete`: an ordinal has a recorded end exactly when it is in the touched
  list. The refinement rests on it: a start resets the ends of the touched ordinals only, so an end
  recorded without its ordinal would reach a later start.
* **ScanProof** proves that the exact scan implements the rule it was written for:
  `ScanImplementsSelection`, from the sets of live states it goes through to
  `MatchSelection`, which speaks of paths and of no sets. Its invariant is
  that `live` is the set of states with a path from the root over the units read so far
  (`ReachableConfigurations` is a least fixed point; a closure computed in any order
  equals it by `Closure` lemmas on both inclusions), and that an ordinal's end is the longest
  accepted so far. With the two refinements above, `NfaScanImplementsSelection` and
  `CachedScanImplementsSelection` follow: for every database and input, neither buffers
  nor cache pressure can change a match.
* **MatcherProof** proves, of `Partitioning`, the types (no division by zero), tiling of the slices, that
  the shares of the budget add up over both cohorts as one hand would deal them, the number of
  partitions, that each pattern is in exactly one partition and none holds patterns of both
  cohorts, that the allocation loop always finds a cohort with room, and that its greedy choice is
  optimal: no division of the same partitions has a smaller largest load. The invariant is
  `Earned`: either cohort, without its last partition, would carry no less than the other does.
  `EveryPatternOnce` rests on `Members`, the filter of the registered patterns, which
  lists each pattern of a cohort once and in order (`Listing`), on the slices that tile that list
  (`Tiling`), and on the partitions of the free cohort coming first (`Sorted`).
  Of `AssertionPrefix` it proves both properties. `EventsAreTheOrdinaryOnes` compares two
  databases: one root and every pattern, or two roots and the patterns divided among
  them. In both, what is reached from a root is the union of what each fragment
  below it reaches by itself, moved to its place (`PlacedReach`), since what a root reaches is
  the least set that holds it and is closed under the steps (`ReachIs`) and no edge leaves a
  fragment. A pattern's ends are thus those of its fragment in either database
  (`ChainMatches`), the views share the patterns without overlap (`MatchesSplit`), and each
  orders its events without repeating one (`ViewsDeliver`). That the candidates suffice is
  `RequiredIsShown`: a path that accepts has gone through every place of the prefix, so the
  input shows it at the start. The invariant is `PrefixInv`: while building, the compilation
  is `SharedCompilations` as far as it got and the prefix is the one common to the
  assertion patterns so far (`Building`); then that the decision is the one the input calls for
  and the same as the preflight's (`Decided`), and what the views have put in `events`
  (`Served`). `RefusedBeforeScanning` needs `Decided`: the two decisions are separate code.
  Of `Predicate` it proves that each operation keeps the form (`IsPredicate`) and stands for
  the units it should (`UnitsOf`, defined by what `matches` answers): an inserted range adds
  its units, on either side of bit 128 or across it (`InsertRangeAdds`); a union unites
  (`JoinedUnites`); a complement is one, the last unit included (`ComplementComplements`); and
  there is one form per set (`OneFormPerSet`), so that the derived `Eq` and `Hash` by which
  the compiler interns predicates compare sets, and `is_empty` may look at the two parts only
  (`EmptyIsEmpty`). That is why the edges of `PatternDatabase` may hold sets. `matches` finds
  by ends whatever a range covers, since the ranges and so their ends ascend (`Gaps`,
  `MatchesCovered`); merging keeps both form and coverage because it takes the ranges in
  order (`MergeStep`, `NormalizedFacts`); and the form is unique because a range begins where
  a unit is covered and the one before is not (`BeginsLike`, `NextBegins`, `NextEnds`).
* **ParallelScanProof** proves, for any number of workers and every interleaving, that the
  result is a function of the threads' outcomes, that success means every output
  is stored, that callbacks come last, that no thread outlives the call, and that no more
  scans run at once than workers were requested. `ParallelImplementsDelivery` maps every
  step of every interleaving to one of **Delivery** or a stutter: no call of the sink unless
  every partition succeeded, then each match once, in partition order, up to a panic
  of the sink. What has been delivered is a prefix of the concatenated outputs, and
  each callback appends their next event; that the concatenation is what `FlattenSeq` makes of
  them is a lemma by induction over its fold (`FlattenIs`).
* **SharedCandidateProof** proves that the filter compiled from a hint admits every start
  that shows the hint, whatever collides with it; that the slices of the shards tile the
  bitmap for every input length, word size and number of threads (`ShardsTile`, the one
  piece of arithmetic: chunks rounded up leave a short last one, or fewer chunks than
  shards); and from that, for every interleaving, refusal and panic, that a plan handed
  out is exact, that each partition finds its own starts in it, that the outcome is a
  function of what happened to the threads, and that none of them outlives the call. The
  invariant behind it says of each shard that it has tested its slice up to its position
  (`ShardInv`), of the bitmap that it holds the admitted starts among those
  (`BitmapInv`), and of the joins that the shards before `next` have ended and their
  admissions are counted (`JoinInv`): exactness is not inductive without the positions.
  `PrivatePlanSkipsNoMatch` is about the private plans: for every pattern list, database, text, hash
  and sample, a start left out has no match of the event rule (`LongestMatches`, the same that
  `Scan` is proved to deliver), so that a scan of the other starts owes every event
  (`PrivatePlanKeepsEvents`). It has two halves. The start table (`TableExcludesNoMatch`):
  the configurations behind the root and behind the first unit cannot be left when the table
  refuses the units, and none of them accepts (`NoMatchWithin`: what a scan reaches is the
  least such set). The filter (`FilterExcludesNoMatch`): a match begins with its pattern's
  hint, and `FilterAdmitsHint`. The invariant `PlanInv` says which of the two a plan
  rests on, and that the bitmap holds the admitted starts among those tested.
  That hints are necessary (`HintsAreNecessary`) is a hypothesis: it is about
  expressions, by recursion over them, and TLC checks it in the same run for every expression
  of two levels. A list is assumed only to have a finite database whose terminals are
  ordinals of the list, with assertion edges only where an expression holds an assertion
  (`PlanAssumption`).
* **EvidenceProof** proves five things. `GateIsHonest`, for any number of steps, fixture sets and adapters.
  The property speaks of the end; the invariant carries what each step
  established there. `Shape`: types; `Progress`: the steps done are a prefix of the plan;
  `FilesAreCurrent`: the temporary files are those of the current step, as far as it got,
  and what completed steps could not remove;
  `WritingsAreKept`: whatever was written belongs to a step done, with the retained text, or is
  still there; `StepsAreKept`: what each finished step checked holds on. It needs that the plan
  holds each fixture set once (`UniqueFixtures`), which is `IsInjective` in the assumption.
  `ParityIsExact`, for all suites and whatever the library answers. The invariant says
  where the campaign is (`PositionInv`), that the suites before it fit Java's results
  and that the results still unused are those of the cases to come (`SuitesInv`: an
  identifier twice, or one without a result, would leave the two counts unequal), that the
  observations are those of the cases and configurations done, one comparison each
  (`ObservedInv`), and what a failure shows (`FailInv`).
  `AdmissionIsExact`, for any two receipts with any times, and any list of receipts. A
  command takes one step, so the invariant says little (the decision is `Judge` of the
  request); the work is in what `Judge` means. A quotient rounded down reaches a whole number
  just when the fraction does (`Reaches`), so each percentage in use decides as the fraction
  it stands for, except that a slowdown must exceed its limit by a hundredth of a percent; the
  limits are monotone in both times, so that a faster candidate meets what a slower one
  met. The dates are right for every day after the epoch (`DatesFollow`): a day of an era is in
  one of its 400 years (`YearIs`), a day of a year in one of its twelve months from March
  on, and the day after each is `Tomorrow`. A table's rows are in order and complete because
  ranks in a strict total order are a permutation (`RanksInOrder`, `PlacesAreSorted`).
  `PublicationIsSound`, for any repository and any number of edits and killed commands.
  That a render repairs is not inductive: what is in a page was generated while the old
  universe, or part of it, was still there. `PublicationInv` says of each phase what already
  holds and what the queue still brings: an output is written or waits (`OutputsWait`), a
  path of the universe is written or waits, and what it holds fits the files there
  will be in the end (`UniverseWaits`, `PageFits`, `Final`). Two facts carry it: what is
  generated depends on the sources alone (`SourcesDecide`, `OutsideDecides`), and a link
  decided among the old files is decided as among the final ones where it does not lead into the
  universe or an earlier render is complete (`Settled`, `LinksLast`). That no verified
  drawing is cut short rests on the order of writing (`WritingOrderIs`, `DrawingsStayFirst`):
  while a drawing waits there is no index, so a command killed in a drawing leaves none, and
  a universe without one does not verify (`Sealed`, `CutWriteSeals`). The progress series is
  a function over the attempts; `SeriesGrows` follows it attempt by attempt.
  And `MeasurementIsHonest`, for any command, whatever a scan delivers or reports and however
  long it takes. `MeasureInv` says that the times of the scans so far are the warm-ups and then
  the samples (`InStep`), with no sample before the last warm-up, and that every scan
  agrees with the evidence. A command judges by count, by summary or by sorted events, and none
  may call a delivery inconsistent for its order: two deliveries that sort alike have one
  length and one summary (`SortedAlike`). It is proved by taking an event away from both, at
  whichever place (`RemovedOccurs`, `SummaryOfRemoved`), since adding events to a summary
  commutes (`AddCommutes`). The median splits the samples because their ranks are a
  permutation (`MedianSplits`, from `RanksInOrder` as above). The exclusive or is a constant
  with the laws of the operation on bits, which TLC evaluates for the real one; that the
  powers of two up to the width are positive numbers is assumed, because the prover has no
  exponentiation.
* **InductionLemmas** has what these proofs share: functions defined by recursion over a
  sequence or a finite set, obtained from well-founded recursion; the elements of
  concatenations, prefixes and sorted sequences; and that a set which grows along edges until it
  lacks nothing is the least closed one (`GrownIsHull`), which is what a closure computes.

Only model-checked: liveness and refinement with fairness (each refinement above is of the
abstract specification without its fairness; TLC checks it with); and what is about
expressions by recursion over them (`Compilation`, `HintsAreNecessary` of `CandidatePlan`,
`Parser`, `PatternSyntax`, `CohortFacts`), over `Hir` and `NfaCompile`, whose operators
are RECURSIVE, which puts a module outside the prover. `PredicatesHaveOneForm` is among
them, because the parser builds expressions; that each operation the parser calls on a class
keeps the form is proved.

## 5. Abstractions to know

* The starts handed to an engine are an input of `ScanJob`: any set of starts. An engine
  is exact for the starts it is given; that a plan leaves out no start with a match of the
  same rule is `NoMatchSkipped` of `CandidatePlan`. The two are not one specification: the
  rule, `LongestMatches`, is what they share.
* `AssertionPrefix` scans a view in one step, with the reference semantics that
  `nfa_engine` shows the scan loop to have. Its two prefilter switches stay on, as
  its builder leaves them.
* The SIMD scanner is taken to set the bits of the scalar loop it replaces. Bypass labels,
  byte and admission counters kept for diagnostics are left out, except the count of a
  shared plan. The start table's reused marks are taken to be exact closures.
* In `ParallelScan` a worker's scan is its outcome. `error` is kept because the join loop
  handles it, although `InputTooLarge` needs an input beyond 32 bits. The candidate plan
  may fail on every layout, although the code only starts its threads for a large
  matcher and input.
* Compilation leaves out predicate interning, memory accounting and the 2^32 limit on
  state identifiers. Counters merged for diagnostics are left out of the scheduler.
* A unit is the character it stands for, with its value in `Code`; the folding table is the
  constant `Fold`. Error texts are left out, spans are kept.
* `Compilation`, `AssertionPrefix` and the instance of `CandidatePlan` enumerate expressions as trees, built
  through the constructors the parser calls.
* Times in `Admission` are units of ten microseconds, in which every limit is whole; a
  quotient rounded to hundredths of a percent is kept as such, since admissions depend on it.
* A receipt is the fields an admission reads; whether the rest is well-formed is `sound`. A
  document is a text, its links as the files they lead to, and its diagrams. Layout,
  escaping and path normalization are left out. A ledger's times are positive integers.

**Not modelled**: the roadmap command, host identification, the construction
run, fixture generation and its corpora, cache scrubbing between samples, JSON
layout, SIMD intrinsics, value types with their formatting. They format, read the
machine, or promise the bits of something that is modelled.

**Read, not checked.** Some things the models leave out were met on the way.
The `short_literal` fixture (rustmatch-bench/src/main.rs:3083-3113) writes each window over the
ones before it, so windows closer together than a literal is long undo each other. A rendered
table takes its provenance from the first receipt alone (2244-2346). A page of the
universe that links to the universe, or a ledger whose evidence is the ledger's own Markdown,
needs a second `optimization-ledger` before it verifies; `PublicationIsSound` promises
the first only where there is none (`LooksIntoUniverse`). In the compatibility runner, the
complaint about Java results without a fixture cannot be reached after the counts were found equal.

## 6. Findings

`compile_repetition` loops an unbounded repetition of minimum zero on the state it was
given (`nfa.rs:549`), and an alternation, an optional copy or an enclosing loop shares that
state with its other paths (`nfa.rs:457-469`, `529-548`). The start state of `a*|b` thus
loops on `a` and leads to `b`: over `aab` the pattern matches 0..3, where README.md:213
promises "the longest match from that start" and README.md:233 that `|` "selects between
alternatives". `looped_state` shows it. `CompiledAcceptsDenotation` excludes exactly the
expressions in which such a state is shared (`SharesLoopedState`) and holds for all
others; for all, no match is lost, but some are too long.

`maximum_consumed` calls any repetition of an impossible class impossible, also one that
may be skipped (`cohort.rs:329`, `341`). The report of `a[]?` says "impossible" where the
receipt promises a "conservative" width (rustmatch-bench/src/main.rs:3452), and the pattern
matches `a`. `width_facts` shows it; `ReportIsSound` asks only about finite widths.

`execute` of the compatibility runner serializes the `Result` of a verification
(rustmatch-compat/src/main.rs:80), so a difference becomes the text `{"Err": …}` and the
program exits with success; only `verify-cohort-parity` passes its error on. `cargo xtask
evidence`, which looks at exit statuses (xtask/src/main.rs:395), passes, although
compat/README.md:76-78 and 87 say that a pass means agreement. `unchecked_evidence` shows
it. `cargo xtask ci` runs the same verifications as tests.

## 7. Plan

Next, in order:

1. `SharedCandidate` composed with `ParallelScan`, in place of its outcomes `PlanFails`
   and a plan, so that a panic or refusal of a shard is followed to the caller.
2. One specification from plan to matches: `CandidatePlan` or `PartitionStarts` feeding
   the starts of `Scan`, with the matches of all starts as its abstraction.
3. The start table's compiler with its stamped marks; the cohort counters.

Not planned: the SIMD intrinsics (they promise the bits of the scalar loop),
fixture generation, and value types with their formatting.
