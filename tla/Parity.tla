--------------------------------- MODULE Parity ---------------------------------
(***************************************************************************)
(* The compatibility runner: `verify-literals' and its like hold what the   *)
(* library delivers for the fixtures of a set against the retained results  *)
(* of the Java engine; `verify-cohort-parity' holds every matcher that can  *)
(* be configured, with cohorts and without, against them, and against a     *)
(* reference matcher on cases of its own.  What the library does with a     *)
(* case is chosen freely at each build and scan.                            *)
(***************************************************************************)
EXTENDS Integers, Sequences, FiniteSets, SequencesExt

CONSTANTS
    Campaigns,       \* the commands: [program, suites], a suite being [fixtures, java]
    Configurations,  \* how many pairs of a worker count and a cache budget are tried
    OwnCases,        \* how many cases the adversarial and the generated family have
    BuildErrors,     \* how many kinds of construction that must fail
    Results          \* what a matcher may come to: [kind, events]

\* A command has at least one fixture set, one of the library's adapters exactly one; the
\* lists of worker counts, cache budgets and failing constructions are fixed and not empty.
ASSUME ParityAssumption ==
    /\ \A c \in Campaigns :
          /\ c.program \in { "differential", "parity" }
          /\ c.suites \in Seq(ToSet(c.suites)) /\ c.suites # <<>>
          /\ c.program = "differential" => Len(c.suites) = 1
          /\ \A f \in DOMAIN c.suites :
                /\ c.suites[f].fixtures \in Seq(ToSet(c.suites[f].fixtures))
                /\ c.suites[f].java \in Seq(ToSet(c.suites[f].java))
    /\ { Configurations, BuildErrors } \subseteq Nat \ {0} /\ OwnCases \in Nat
    /\ Results \subseteq [kind : { "events", "rejected" }, events : Seq(Nat)]

VARIABLES
    campaign,
    family, case,    \* the family and the case under verification
    remaining,       \* Java's results not yet held against a fixture, by case
    configuration,   \* the configurations compared for this case
    reference,       \* what each of them must deliver
    observed,        \* every result so far, with what it was held against
    comparisons, conclusion

parityVars == << campaign, family, case, remaining, configuration, reference, observed,
                 comparisons, conclusion >>

Program == campaign.program
Suites == campaign.suites
Suite == Suites[family]
Fixture == Suite.fixtures[case]
Java == remaining[Fixture.id]

None == [kind |-> "none", events |-> <<>>]

\* Events sort by pattern, then start, then end; here each is one number.
Collected(result) == [result EXCEPT !.events = SortSeq(@, <)]
Delivered(events) == [kind |-> "events", events |-> events]

-----------------------------------------------------------------------------
\* Results of one case replace each other, which the count of cases gives away.
ByCase(java) ==
    [id \in { java[i].id : i \in DOMAIN java } |->
        java[CHOOSE i \in DOMAIN java : java[i].id = id /\ \A j \in DOMAIN java : java[j].id = id => j <= i]]

Rejections == { "rejected-invalid", "rejected-unsupported" }

\* The fixture and Java's result of the same case agree on what the case is for.
Sound(fixture, results) ==
    /\ fixture.sound /\ fixture.id \in DOMAIN results
    /\ LET java == results[fixture.id] IN
       /\ java.sound /\ java.expectation = fixture.expectation
       /\ \/ fixture.expectation = "matched" /\ java.status = "matched" /\ ~ java.rejection
          \/ fixture.expectation \in Rejections

ParityInit ==
    /\ campaign \in Campaigns
    /\ family = 1 /\ case = 0 /\ remaining = <<>>
    /\ configuration = 0 /\ reference = None
    /\ observed = {} /\ comparisons = 0 /\ conclusion = "run"

Fails == conclusion' = "fail"
Quiet == UNCHANGED << campaign, family, case, remaining, configuration, reference >>

InSuites == conclusion = "run" /\ family <= Len(Suites)
InOwnCases == conclusion = "run" /\ Program = "parity" /\ family \in (Len(Suites) + 1)..(Len(Suites) + 2)

OpenSuite ==
    /\ InSuites /\ case = 0
    /\ LET results == ByCase(Suite.java) IN
       IF Cardinality(DOMAIN results) # Len(Suite.fixtures)
       THEN Fails /\ Quiet
       ELSE /\ remaining' = results /\ case' = 1
            /\ UNCHANGED << campaign, family, configuration, reference, conclusion >>
    /\ UNCHANGED << observed, comparisons >>

AtFixture == InSuites /\ case \in 1..Len(Suite.fixtures) /\ configuration = 0

Unsound == AtFixture /\ ~ Sound(Fixture, remaining) /\ Fails /\ Quiet /\ UNCHANGED << observed, comparisons >>

\* On to the next case: this one's result from Java is used up.
NextCase ==
    /\ case' = case + 1
    /\ remaining' = IF family <= Len(Suites)
                    THEN [id \in DOMAIN remaining \ { Fixture.id } |-> remaining[id]]
                    ELSE remaining
    /\ configuration' = 0 /\ reference' = None
    /\ UNCHANGED << campaign, family >>

Observe(lane, results, wanted) ==
    observed' = observed \cup
        { [family |-> family, case |-> case, configuration |-> configuration, lane |-> lane,
           results |-> results, wanted |-> wanted] }

\* The adapter of one fixture set: the events in order are Java's as they were retained,
\* or the first pattern that does not register ends the case.
VerifyFixture ==
    /\ AtFixture /\ Program = "differential" /\ Sound(Fixture, remaining)
    /\ \E result \in Results :
        LET collected == Collected(result)
            agrees == IF Fixture.expectation = "matched"
                      THEN collected = Delivered(Java.events) ELSE result.kind = "rejected"
        IN  /\ Observe("scan", << collected >>,
                       IF Fixture.expectation = "matched" THEN Delivered(Java.events) ELSE None)
            /\ IF agrees THEN NextCase /\ conclusion' = conclusion ELSE Quiet /\ Fails
    /\ comparisons' = comparisons + 1

\* Both modes must be refused, and alike.
VerifyRejected ==
    /\ AtFixture /\ Program = "parity" /\ Sound(Fixture, remaining)
    /\ Fixture.expectation # "matched"
    /\ \E ordinary, cohort \in { "built", "invalid", "unsupported" } :
        /\ Observe("construction", << ordinary, cohort >>, None)
        /\ IF ordinary = cohort /\ ordinary # "built"
           THEN NextCase /\ conclusion' = conclusion ELSE Quiet /\ Fails
    /\ comparisons' = comparisons + 1

\* What the case is held against: Java's events, or one worker's without cache or cohorts.
TakeReference ==
    /\ \/ /\ AtFixture /\ Program = "parity" /\ Sound(Fixture, remaining)
          /\ Fixture.expectation = "matched"
          /\ reference' = Collected(Delivered(Java.events)) /\ configuration' = 1
          /\ conclusion' = conclusion
       \/ /\ InOwnCases /\ case \in 1..OwnCases /\ configuration = 0
          /\ \E result \in Results :
              IF result.kind = "events"
              THEN reference' = Collected(result) /\ configuration' = 1 /\ conclusion' = conclusion
              ELSE UNCHANGED << reference, configuration >> /\ Fails
    /\ UNCHANGED << campaign, family, case, remaining, observed, comparisons >>

\* Mutant of Agreeing: the second scan of the same matcher is not looked at.
AgreeingOnce(results) == results[1] = reference /\ results[2] = reference

Agreeing(results) == \A i \in DOMAIN results : results[i] = reference

\* One configuration: an ordinary matcher, a cohort matcher, and that one once more.  The
\* layouts say whether cohorts are on, both there when they must be, and the budget kept.
CompareConfiguration ==
    /\ conclusion = "run" /\ configuration \in 1..Configurations
    /\ \/ Quiet /\ Fails /\ Observe("layout", << "wrong" >>, reference) /\ comparisons' = comparisons
       \/ \E ordinary, cohort, repeated \in Results :
            LET results == << Collected(ordinary), Collected(cohort), Collected(repeated) >> IN
            /\ Observe("configuration", results, reference)
            /\ IF Agreeing(results)
               THEN /\ configuration' = configuration + 1 /\ comparisons' = comparisons + 1
                    /\ conclusion' = conclusion
                    /\ UNCHANGED << campaign, family, case, remaining, reference >>
               ELSE Quiet /\ Fails /\ comparisons' = comparisons

EndCase ==
    /\ conclusion = "run" /\ configuration = Configurations + 1
    /\ NextCase /\ UNCHANGED << observed, comparisons, conclusion >>

\* No result of Java's may be left over.
CloseFamily ==
    /\ \/ InSuites /\ case = Len(Suite.fixtures) + 1 /\ case > 0
       \/ InOwnCases /\ case = OwnCases + 1 /\ configuration = 0
    /\ IF family <= Len(Suites) /\ remaining # <<>>
       THEN Fails /\ Quiet
       ELSE /\ family' = family + 1 /\ case' = IF family < Len(Suites) THEN 0 ELSE 1
            /\ remaining' = <<>>
            /\ conclusion' = IF Program = "differential" THEN "pass" ELSE "run"
            /\ UNCHANGED << campaign, configuration, reference >>
    /\ UNCHANGED << observed, comparisons >>

\* Six constructions that fail, from no pattern at all to no worker.
VerifyBuildError ==
    /\ conclusion = "run" /\ Program = "parity" /\ family = Len(Suites) + 3
    /\ \E ordinary, cohort \in { "built", "invalid", "unsupported" } :
        /\ Observe("construction", << ordinary, cohort >>, None)
        /\ IF ordinary = cohort /\ ordinary # "built"
           THEN /\ case' = case + 1
                /\ conclusion' = IF case = BuildErrors THEN "pass" ELSE "run"
                /\ UNCHANGED << campaign, family, remaining, configuration, reference >>
           ELSE Quiet /\ Fails
    /\ comparisons' = comparisons + 1

ParityStep ==
    \/ OpenSuite \/ Unsound \/ VerifyFixture \/ VerifyRejected \/ TakeReference
    \/ CompareConfiguration \/ EndCase \/ CloseFamily \/ VerifyBuildError

-----------------------------------------------------------------------------
CasesOf(suite) == { suite.fixtures[i].id : i \in DOMAIN suite.fixtures }
ResultsOf(suite) == { suite.java[i].id : i \in DOMAIN suite.java }

SuiteIsSound(suite) ==
    /\ Cardinality(CasesOf(suite)) = Len(suite.fixtures)
    /\ CasesOf(suite) = ResultsOf(suite)
    /\ \A i \in DOMAIN suite.fixtures : Sound(suite.fixtures[i], ByCase(suite.java))

Differs(o) ==
    CASE o.lane \in { "scan", "configuration" } /\ o.wanted # None ->
            \E i \in DOMAIN o.results : o.results[i] # o.wanted
      [] o.lane = "scan" /\ o.wanted = None -> o.results[1].kind # "rejected"
      [] o.lane = "construction" -> o.results[1] # o.results[2] \/ o.results[1] = "built"
      [] OTHER -> TRUE

\* What Java delivered for a case, as each program compares it: as it was retained, or sorted.
Wanted(events) ==
    IF Program = "parity" THEN Collected(Delivered(events)) ELSE Delivered(events)

\* In every configuration the three scans of a matched case delivered Java's events.
DeliveredAsJava(f, i) ==
    LET fixture == Suites[f].fixtures[i]
        events == ByCase(Suites[f].java)[fixture.id].events
        of == { o \in observed : o.family = f /\ o.case = i }
    IN  fixture.expectation = "matched" =>
        /\ { o.configuration : o \in of } =
              IF Program = "parity" THEN 1..Configurations ELSE { 0 }
        /\ \A o \in of : \A n \in DOMAIN o.results :
              o.results[n] = Wanted(events)

(***************************************************************************)
(* Passing means that the fixtures and Java's results are of the same cases *)
(* and that every one was run, in every configuration, and came out as Java *)
(* has it; the first difference ends the command; failing means that        *)
(* something differed, was refused or built when it should not have, or     *)
(* that the fixtures do not fit Java's results.                             *)
(***************************************************************************)
ParityIsExact ==
    /\ conclusion = "pass" =>
        /\ \A f \in DOMAIN Suites :
              SuiteIsSound(Suites[f]) /\ \A i \in DOMAIN Suites[f].fixtures : DeliveredAsJava(f, i)
        /\ Cardinality(observed) = comparisons
        /\ Program = "parity" =>
              { << o.family, o.case >> : o \in observed }
                  = (UNION { { f } \X (1..Len(Suites[f].fixtures)) : f \in DOMAIN Suites })
                      \cup ({ Len(Suites) + 1, Len(Suites) + 2 } \X (1..OwnCases))
                      \cup ({ Len(Suites) + 3 } \X (1..BuildErrors))
    /\ conclusion # "fail" => \A o \in observed : ~ Differs(o)
    /\ conclusion = "fail" =>
        \/ \E o \in observed : Differs(o)
        \/ reference = None /\ family > Len(Suites)
        \/ \E f \in DOMAIN Suites : ~ SuiteIsSound(Suites[f])
=============================================================================
