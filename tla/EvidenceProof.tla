------------------------------ MODULE EvidenceProof -----------------------------
(***************************************************************************)
(* The repository's gates and the campaigns against Java.  For every list   *)
(* of quality steps, oracle inputs and evidence commands, on every machine: *)
(* a gate that passes saw every oracle input reproduced twice, and what it  *)
(* leaves behind shows where it stopped.  For all suites, whatever the      *)
(* matcher delivers: a campaign passes just when it compared every fixture  *)
(* of every suite in every configuration and each was what Java retained.   *)
(* For every pair of receipts, whatever their times: what a campaign admits *)
(* is within its limits and what it refuses for its time is beyond them,    *)
(* however the quotients are rounded; a faster candidate is still admitted, *)
(* no two receipts improve on each other, and a rendered table is complete, *)
(* in order and dated by the calendar.  For all repositories and ledgers,   *)
(* and any number of edits and of commands killed: a render that completes  *)
(* repairs what came before it, and a publication that verifies shows what  *)
(* the sources say.  For every measuring command, whatever is delivered and *)
(* however long it takes: a receipt is of the scans that were made, and no  *)
(* scan is called inconsistent for the order of its events.                 *)
(***************************************************************************)
EXTENDS Gate, Parity, Admission, Publication, Measurement, InductionLemmas, FiniteSetTheorems

-----------------------------------------------------------------------------
(* The plan. *)

Fixtures(name) == [kind |-> "fixtures", name |-> name]
JavaStep == [kind |-> "oracle", name |-> "java"]

Kind == { "quality", "ledger", "oracle", "fixtures", "adapter", "smoke" }
Name == Range(QualitySteps) \cup Range(FixtureSets) \cup Range(Adapters)
            \cup { "java", "compile", "verify", "literal-smoke" }
StepShape == [kind : Kind, name : Name]

\* The lists name what they name.
LEMMA NamesAreNames ==
    /\ QualitySteps \in Seq(Name)
    /\ FixtureSets \in Seq(Name)
    /\ Adapters \in Seq(Name)
<1>1. ASSUME NEW s \in Seq(STRING), Range(s) \subseteq Name
      PROVE  s \in Seq(Name)
    <2>1. s = [i \in 1..Len(s) |-> s[i]] /\ DOMAIN s = 1..Len(s) /\ Len(s) \in Nat
        BY LenProperties
    <2>2. \A i \in 1..Len(s) : s[i] \in Name
        BY <1>1, <2>1 DEF Range
    <2>3. QED
        BY <2>1, <2>2
<1>2. QED
    BY <1>1, GateAssumption DEF Name

\* Where the elements of two sequences put together come from.
LEMMA Joined ==
    ASSUME NEW S, NEW s \in Seq(S), NEW t \in Seq(S)
    PROVE  /\ s \o t \in Seq(S)
           /\ DOMAIN (s \o t) = 1..(Len(s) + Len(t))
           /\ Len(s) \in Nat /\ Len(t) \in Nat
           /\ DOMAIN s = 1..Len(s) /\ DOMAIN t = 1..Len(t)
           /\ \A i \in DOMAIN s : i \in DOMAIN (s \o t) /\ (s \o t)[i] = s[i]
           /\ \A i \in DOMAIN t : Len(s) + i \in DOMAIN (s \o t) /\ (s \o t)[Len(s) + i] = t[i]
           /\ \A i \in DOMAIN (s \o t) :
                \/ i \in DOMAIN s /\ (s \o t)[i] = s[i]
                \/ i - Len(s) \in DOMAIN t /\ (s \o t)[i] = t[i - Len(s)]
<1>1. /\ s \o t \in Seq(S) /\ Len(s \o t) = Len(s) + Len(t)
      /\ Len(s) \in Nat /\ Len(t) \in Nat
      /\ \A i \in 1..(Len(s) + Len(t)) :
            (s \o t)[i] = IF i <= Len(s) THEN s[i] ELSE t[i - Len(s)]
    BY ConcatProperties, LenProperties
<1>2. DOMAIN (s \o t) = 1..(Len(s) + Len(t)) /\ DOMAIN s = 1..Len(s) /\ DOMAIN t = 1..Len(t)
    BY <1>1, LenProperties
<1>3. QED
    BY <1>1, <1>2

\* A list of labels has one of its kind for each name.
LEMMA LabelsFacts ==
    ASSUME NEW kind \in Kind, NEW names \in Seq(Name)
    PROVE  /\ Labels(kind, names) \in Seq(StepShape)
           /\ DOMAIN Labels(kind, names) = DOMAIN names
           /\ \A i \in DOMAIN names :
                 Labels(kind, names)[i] = [kind |-> kind, name |-> names[i]]
<1>1. DOMAIN names = 1..Len(names) /\ Len(names) \in Nat
    BY LenProperties
<1>2. \A i \in 1..Len(names) : names[i] \in Name
    BY <1>1, ElementOfSeq
<1>3. Labels(kind, names) = [i \in 1..Len(names) |-> [kind |-> kind, name |-> names[i]]]
    BY <1>1 DEF Labels
<1>4. QED
    BY <1>1, <1>2, <1>3 DEF StepShape

\* One fixture step is in the list once: no step of another kind is a fixture step, and
\* no name is given twice.
UniqueFixtures(list) ==
    \A i, j \in DOMAIN list : list[i].kind = "fixtures" /\ list[i] = list[j] => i = j

NoFixtures(list) == \A i \in DOMAIN list : list[i].kind # "fixtures"

\* Putting a list without fixture steps before or behind another keeps them unique.
LEMMA UniqueJoined ==
    ASSUME NEW s \in Seq(StepShape), NEW t \in Seq(StepShape)
    PROVE  /\ NoFixtures(s) /\ UniqueFixtures(t) => UniqueFixtures(s \o t)
           /\ UniqueFixtures(s) /\ NoFixtures(t) => UniqueFixtures(s \o t)
<1> USE DEF UniqueFixtures, NoFixtures
<1>1. ASSUME NoFixtures(s), UniqueFixtures(t),
             NEW i \in DOMAIN (s \o t), NEW j \in DOMAIN (s \o t),
             (s \o t)[i].kind = "fixtures", (s \o t)[i] = (s \o t)[j]
      PROVE  i = j
    <2>1. /\ i - Len(s) \in DOMAIN t /\ (s \o t)[i] = t[i - Len(s)]
          /\ j - Len(s) \in DOMAIN t /\ (s \o t)[j] = t[j - Len(s)]
        BY <1>1, Joined
    <2>2. i - Len(s) = j - Len(s)
        BY <1>1, <2>1
    <2>3. i \in Int /\ j \in Int /\ Len(s) \in Int
        BY Joined
    <2>4. QED
        BY <2>2, <2>3
<1>2. ASSUME UniqueFixtures(s), NoFixtures(t),
             NEW i \in DOMAIN (s \o t), NEW j \in DOMAIN (s \o t),
             (s \o t)[i].kind = "fixtures", (s \o t)[i] = (s \o t)[j]
      PROVE  i = j
    <2>1. /\ i \in DOMAIN s /\ (s \o t)[i] = s[i]
          /\ j \in DOMAIN s /\ (s \o t)[j] = s[j]
        BY <1>2, Joined
    <2>2. QED
        BY <1>2, <2>1
<1>3. QED
    BY <1>1, <1>2

Holds(list, step) == \E i \in DOMAIN list : list[i] = step

\* A joined list holds what either part holds.
LEMMA HoldsJoined ==
    ASSUME NEW s \in Seq(StepShape), NEW t \in Seq(StepShape), NEW step,
           Holds(s, step) \/ Holds(t, step)
    PROVE  Holds(s \o t, step)
<1>1. CASE Holds(s, step)
    <2>1. PICK i \in DOMAIN s : s[i] = step
        BY <1>1 DEF Holds
    <2>2. i \in DOMAIN (s \o t) /\ (s \o t)[i] = step
        BY <2>1, Joined
    <2>3. QED
        BY <2>2 DEF Holds
<1>2. CASE Holds(t, step)
    <2>1. PICK i \in DOMAIN t : t[i] = step
        BY <1>2 DEF Holds
    <2>2. Len(s) + i \in DOMAIN (s \o t) /\ (s \o t)[Len(s) + i] = step
        BY <2>1, Joined
    <2>3. QED
        BY <2>2 DEF Holds
<1>3. QED
    BY <1>1, <1>2

\* A joined list has no fixture set when neither part has one.
LEMMA NoneJoined ==
    ASSUME NEW s \in Seq(StepShape), NEW t \in Seq(StepShape), NoFixtures(s), NoFixtures(t)
    PROVE  NoFixtures(s \o t)
<1>1. ASSUME NEW i \in DOMAIN (s \o t) PROVE (s \o t)[i].kind # "fixtures"
    <2>1. \/ i \in DOMAIN s /\ (s \o t)[i] = s[i]
          \/ i - Len(s) \in DOMAIN t /\ (s \o t)[i] = t[i - Len(s)]
        BY Joined
    <2>2. QED
        BY <2>1 DEF NoFixtures
<1>2. QED
    BY <1>1 DEF NoFixtures

\* A single step is a plan.
LEMMA Single ==
    ASSUME NEW step \in StepShape
    PROVE  /\ << step >> \in Seq(StepShape)
           /\ DOMAIN << step >> = {1} /\ << step >>[1] = step
OBVIOUS

Preparing == << JavaStep, [kind |-> "oracle", name |-> "compile"] >>
Smoke == << [kind |-> "smoke", name |-> "literal-smoke"] >>
Checking == << [kind |-> "ledger", name |-> "verify"] >>
FixtureSteps == Labels("fixtures", FixtureSets)
AdapterSteps == Labels("adapter", Adapters)
QualityLabels == Labels("quality", QualitySteps)

\* The lists a plan is put together from.
LEMMA Parts ==
    /\ FixtureSteps \in Seq(StepShape) /\ UniqueFixtures(FixtureSteps)
    /\ \A k \in DOMAIN FixtureSets : Holds(FixtureSteps, Fixtures(FixtureSets[k]))
    /\ AdapterSteps \in Seq(StepShape) /\ NoFixtures(AdapterSteps)
    /\ \A a \in Claims : Holds(AdapterSteps, [kind |-> "adapter", name |-> a])
    /\ QualityLabels \in Seq(StepShape) /\ NoFixtures(QualityLabels)
    /\ Holds(QualityLabels, [kind |-> "quality", name |-> "tests"])
    /\ Preparing \in Seq(StepShape) /\ NoFixtures(Preparing) /\ Holds(Preparing, JavaStep)
    /\ Smoke \in Seq(StepShape) /\ NoFixtures(Smoke)
    /\ Checking \in Seq(StepShape) /\ NoFixtures(Checking)
<1>1. /\ FixtureSteps \in Seq(StepShape) /\ DOMAIN FixtureSteps = DOMAIN FixtureSets
      /\ \A i \in DOMAIN FixtureSets : FixtureSteps[i] = Fixtures(FixtureSets[i])
    <2>1. "fixtures" \in Kind /\ FixtureSets \in Seq(Name)
        BY NamesAreNames DEF Kind
    <2>2. QED
        BY <2>1, LabelsFacts DEF FixtureSteps, Fixtures
<1>2. /\ AdapterSteps \in Seq(StepShape) /\ DOMAIN AdapterSteps = DOMAIN Adapters
      /\ \A i \in DOMAIN Adapters : AdapterSteps[i] = [kind |-> "adapter", name |-> Adapters[i]]
    <2>1. "adapter" \in Kind /\ Adapters \in Seq(Name)
        BY NamesAreNames DEF Kind
    <2>2. QED
        BY <2>1, LabelsFacts DEF AdapterSteps
<1>3. /\ QualityLabels \in Seq(StepShape) /\ DOMAIN QualityLabels = DOMAIN QualitySteps
      /\ \A i \in DOMAIN QualitySteps :
            QualityLabels[i] = [kind |-> "quality", name |-> QualitySteps[i]]
    <2>1. "quality" \in Kind /\ QualitySteps \in Seq(Name)
        BY NamesAreNames DEF Kind
    <2>2. QED
        BY <2>1, LabelsFacts DEF QualityLabels
<1>4. UniqueFixtures(FixtureSteps)
    BY <1>1, GateAssumption DEF UniqueFixtures, Fixtures, IsInjective
<1>5. \A k \in DOMAIN FixtureSets : Holds(FixtureSteps, Fixtures(FixtureSets[k]))
    BY <1>1 DEF Holds
<1>6. NoFixtures(AdapterSteps) /\ NoFixtures(QualityLabels)
    BY <1>2, <1>3 DEF NoFixtures
<1>7. \A a \in Claims : Holds(AdapterSteps, [kind |-> "adapter", name |-> a])
    BY <1>2 DEF Holds, Claims, Range
<1>8. Holds(QualityLabels, [kind |-> "quality", name |-> "tests"])
    <2>1. PICK i \in DOMAIN QualitySteps : QualitySteps[i] = "tests"
        BY GateAssumption DEF Range
    <2>2. QED
        BY <1>3, <2>1 DEF Holds
<1>9. /\ JavaStep \in StepShape /\ [kind |-> "oracle", name |-> "compile"] \in StepShape
      /\ [kind |-> "smoke", name |-> "literal-smoke"] \in StepShape
      /\ [kind |-> "ledger", name |-> "verify"] \in StepShape
    <2>1. \A k \in Kind, n \in Name : [kind |-> k, name |-> n] \in StepShape
        BY DEF StepShape
    <2>2. "oracle" \in Kind /\ "smoke" \in Kind /\ "ledger" \in Kind
        BY DEF Kind
    <2>3. /\ "java" \in Name /\ "compile" \in Name
          /\ "literal-smoke" \in Name /\ "verify" \in Name
        BY DEF Name
    <2>4. QED
        BY <2>1, <2>2, <2>3 DEF JavaStep
<1>10. Preparing \in Seq(StepShape) /\ DOMAIN Preparing = 1..2
       /\ Preparing[1] = JavaStep /\ Preparing[2] = [kind |-> "oracle", name |-> "compile"]
    BY <1>9 DEF Preparing
<1>11. NoFixtures(Preparing) /\ Holds(Preparing, JavaStep)
    BY <1>10 DEF NoFixtures, Holds, JavaStep
<1>12. Smoke \in Seq(StepShape) /\ NoFixtures(Smoke)
    BY <1>9, Single DEF NoFixtures, Smoke
<1>13. Checking \in Seq(StepShape) /\ NoFixtures(Checking)
    BY <1>9, Single DEF NoFixtures, Checking
<1>14. QED
    BY <1>1, <1>2, <1>3, <1>4, <1>5, <1>6, <1>7, <1>8, <1>10, <1>11, <1>12, <1>13

\* What gathering the evidence consists of.
LEMMA GatheringFacts ==
    /\ Gathering \in Seq(StepShape) /\ UniqueFixtures(Gathering)
    /\ \A step : \/ Holds(Preparing, step) \/ Holds(FixtureSteps, step)
                 \/ Holds(AdapterSteps, step)
                 => Holds(Gathering, step)
<1> DEFINE first == Preparing \o FixtureSteps
           second == first \o AdapterSteps
<1>1. first \in Seq(StepShape) /\ UniqueFixtures(first)
    BY Parts, Joined, UniqueJoined
<1>2. \A step : Holds(Preparing, step) \/ Holds(FixtureSteps, step) => Holds(first, step)
    BY Parts, HoldsJoined
<1> HIDE DEF first
<1>3. second \in Seq(StepShape) /\ UniqueFixtures(second)
    BY <1>1, Parts, Joined, UniqueJoined
<1>4. \A step : Holds(first, step) \/ Holds(AdapterSteps, step) => Holds(second, step)
    BY <1>1, Parts, HoldsJoined
<1> HIDE DEF second
<1>5. second \o Smoke \in Seq(StepShape) /\ UniqueFixtures(second \o Smoke)
    BY <1>3, Parts, Joined, UniqueJoined
<1>6. \A step : Holds(second, step) => Holds(second \o Smoke, step)
    BY <1>3, Parts, HoldsJoined
<1>7. Gathering = second \o Smoke
    BY DEF Gathering, Preparing, Smoke, JavaStep, FixtureSteps, AdapterSteps, first, second
<1>8. QED
    BY <1>2, <1>4, <1>5, <1>6, <1>7

\* What every plan holds: each fixture set once, the choice of a Java, each evidence
\* command, and for `ci' the tests.
LEMMA PlanFacts ==
    /\ Plan \in Seq(StepShape) /\ Len(Plan) \in Nat /\ DOMAIN Plan = 1..Len(Plan)
    /\ UniqueFixtures(Plan)
    /\ \A k \in DOMAIN FixtureSets : Holds(Plan, Fixtures(FixtureSets[k]))
    /\ Holds(Plan, JavaStep)
    /\ \A a \in Claims : Holds(Plan, [kind |-> "adapter", name |-> a])
    /\ invoked = "ci" => Holds(Plan, [kind |-> "quality", name |-> "tests"])
<1> DEFINE before == QualityLabels \o Checking
<1>1. before \in Seq(StepShape) /\ NoFixtures(before)
      /\ Holds(before, [kind |-> "quality", name |-> "tests"])
    BY Parts, Joined, NoneJoined, HoldsJoined
<1> HIDE DEF before
<1>2. Plan = IF invoked = "ci" THEN before \o Gathering ELSE Gathering
    BY DEF Plan, before, QualityLabels, Checking
<1>3. before \o Gathering \in Seq(StepShape) /\ UniqueFixtures(before \o Gathering)
    BY <1>1, GatheringFacts, Joined, UniqueJoined
<1>4. \A step : Holds(Gathering, step) => Holds(before \o Gathering, step)
    BY <1>1, GatheringFacts, HoldsJoined
<1>5. Holds(before \o Gathering, [kind |-> "quality", name |-> "tests"])
    BY <1>1, GatheringFacts, HoldsJoined
<1>6. \A step : Holds(Gathering, step) => Holds(Plan, step)
    BY <1>2, <1>4
<1>7. Plan \in Seq(StepShape) /\ UniqueFixtures(Plan)
    BY <1>2, <1>3, GatheringFacts
<1>8. QED
    BY <1>2, <1>5, <1>6, <1>7, GatheringFacts, Parts, LenProperties

-----------------------------------------------------------------------------
(* The inductive invariant. *)

Shape ==
    /\ temporary \in [DOMAIN temporary -> OracleTexts]
    /\ \A f \in DOMAIN temporary : f \in OutputsOf(f.set)
    /\ \A w \in written : w.file \in OutputsOf(w.file.set)
    /\ gate \in { "run", "pass", "fail" }
    /\ stage \in { "first", "second", "compare" }
    /\ homes \in [1..3 -> Homes]

\* The steps completed are the first of the plan, and a gate that has not passed is at
\* one of the others.
Progress ==
    /\ Len(done) \in Nat /\ Len(done) <= Len(Plan)
    /\ gate # "pass" => Len(done) < Len(Plan)
    /\ gate = "pass" => Len(done) = Len(Plan)

Completed(step) == \E i \in 1..Len(done) : Plan[i] = step

\* Temporary files that are not left over from completed steps belong to the fixture step
\* under way, and to its first run while the second is still to come.
FilesAreCurrent ==
    \A f \in DOMAIN temporary : Completed(Fixtures(f.set)) \/
        /\ gate # "pass" /\ Step = Fixtures(f.set)
        /\ gate = "run" => stage # "first"
        /\ gate = "run" /\ stage = "second" => f.run = "first"

\* What was written is there as it was written, or belongs to a completed step.
WritingsAreKept ==
    /\ \A f \in DOMAIN temporary : [file |-> f, text |-> temporary[f]] \in written
    /\ \A w \in written :
          \/ w.file \in DOMAIN temporary /\ w.text = temporary[w.file]
          \/ w.file \notin DOMAIN temporary /\ w.text = 0 /\ Completed(Fixtures(w.file.set))

\* What completed steps have shown.
StepsAreKept ==
    /\ Completed(JavaStep) => HasFeature21(java)
    /\ \A name : Completed(Fixtures(name)) =>
          \A f \in OutputsOf(name) : TextsOf(f) = { 0 }
    /\ Completed([kind |-> "quality", name |-> "tests"]) => truth = Claims
    /\ Completed([kind |-> "adapter", name |-> "verify-cohort-parity"]) =>
          "verify-cohort-parity" \in truth

IInv == Shape /\ Progress /\ FilesAreCurrent /\ WritingsAreKept /\ StepsAreKept

\* The invariant says what the property says.
LEMMA Honest == IInv => GateIsHonest
<1> SUFFICES ASSUME IInv PROVE GateIsHonest
    OBVIOUS
<1>1. ASSUME gate = "pass"
      PROVE  /\ HasFeature21(java)
             /\ \A i \in DOMAIN FixtureSets : \A f \in OutputsOf(FixtureSets[i]) : TextsOf(f) = { 0 }
             /\ \A a \in Claims : (invoked = "ci" \/ a = "verify-cohort-parity") => a \in truth
    <2>1. \A step : Holds(Plan, step) => Completed(step)
        BY <1>1, PlanFacts DEF Holds, Completed, IInv, Progress
    <2>4. \A a \in Claims : (invoked = "ci" \/ a = "verify-cohort-parity") => a \in truth
        BY <2>1, PlanFacts DEF IInv, StepsAreKept
    <2>5. \A i \in DOMAIN FixtureSets : \A f \in OutputsOf(FixtureSets[i]) : TextsOf(f) = { 0 }
        BY <2>1, PlanFacts DEF IInv, StepsAreKept
    <2>6. QED
        BY <2>1, <2>4, <2>5, PlanFacts DEF IInv, StepsAreKept
<1>2. ASSUME gate # "pass", NEW w \in written, Step = Fixtures(w.file.set),
             w.file \notin DOMAIN temporary
      PROVE  FALSE
    <2>1. PICK i \in 1..Len(done) : Plan[i] = Fixtures(w.file.set)
        BY <1>2 DEF IInv, WritingsAreKept, Completed
    <2>2. /\ Len(done) + 1 \in DOMAIN Plan /\ i \in DOMAIN Plan /\ i # Len(done) + 1
          /\ Plan[i] = Plan[Len(done) + 1] /\ Plan[i].kind = "fixtures"
        BY <1>2, <2>1, PlanFacts DEF IInv, Progress, Step, Fixtures
    <2>3. QED
        BY <2>2, PlanFacts DEF UniqueFixtures
<1>3. ASSUME NEW w \in written, ~ (gate # "pass" /\ Step = Fixtures(w.file.set))
      PROVE  w.text = 0
    <2>1. w.file \in DOMAIN temporary => Completed(Fixtures(w.file.set))
        BY <1>3 DEF IInv, FilesAreCurrent
    <2>2. w.text = 0 \/ Completed(Fixtures(w.file.set))
        BY <2>1 DEF IInv, WritingsAreKept
    <2>3. w.text \in TextsOf(w.file) /\ w.file \in OutputsOf(w.file.set)
        BY DEF TextsOf, IInv, Shape
    <2>4. QED
        BY <2>2, <2>3 DEF IInv, StepsAreKept
<1>4. ASSUME NEW w \in written, gate # "pass", Step = Fixtures(w.file.set)
      PROVE  w.file \in DOMAIN temporary /\ temporary[w.file] = w.text
    BY <1>2, <1>4 DEF IInv, WritingsAreKept
<1>5. QED
    BY <1>1, <1>3, <1>4 DEF GateIsHonest, Fixtures

-----------------------------------------------------------------------------
(* The invariant is preserved. *)

\* The gate begins in the invariant,
LEMMA InitIInv == GateInit => IInv
<1> SUFFICES ASSUME GateInit PROVE IInv
    OBVIOUS
<1>1. Len(done) = 0 /\ DOMAIN temporary = {} /\ written = {}
    BY DEF GateInit
<1>2. Len(Plan) > 0
    BY PlanFacts DEF Holds
<1>3. Shape
    BY <1>1 DEF GateInit, Shape
<1>4. Progress
    BY <1>1, <1>2, PlanFacts DEF GateInit, Progress
<1>5. FilesAreCurrent /\ WritingsAreKept
    BY <1>1 DEF GateInit, FilesAreCurrent, WritingsAreKept
<1>6. StepsAreKept
    BY <1>1 DEF StepsAreKept, Completed
<1>7. QED
    BY <1>3, <1>4, <1>5, <1>6 DEF IInv

\* The plan of an invocation stays what it is.
LEMMA SamePlan == ASSUME invoked' = invoked PROVE Plan' = Plan
BY DEF Plan, Gathering

\* A step completed is one more of the plan; the files are the caller's to answer for.
LEMMA OneMore ==
    ASSUME IInv, gate = "run", Complete
    PROVE  /\ Plan' = Plan /\ Step = Plan[Len(done) + 1] /\ Step \in StepShape
           /\ Progress' /\ stage' = "first"
           /\ gate' = "run" => Step' = Plan[Len(done) + 2]
           /\ \A step : Completed(step)' => Completed(step) \/ step = Step
           /\ \A step : Completed(step) => Completed(step)'
           /\ \A step : step = Step => Completed(step)'
<1>1. Plan' = Plan
    BY SamePlan DEF Complete
<1>2. Len(done) \in Nat /\ Len(done) < Len(Plan) /\ Len(Plan) \in Nat
    BY PlanFacts DEF IInv, Progress
<1>3. Len(done') = Len(done) + 1
    BY DEF Complete
<1>4. gate' = IF Len(done) + 1 = Len(Plan) THEN "pass" ELSE "run"
    BY DEF Complete
<1>5. Progress'
    BY <1>1, <1>2, <1>3, <1>4 DEF Progress
<1>6. Step = Plan[Len(done) + 1] /\ Step' = Plan[Len(done) + 2]
    BY <1>1, <1>2, <1>3 DEF Step
<1>7. Step \in StepShape
    BY <1>2, <1>6, PlanFacts, ElementOfSeq
<1>8. \A step : Completed(step)' <=> \E i \in 1..(Len(done) + 1) : Plan[i] = step
    BY <1>1, <1>3 DEF Completed
<1>9. 1..(Len(done) + 1) = 1..Len(done) \cup { Len(done) + 1 }
    BY <1>2
<1>10. \A step : Completed(step)' <=> Completed(step) \/ step = Step
    BY <1>6, <1>8, <1>9 DEF Completed
<1>11. stage' = "first"
    BY DEF Complete
<1>12. QED
    BY <1>1, <1>5, <1>6, <1>7, <1>10, <1>11

\* What a step does not complete it leaves completed or not.
LEMMA SameCompleted ==
    ASSUME UNCHANGED << invoked, done >>
    PROVE  /\ Plan' = Plan /\ Step' = Step
           /\ \A step : Completed(step)' <=> Completed(step)
<1>1. Plan' = Plan
    BY SamePlan
<1>2. QED
    BY <1>1 DEF Step, Completed

\* The fixture step under way has not been completed before.
LEMMA StepIsNew ==
    ASSUME IInv, gate = "run", Step.kind = "fixtures"
    PROVE  ~ Completed(Step) /\ Step = Fixtures(Step.name)
<1>1. Len(done) + 1 \in DOMAIN Plan /\ Step = Plan[Len(done) + 1]
    BY PlanFacts DEF IInv, Progress, Step
<1>2. Step \in StepShape
    BY <1>1, PlanFacts, ElementOfSeq
<1>3. Step = Fixtures(Step.name)
    BY <1>2 DEF StepShape, Fixtures
<1>4. ASSUME NEW i \in 1..Len(done), Plan[i] = Step PROVE FALSE
    <2>1. i \in DOMAIN Plan /\ i # Len(done) + 1
        BY PlanFacts DEF IInv, Progress
    <2>2. QED
        BY <1>1, <1>4, <2>1, PlanFacts DEF UniqueFixtures
<1>5. QED
    BY <1>3, <1>4 DEF Completed

\* A step that writes no files is completed on what it has shown.
LEMMA CompleteStep ==
    ASSUME IInv, gate = "run", Complete, UNCHANGED << temporary, written >>,
           Step.kind # "fixtures",
           IF Step = JavaStep THEN HasFeature21(java') ELSE java' = java,
           Step = [kind |-> "quality", name |-> "tests"] => truth = Claims,
           Step = [kind |-> "adapter", name |-> "verify-cohort-parity"] =>
                "verify-cohort-parity" \in truth
    PROVE  IInv'
<1>1. \A f \in DOMAIN temporary : Completed(Fixtures(f.set))
    <2>1. \A name : Fixtures(name).kind = "fixtures"
        BY DEF Fixtures
    <2>2. QED
        BY <2>1 DEF IInv, FilesAreCurrent
<1>2. /\ Plan' = Plan /\ Progress' /\ stage' = "first"
      /\ \A step : Completed(step)' => Completed(step) \/ step = Step
      /\ \A step : Completed(step) => Completed(step)'
    BY OneMore
<1>3. Shape'
    BY <1>2 DEF IInv, Shape, Complete
<1>4. FilesAreCurrent'
    BY <1>1, <1>2 DEF FilesAreCurrent, Fixtures
<1>5. WritingsAreKept'
    BY <1>2 DEF IInv, WritingsAreKept, Fixtures
<1>6. StepsAreKept'
    <2>1. truth' = truth /\ (\A f : TextsOf(f)' = TextsOf(f))
        BY DEF Complete, TextsOf
    <2>2. Completed(JavaStep)' => HasFeature21(java')
        BY <1>2 DEF IInv, StepsAreKept
    <2>3. ASSUME NEW name, Completed(Fixtures(name))', NEW f \in OutputsOf(name)
          PROVE  TextsOf(f)' = { 0 }
        <3>1. Completed(Fixtures(name))
            BY <1>2, <2>3 DEF Fixtures
        <3>2. QED
            BY <2>1, <3>1 DEF IInv, StepsAreKept
    <2>4. Completed([kind |-> "quality", name |-> "tests"])' => truth = Claims
        BY <1>2 DEF IInv, StepsAreKept
    <2>5. Completed([kind |-> "adapter", name |-> "verify-cohort-parity"])' =>
              "verify-cohort-parity" \in truth
        BY <1>2 DEF IInv, StepsAreKept
    <2>6. QED
        BY <2>1, <2>2, <2>3, <2>4, <2>5 DEF StepsAreKept, Claims, JavaStep, Fixtures, OutputsOf
<1>7. QED
    BY <1>2, <1>3, <1>4, <1>5, <1>6 DEF IInv

\* A gate that stops leaves everything where it is.
LEMMA AbortStep == ASSUME IInv, gate = "run", Abort PROVE IInv'
<1>1. UNCHANGED << invoked, truth, homes, java, done, stage, temporary, written >> /\ gate' = "fail"
    BY DEF Abort
<1>2. /\ Plan' = Plan /\ Step' = Step
      /\ \A step : Completed(step)' <=> Completed(step)
    BY <1>1, SameCompleted
<1>3. Shape' /\ Progress' /\ FilesAreCurrent'
    BY <1>1, <1>2 DEF IInv, Shape, Progress, FilesAreCurrent, Fixtures
<1>4. WritingsAreKept'
    BY <1>1, <1>2 DEF IInv, WritingsAreKept
<1>5. StepsAreKept'
    BY <1>1, <1>2 DEF IInv, StepsAreKept, TextsOf, JavaStep, Fixtures, OutputsOf, Claims
<1>6. QED
    BY <1>3, <1>4, <1>5 DEF IInv

\* a program keeps it, whatever it comes to,
LEMMA RunProgramStep == ASSUME IInv, RunProgram PROVE IInv'
<1>1. PICK kind \in { "quality", "ledger", "adapter", "smoke" } : Running(kind)
    BY DEF RunProgram
<1>2. gate = "run" /\ Step.kind = kind
    BY <1>1 DEF Running
<1>3. CASE MaySucceed /\ Complete /\ UNCHANGED << java, temporary, written >>
    <2>1. Step.kind # "fixtures" /\ Step # JavaStep
        BY <1>2 DEF JavaStep
    <2>2. Step = [kind |-> "quality", name |-> "tests"] => truth = Claims
        BY <1>3 DEF MaySucceed
    <2>3. Step = [kind |-> "adapter", name |-> "verify-cohort-parity"] =>
              "verify-cohort-parity" \in truth
        BY <1>3 DEF MaySucceed, ExitsWithSuccess
    <2>4. QED
        BY <1>2, <1>3, <2>1, <2>2, <2>3, CompleteStep
<1>4. CASE Abort
    BY <1>2, <1>4, AbortStep
<1>5. QED
    BY <1>3, <1>4 DEF RunProgram

\* Whichever place is chosen, a Java 21 is there.
LEMMA FindJavaStep == ASSUME IInv, FindJava PROVE IInv'
<1> DEFINE I == { i \in 1..Len(homes) : HasFeature21(homes[i]) }
           fit == SelectInSeq(homes, HasFeature21)
<1>1. gate = "run" /\ Step.kind = "oracle"
    BY DEF FindJava, Running
<1>2. CASE fit = 0
    BY <1>1, <1>2, AbortStep DEF FindJava
<1>3. CASE fit # 0
    <2>1. java' = homes[fit] /\ Complete /\ UNCHANGED << temporary, written >>
        BY <1>3 DEF FindJava
    <2>2. fit = IF I # {} THEN Min(I) ELSE 0
        BY DEF SelectInSeq
    <2>3. I \in SUBSET Nat /\ I # {}
        BY <1>3, <2>2
    <2>4. fit \in I
        BY <2>2, <2>3, MinIsMember
    <2>5. HasFeature21(java')
        BY <2>1, <2>4
    <2>6. Step = JavaStep
        <3>1. Step \in StepShape
            BY <1>1, <2>1, OneMore
        <3>2. QED
            BY <1>1, <3>1 DEF FindJava, StepShape, JavaStep
    <2>7. QED
        BY <1>1, <2>1, <2>5, <2>6, CompleteStep
<1>4. QED
    BY <1>2, <1>3

\* compiling the oracle keeps it, and so does every other step.
LEMMA CompileOracleStep == ASSUME IInv, CompileOracle PROVE IInv'
<1>1. gate = "run" /\ Step.kind = "oracle" /\ Step.name = "compile"
    BY DEF CompileOracle, Running
<1>2. CASE Complete /\ UNCHANGED << java, temporary, written >>
    BY <1>1, <1>2, CompleteStep DEF JavaStep
<1>3. CASE Abort
    BY <1>1, <1>3, AbortStep
<1>4. QED
    BY <1>2, <1>3 DEF CompileOracle

\* A run of the oracle writes what is not there yet.
LEMMA RunOracleOnceStep == ASSUME IInv, RunOracleOnce PROVE IInv'
<1>1. gate = "run" /\ Step.kind = "fixtures" /\ stage \in { "first", "second" }
    BY DEF RunOracleOnce, Running
<1>2. ~ Completed(Step) /\ Step = Fixtures(Step.name)
    BY <1>1, StepIsNew
<1> DEFINE Files(parts) == { File(stage, part) : part \in parts }
<1>3. PICK parts \in SUBSET { "results", "manifest" } : \E text \in [parts -> OracleTexts] :
        /\ temporary' = [f \in DOMAIN temporary \cup Files(parts) |->
                            IF f \in Files(parts) THEN text[f.part] ELSE temporary[f]]
        /\ written' = written \cup { [file |-> f, text |-> text[f.part]] : f \in Files(parts) }
        /\ \/ /\ stage' = (IF stage = "first" THEN "second" ELSE "compare") /\ gate' = gate
           \/ gate' = "fail" /\ stage' = stage
    BY Zenon DEF RunOracleOnce
<1>17. PICK text \in [parts -> OracleTexts] :
        /\ temporary' = [f \in DOMAIN temporary \cup Files(parts) |->
                            IF f \in Files(parts) THEN text[f.part] ELSE temporary[f]]
        /\ written' = written \cup { [file |-> f, text |-> text[f.part]] : f \in Files(parts) }
        /\ \/ /\ stage' = (IF stage = "first" THEN "second" ELSE "compare") /\ gate' = gate
           \/ gate' = "fail" /\ stage' = stage
    BY <1>3
<1>4. UNCHANGED << invoked, truth, homes, java, done >>
    BY DEF RunOracleOnce
<1>5. /\ Plan' = Plan /\ Step' = Step
      /\ \A step : Completed(step)' <=> Completed(step)
    BY <1>4, SameCompleted
<1> DEFINE new == Files(parts)
<1>6. \A f \in new : /\ f \in OutputsOf(Step.name) /\ f.set = Step.name /\ f.run = stage
                     /\ f.part \in parts /\ f \in OutputsOf(f.set)
    BY <1>1, <1>17 DEF File, OutputsOf
<1>7. ASSUME NEW f \in DOMAIN temporary
      PROVE  \/ Completed(Fixtures(f.set)) /\ f.set # Step.name
             \/ f.set = Step.name /\ stage = "second" /\ f.run = "first"
    <2>1. CASE Completed(Fixtures(f.set))
        BY <1>2, <2>1
    <2>2. CASE ~ Completed(Fixtures(f.set))
        <3>1. Step = Fixtures(f.set) /\ stage = "second" /\ f.run = "first"
            BY <1>1, <2>2 DEF IInv, FilesAreCurrent
        <3>2. QED
            BY <3>1 DEF Fixtures
    <2>3. QED
        BY <2>1, <2>2
<1>8. new \cap DOMAIN temporary = {}
    BY <1>6, <1>7
<1> HIDE DEF new, Files
<1>9. /\ DOMAIN temporary' = DOMAIN temporary \cup new
      /\ \A f \in DOMAIN temporary : temporary'[f] = temporary[f]
      /\ \A f \in new : temporary'[f] = text[f.part]
    BY <1>17, <1>8 DEF new
<1>10. written' = written \cup { [file |-> f, text |-> text[f.part]] : f \in new }
    BY <1>17 DEF new
<1>11. Shape'
    <2>1. \A f \in DOMAIN temporary' : temporary'[f] \in OracleTexts
        BY <1>17, <1>6, <1>9 DEF IInv, Shape
    <2>2. temporary' = [f \in DOMAIN temporary' |-> temporary'[f]]
        BY <1>17
    <2>3. temporary' \in [DOMAIN temporary' -> OracleTexts]
        BY <2>1, <2>2
    <2>4. \A f \in DOMAIN temporary' : f \in OutputsOf(f.set)
        BY <1>6, <1>9 DEF IInv, Shape
    <2>5. \A w \in written' : w.file \in OutputsOf(w.file.set)
        BY <1>6, <1>10 DEF IInv, Shape
    <2>6. /\ gate' \in { "run", "pass", "fail" } /\ stage' \in { "first", "second", "compare" }
          /\ homes' \in [1..3 -> Homes]
        BY <1>1, <1>17, <1>4 DEF IInv, Shape
    <2>7. QED
        BY <2>3, <2>4, <2>5, <2>6 DEF Shape, OutputsOf
<1>12. Progress'
    BY <1>1, <1>17, <1>4, <1>5 DEF IInv, Progress
<1>13. FilesAreCurrent'
    <2>1. \A f \in DOMAIN temporary' : f.set = Step.name \/ Completed(Fixtures(f.set))
        BY <1>6, <1>7, <1>9
    <2>2. \A f \in DOMAIN temporary' : Step' = Fixtures(f.set) \/ Completed(Fixtures(f.set))
        BY <1>2, <1>5, <2>1
    <2>3. gate' = "run" /\ stage' = "second" =>
             \A f \in DOMAIN temporary' : f.run = "first" \/ Completed(Fixtures(f.set))
        BY <1>1, <1>17, <1>6, <1>7, <1>9
    <2>4. gate' # "pass" /\ (gate' = "run" => stage' # "first")
        BY <1>1, <1>17
    <2>5. QED
        BY <1>5, <2>2, <2>3, <2>4 DEF FilesAreCurrent, Fixtures
<1>14. WritingsAreKept'
    <2>1. ASSUME NEW f \in DOMAIN temporary'
          PROVE  [file |-> f, text |-> temporary'[f]] \in written'
        BY <1>9, <1>10, <2>1 DEF IInv, WritingsAreKept
    <2>2. ASSUME NEW w \in written, w.file \in DOMAIN temporary, w.text = temporary[w.file]
          PROVE  w.file \in DOMAIN temporary' /\ w.text = temporary'[w.file]
        BY <1>9, <2>2
    <2>3. ASSUME NEW w \in written, w.file \notin DOMAIN temporary, w.text = 0,
                 Completed(Fixtures(w.file.set))
          PROVE  w.file \notin DOMAIN temporary' /\ w.text = 0 /\ Completed(Fixtures(w.file.set))'
        <3>1. w.file.set # Step.name
            BY <1>2, <2>3
        <3>2. w.file \notin new
            BY <1>6, <3>1
        <3>3. QED
            BY <1>5, <1>9, <2>3, <3>2 DEF Fixtures
    <2>4. ASSUME NEW f \in new, NEW w, w = [file |-> f, text |-> text[f.part]]
          PROVE  w.file \in DOMAIN temporary' /\ w.text = temporary'[w.file]
        BY <1>9, <2>4
    <2>5. ASSUME NEW w \in written'
          PROVE  \/ w.file \in DOMAIN temporary' /\ w.text = temporary'[w.file]
                 \/ w.file \notin DOMAIN temporary' /\ w.text = 0 /\ Completed(Fixtures(w.file.set))'
        <3>1. CASE w \in written
            BY <2>2, <2>3, <3>1 DEF IInv, WritingsAreKept
        <3>2. CASE w \in { [file |-> f, text |-> text[f.part]] : f \in new }
            BY <2>4, <3>2
        <3>3. QED
            BY <1>10, <2>5, <3>1, <3>2
    <2>6. QED
        BY <2>1, <2>5 DEF WritingsAreKept
<1>15. StepsAreKept'
    <2>1. ASSUME NEW name, Completed(Fixtures(name)), NEW f \in OutputsOf(name)
          PROVE  TextsOf(f)' = { 0 }
        <3>1. name # Step.name /\ f.set = name
            BY <1>2, <2>1 DEF OutputsOf
        <3>2. { x \in written' : x.file = f } = { x \in written : x.file = f }
            BY <1>6, <1>10, <3>1
        <3>3. TextsOf(f)' = TextsOf(f)
            BY <3>2 DEF TextsOf
        <3>4. QED
            BY <2>1, <3>3 DEF IInv, StepsAreKept
    <2>2. \A name : Completed(Fixtures(name))' => \A f \in OutputsOf(name) : TextsOf(f)' = { 0 }
        BY <1>5, <2>1 DEF Fixtures
    <2>3. QED
        BY <1>4, <1>5, <2>2 DEF IInv, StepsAreKept, JavaStep, Fixtures, OutputsOf, Claims
<1>16. QED
    BY <1>11, <1>12, <1>13, <1>14, <1>15 DEF IInv

\* The files go only when all four hold what the repository retains.
LEMMA CompareOutputsStep == ASSUME IInv, CompareOutputs PROVE IInv'
<1>1. gate = "run" /\ Step.kind = "fixtures"
    BY DEF CompareOutputs, Running
<1>2. CASE Abort
    BY <1>1, <1>2, AbortStep
<1>3. ASSUME Reproduced, Complete, UNCHANGED << java, written >>,
             NEW gone \in SUBSET { f \in DOMAIN temporary : f.set = Step.name },
             temporary' = [f \in DOMAIN temporary \ gone |-> temporary[f]]
      PROVE  IInv'
    <2>1. ~ Completed(Step) /\ Step = Fixtures(Step.name)
        BY <1>1, StepIsNew
    <2>2. /\ Plan' = Plan /\ Progress' /\ stage' = "first"
          /\ \A step : Completed(step)' => Completed(step) \/ step = Step
          /\ \A step : Completed(step) => Completed(step)'
          /\ \A step : step = Step => Completed(step)'
        BY <1>1, <1>3, OneMore
    <2>3. \A f \in DOMAIN temporary :
             f \in OutputsOf(f.set) /\ (Completed(Fixtures(f.set)) \/ Step = Fixtures(f.set))
        BY DEF IInv, FilesAreCurrent, Shape
    <2>4. /\ DOMAIN temporary' = DOMAIN temporary \ gone
          /\ \A f \in DOMAIN temporary' : temporary'[f] = temporary[f]
          /\ temporary' \in [DOMAIN temporary' -> OracleTexts]
        BY <1>3 DEF IInv, Shape
    <2>5. \A f \in OutputsOf(Step.name) : f \in DOMAIN temporary /\ temporary[f] = 0
        <3>1. \A run \in { "first", "second" }, part \in { "results", "manifest" } :
                  File(run, part) \in DOMAIN temporary /\ temporary[File(run, part)] = 0
            BY <1>3 DEF Reproduced, Compares, SameText, Committed
        <3>2. \A f \in OutputsOf(Step.name) :
                  \E run \in { "first", "second" }, part \in { "results", "manifest" } :
                      f = File(run, part)
            BY DEF OutputsOf, File
        <3>3. QED
            BY <3>1, <3>2
    <2>6. Shape'
        BY <1>3, <2>2, <2>4 DEF IInv, Shape, Complete, OutputsOf
    <2>7. FilesAreCurrent'
        <3>1. \A f \in DOMAIN temporary' : Completed(Fixtures(f.set))'
            BY <2>2, <2>3, <2>4 DEF Fixtures
        <3>2. QED
            BY <3>1 DEF FilesAreCurrent, Fixtures
    <2>8. WritingsAreKept'
        <3>1. ASSUME NEW w \in written, w.file \in DOMAIN temporary, w.text = temporary[w.file],
                     w.file \in gone
              PROVE  w.text = 0 /\ Completed(Fixtures(w.file.set))'
            <4>1. w.file.set = Step.name /\ w.file \in OutputsOf(w.file.set)
                BY <2>3, <3>1
            <4>2. QED
                BY <2>1, <2>2, <2>5, <3>1, <4>1 DEF Fixtures
        <3>2. ASSUME NEW w \in written, Completed(Fixtures(w.file.set))
              PROVE  Completed(Fixtures(w.file.set))'
            BY <2>2, <3>2 DEF Fixtures
        <3>3. ASSUME NEW w \in written
              PROVE  \/ w.file \in DOMAIN temporary' /\ w.text = temporary'[w.file]
                     \/ w.file \notin DOMAIN temporary' /\ w.text = 0 /\ Completed(Fixtures(w.file.set))'
            BY <2>4, <3>1, <3>2 DEF IInv, WritingsAreKept
        <3>4. \A f \in DOMAIN temporary' : [file |-> f, text |-> temporary'[f]] \in written
            BY <2>4 DEF IInv, WritingsAreKept
        <3>5. QED
            BY <1>3, <3>3, <3>4 DEF WritingsAreKept, Fixtures
    <2>9. StepsAreKept'
        <3>1. truth' = truth /\ java' = java /\ (\A f : TextsOf(f)' = TextsOf(f))
            BY <1>3 DEF Complete, TextsOf
        <3>2. ASSUME NEW f \in OutputsOf(Step.name) PROVE TextsOf(f) = { 0 }
            <4>1. [file |-> f, text |-> 0] \in written
                BY <2>5 DEF IInv, WritingsAreKept
            <4>2. \A w \in written : w.file = f => w.text = 0
                BY <2>5 DEF IInv, WritingsAreKept
            <4>3. QED
                BY <4>1, <4>2 DEF TextsOf
        <3>3. ASSUME NEW name, Completed(Fixtures(name))', NEW f \in OutputsOf(name)
              PROVE  TextsOf(f)' = { 0 }
            <4>1. CASE Completed(Fixtures(name))
                BY <3>1, <3>3, <4>1 DEF IInv, StepsAreKept
            <4>2. CASE Fixtures(name) = Step
                <5>1. name = Step.name
                    BY <4>2 DEF Fixtures
                <5>2. QED
                    BY <3>1, <3>2, <3>3, <5>1
            <4>3. Completed(Fixtures(name)) \/ Fixtures(name) = Step
                BY <2>2, <3>3 DEF Fixtures
            <4>4. QED
                BY <4>1, <4>2, <4>3
        <3>4. Completed(JavaStep)' => Completed(JavaStep)
            BY <1>1, <2>2 DEF JavaStep
        <3>5. Completed([kind |-> "quality", name |-> "tests"])' =>
                  Completed([kind |-> "quality", name |-> "tests"])
            BY <1>1, <2>2
        <3>6. Completed([kind |-> "adapter", name |-> "verify-cohort-parity"])' =>
                  Completed([kind |-> "adapter", name |-> "verify-cohort-parity"])
            BY <1>1, <2>2
        <3>7. QED
            BY <3>1, <3>3, <3>4, <3>5, <3>6
               DEF IInv, StepsAreKept, JavaStep, Fixtures, OutputsOf, Claims
    <2>10. QED
        BY <2>2, <2>6, <2>7, <2>8, <2>9 DEF IInv
<1>4. QED
    BY <1>2, <1>3, Zenon DEF CompareOutputs

\* The invariant holds throughout.
LEMMA AlwaysIInv == GateSpec => []IInv
<1>1. IInv /\ [GateStep]_gateVars => IInv'
    <2> SUFFICES ASSUME IInv, [GateStep]_gateVars PROVE IInv'
        OBVIOUS
    <2>1. CASE UNCHANGED gateVars
        <3>1. /\ Plan' = Plan /\ Step' = Step
              /\ \A step : Completed(step)' <=> Completed(step)
            BY <2>1, SameCompleted DEF gateVars
        <3>2. Shape' /\ Progress' /\ FilesAreCurrent'
            BY <2>1, <3>1 DEF gateVars, IInv, Shape, Progress, FilesAreCurrent, Fixtures
        <3>3. WritingsAreKept' /\ StepsAreKept'
            BY <2>1, <3>1 DEF gateVars, IInv, WritingsAreKept, StepsAreKept, TextsOf, JavaStep,
                              Fixtures, OutputsOf, Claims
        <3>4. QED
            BY <3>2, <3>3 DEF IInv
    <2>2. QED
        BY <2>1, RunProgramStep, FindJavaStep, CompileOracleStep, RunOracleOnceStep,
           CompareOutputsStep DEF GateStep
<1>2. QED
    BY <1>1, InitIInv, PTL DEF GateSpec

\* Whatever the steps, the inputs and the machine: a gate that passes saw both runs of the
\* oracle reproduce every retained output and every claim its steps depend on, and one
\* that fails leaves the files of the step that failed; what else may be left behind is as
\* retained (run_quality_gate, verify_oracle_fixture_set).
THEOREM GateStaysHonest == GateSpec => []GateIsHonest
<1>1. QED
    BY Honest, AlwaysIInv, PTL

-----------------------------------------------------------------------------
(* Parity: the campaign. *)

FixturesOf(f) == Suites[f].fixtures
JavaOf(f) == ByCase(Suites[f].java)

\* How many cases a family has: the fixture sets, the two of the campaign's own, the errors.
Cases(f) ==
    IF f <= Len(Suites) THEN Len(FixturesOf(f))
    ELSE IF f <= Len(Suites) + 2 THEN OwnCases ELSE BuildErrors
Families == 1..(Len(Suites) + 3)

LEMMA CampaignFacts ==
    ASSUME campaign \in Campaigns
    PROVE  /\ Program \in { "differential", "parity" }
           /\ Len(Suites) \in Nat \ {0} /\ DOMAIN Suites = 1..Len(Suites)
           /\ Program = "differential" => Len(Suites) = 1
           /\ \A f \in 1..Len(Suites) :
                 /\ Len(FixturesOf(f)) \in Nat
                 /\ DOMAIN FixturesOf(f) = 1..Len(FixturesOf(f))
           /\ \A f \in Families : Cases(f) \in Nat
           /\ Configurations \in Nat \ {0} /\ BuildErrors \in Nat \ {0} /\ OwnCases \in Nat
<1>1. /\ Program \in { "differential", "parity" }
      /\ Suites \in Seq(ToSet(Suites)) /\ Suites # <<>>
      /\ Program = "differential" => Len(Suites) = 1
      /\ \A f \in DOMAIN Suites : FixturesOf(f) \in Seq(ToSet(FixturesOf(f)))
    BY ParityAssumption DEF Program, Suites, FixturesOf
<1>2. Len(Suites) \in Nat \ {0} /\ DOMAIN Suites = 1..Len(Suites)
    <2> DEFINE s == Suites
               S == ToSet(s)
    <2>1. s \in Seq(S) /\ s # << >>
        BY <1>1
    <2> HIDE DEF s, S
    <2>2. Len(s) \in Nat /\ DOMAIN s = 1..Len(s) /\ Len(s) # 0
        BY <2>1, LenProperties, EmptySeq
    <2>3. QED
        BY <2>2 DEF s
<1>3. ASSUME NEW f \in 1..Len(Suites)
      PROVE  Len(FixturesOf(f)) \in Nat /\ DOMAIN FixturesOf(f) = 1..Len(FixturesOf(f))
    <2> DEFINE s == FixturesOf(f)
               S == ToSet(s)
    <2>1. s \in Seq(S)
        BY <1>1, <1>2
    <2> HIDE DEF s, S
    <2>2. Len(s) \in Nat /\ DOMAIN s = 1..Len(s)
        BY <2>1, LenProperties
    <2>3. QED
        BY <2>2 DEF s
<1>4. Configurations \in Nat \ {0} /\ BuildErrors \in Nat \ {0} /\ OwnCases \in Nat
    BY ParityAssumption
<1>5. \A f \in Families : Cases(f) \in Nat
    BY <1>2, <1>3, <1>4 DEF Cases, Families
<1>6. QED
    BY <1>1, <1>2, <1>3, <1>4, <1>5

\* Nothing of the campaign changes while it runs.
LEMMA SameCampaign ==
    ASSUME campaign' = campaign
    PROVE  /\ Program' = Program /\ Suites' = Suites /\ Families' = Families
           /\ \A f : FixturesOf(f)' = FixturesOf(f)
           /\ \A f : JavaOf(f)' = JavaOf(f)
           /\ \A f : Cases(f)' = Cases(f)
           /\ \A e : Wanted(e)' = Wanted(e)
BY DEF Program, Suites, Families, FixturesOf, JavaOf, Cases, Wanted

\* A family of names is as large as its index set just when they differ.
LEMMA DifferentNames ==
    ASSUME NEW n \in Nat, NEW name, name = [i \in 1..n |-> name[i]]
    PROVE  Cardinality({ name[i] : i \in 1..n }) = n
              <=> \A i, j \in 1..n : name[i] = name[j] => i = j
<1> DEFINE T == { name[i] : i \in 1..n }
<1>1. name \in Surjection(1..n, T)
    BY DEF Surjection
<1>2. IsFiniteSet(1..n) /\ Cardinality(1..n) = n
    BY FS_Interval
<1>3. name \in Injection(1..n, T) <=> \A i, j \in 1..n : name[i] = name[j] => i = j
    BY DEF Injection, IsInjective
<1> HIDE DEF T
<1>4. Cardinality(T) = Cardinality(1..n) <=> name \in Injection(1..n, T)
    BY <1>1, <1>2, FS_Surjection
<1>5. QED
    BY <1>2, <1>3, <1>4 DEF T

\* The fixtures of a set are of different cases just when there are as many cases.
LEMMA DifferentCases ==
    ASSUME campaign \in Campaigns, NEW f \in 1..Len(Suites)
    PROVE  Cardinality(CasesOf(Suites[f])) = Len(FixturesOf(f))
              <=> \A i, j \in 1..Len(FixturesOf(f)) :
                     FixturesOf(f)[i].id = FixturesOf(f)[j].id => i = j
<1> DEFINE n == Len(FixturesOf(f))
           name == [i \in 1..n |-> FixturesOf(f)[i].id]
<1>1. n \in Nat /\ DOMAIN FixturesOf(f) = 1..n
    BY CampaignFacts
<1>2. CasesOf(Suites[f]) = { name[i] : i \in 1..n }
    BY <1>1 DEF CasesOf, FixturesOf
<1>3. name = [i \in 1..n |-> name[i]]
    OBVIOUS
<1>4. \A i \in 1..n : name[i] = FixturesOf(f)[i].id
    OBVIOUS
<1> HIDE DEF n, name
<1>5. Cardinality({ name[i] : i \in 1..n }) = n
              <=> \A i, j \in 1..n : name[i] = name[j] => i = j
    BY <1>1, <1>3, DifferentNames
<1>6. QED
    BY <1>2, <1>4, <1>5 DEF n

\* What sorting leaves alone.
LEMMA CollectedKind ==
    ASSUME NEW r, r \in Results \/ \E e : r = Delivered(e)
    PROVE  Collected(r).kind = r.kind
<1>1. "kind" \in DOMAIN r
    BY ParityAssumption DEF Delivered
<1>2. QED
    BY <1>1 DEF Collected

-----------------------------------------------------------------------------
(* Parity: the inductive invariant. *)

PositionInv ==
    /\ campaign \in Campaigns
    /\ family \in Families /\ case \in Nat /\ configuration \in Nat /\ comparisons \in Nat
    /\ conclusion \in { "run", "pass", "fail" }
    /\ configuration = 0 => reference = None
    /\ conclusion # "fail" =>
        /\ case <= Cases(family) + 1 /\ configuration <= Configurations + 1
        /\ case = 0 => family <= Len(Suites)
        /\ configuration > 0 =>
            /\ case \in 1..Cases(family) /\ family <= Len(Suites) + 2
            /\ Program = "parity" /\ reference # None
        /\ conclusion = "run" =>
            /\ Program = "differential" => family <= Len(Suites)
            /\ family <= Len(Suites) + 2 \/ case <= BuildErrors
        /\ conclusion = "pass" =>
            /\ family > Len(Suites)
            /\ Program = "parity" => family = Len(Suites) + 3 /\ case = BuildErrors + 1

\* The first n fixtures of a set are of different cases, and fit what Java has for them.
Fits(f, n) ==
    /\ Cardinality(DOMAIN JavaOf(f)) = Len(FixturesOf(f))
    /\ \A i \in 1..n : Sound(FixturesOf(f)[i], JavaOf(f))
    /\ \A i, j \in 1..n : FixturesOf(f)[i].id = FixturesOf(f)[j].id => i = j

\* What is left of Java's results once those are used.
Unused(f, n) ==
    [id \in DOMAIN JavaOf(f) \ { FixturesOf(f)[i].id : i \in 1..n } |-> JavaOf(f)[id]]

SuitesInv ==
    conclusion # "fail" =>
        /\ \A f \in 1..Len(Suites) : f < family => SuiteIsSound(Suites[f])
        /\ family <= Len(Suites) /\ case > 0 =>
            /\ Fits(family, case - 1) /\ remaining = Unused(family, case - 1)
            /\ configuration > 0 =>
                /\ Sound(Fixture, remaining) /\ Fixture.expectation = "matched"
                /\ reference = Wanted(Java.events)

\* The cases that are behind, and what was observed of one.
Done(f, i) == f < family \/ (f = family /\ i < case)
Of(f, i) == { o \in observed : o.family = f /\ o.case = i }

Earlier(o) ==
    \/ Done(o.family, o.case)
    \/ o.family = family /\ o.case = case /\ o.configuration \in 1..(configuration - 1)

ObservedInv ==
    conclusion # "fail" =>
        /\ IsFiniteSet(observed) /\ Cardinality(observed) = comparisons
        /\ \A o \in observed :
            /\ o.family \in Families /\ o.case \in 1..Cases(o.family)
            /\ Earlier(o) /\ ~ Differs(o)
        /\ \A f \in 1..Len(Suites) : \A i \in 1..Cases(f) : Done(f, i) => DeliveredAsJava(f, i)
        /\ Program = "parity" =>
              \A f \in Families : \A i \in 1..Cases(f) : Done(f, i) => Of(f, i) # {}
        /\ configuration > 0 =>
            /\ { o.configuration : o \in Of(family, case) } = 1..(configuration - 1)
            /\ \A o \in Of(family, case) : \A n \in DOMAIN o.results : o.results[n] = reference

FailInv ==
    conclusion = "fail" =>
        \/ \E o \in observed : Differs(o)
        \/ reference = None /\ family > Len(Suites)
        \/ \E f \in DOMAIN Suites : ~ SuiteIsSound(Suites[f])

ParityInv == PositionInv /\ SuitesInv /\ ObservedInv /\ FailInv

ParitySpec == ParityInit /\ [][ParityStep]_parityVars

-----------------------------------------------------------------------------
(* Parity: what the fixtures tell. *)

\* The set of a family whose every fixture fitted, with no result left over, is sound.
LEMMA AllFit ==
    ASSUME campaign \in Campaigns, NEW f \in 1..Len(Suites),
           Fits(f, Len(FixturesOf(f))), DOMAIN Unused(f, Len(FixturesOf(f))) = {}
    PROVE  SuiteIsSound(Suites[f])
<1> DEFINE n == Len(FixturesOf(f))
<1>1. n \in Nat /\ DOMAIN FixturesOf(f) = 1..n
    BY CampaignFacts
<1>2. DOMAIN JavaOf(f) = ResultsOf(Suites[f])
    BY DEF JavaOf, ByCase, ResultsOf
<1>3. CasesOf(Suites[f]) = { FixturesOf(f)[i].id : i \in 1..n }
    BY <1>1 DEF CasesOf, FixturesOf
<1>4. ResultsOf(Suites[f]) \subseteq CasesOf(Suites[f])
    BY <1>2, <1>3 DEF Unused
<1>5. CasesOf(Suites[f]) \subseteq ResultsOf(Suites[f])
    BY <1>2, <1>3 DEF Fits, Sound
<1>6. Cardinality(CasesOf(Suites[f])) = n
    BY DifferentCases DEF Fits
<1>7. \A i \in DOMAIN Suites[f].fixtures : Sound(Suites[f].fixtures[i], ByCase(Suites[f].java))
    <2>1. \A i \in DOMAIN FixturesOf(f) : Sound(FixturesOf(f)[i], JavaOf(f))
        BY <1>1, Zenon DEF Fits
    <2>2. QED
        BY <2>1, Zenon DEF FixturesOf, JavaOf
<1>8. QED
    BY <1>4, <1>5, <1>6, <1>7 DEF SuiteIsSound, FixturesOf

\* A sound set has as many results as fixtures; every fixture fits; no name comes twice.
LEMMA SoundFits ==
    ASSUME campaign \in Campaigns, NEW f \in 1..Len(Suites), SuiteIsSound(Suites[f])
    PROVE  Fits(f, Len(FixturesOf(f))) /\ DOMAIN Unused(f, Len(FixturesOf(f))) = {}
<1> DEFINE n == Len(FixturesOf(f))
<1>1. n \in Nat /\ DOMAIN FixturesOf(f) = 1..n
    BY CampaignFacts
<1>2. DOMAIN JavaOf(f) = ResultsOf(Suites[f])
    BY DEF JavaOf, ByCase, ResultsOf
<1>3. CasesOf(Suites[f]) = { FixturesOf(f)[i].id : i \in 1..n }
    BY <1>1 DEF CasesOf, FixturesOf
<1>4. /\ Cardinality(CasesOf(Suites[f])) = n /\ CasesOf(Suites[f]) = ResultsOf(Suites[f])
      /\ \A i \in 1..n : Sound(FixturesOf(f)[i], JavaOf(f))
    BY <1>1 DEF SuiteIsSound, FixturesOf, JavaOf
<1>5. \A i, j \in 1..n : FixturesOf(f)[i].id = FixturesOf(f)[j].id => i = j
    BY <1>4, DifferentCases
<1>6. QED
    BY <1>2, <1>3, <1>4, <1>5, Zenon DEF Fits, Unused

\* A function of nothing is the empty sequence.
LEMMA EmptyFunction ==
    ASSUME NEW f, f = [x \in DOMAIN f |-> f[x]]
    PROVE  f = << >> <=> DOMAIN f = {}
<1>1. ASSUME DOMAIN f = {} PROVE f = << >>
    <2>1. 1..0 = {}
        OBVIOUS
    <2>2. f \in [1..0 -> {}]
        BY <1>1, <2>1
    <2>3. f \in Seq({}) /\ Len(f) = 0
        BY <2>2
    <2>4. QED
        BY <2>3, EmptySeq
<1>2. ASSUME f = << >> PROVE DOMAIN f = {}
    BY <1>2
<1>3. QED
    BY <1>1, <1>2

\* Using up the next fixture's result.
LEMMA UsedUp ==
    ASSUME campaign \in Campaigns, NEW f \in 1..Len(Suites), NEW i \in 1..Len(FixturesOf(f)),
           Fits(f, i - 1), Sound(FixturesOf(f)[i], Unused(f, i - 1))
    PROVE  /\ Fits(f, i)
           /\ Unused(f, i - 1)[FixturesOf(f)[i].id] = JavaOf(f)[FixturesOf(f)[i].id]
           /\ [id \in DOMAIN Unused(f, i - 1) \ { FixturesOf(f)[i].id } |-> Unused(f, i - 1)[id]]
                 = Unused(f, i)
<1> DEFINE F == FixturesOf(f)
           J == JavaOf(f)
<1>1. Len(F) \in Nat
    BY CampaignFacts
<1>2. /\ F[i].id \in DOMAIN J /\ \A j \in 1..(i - 1) : F[j].id # F[i].id
      /\ Unused(f, i - 1)[F[i].id] = J[F[i].id]
    BY DEF Sound, Unused
<1>3. Sound(F[i], J)
    BY <1>2 DEF Sound
<1>4. \A j \in 1..i : j \in 1..(i - 1) \/ j = i
    BY <1>1
<1>5. \A j \in 1..(i - 1) : j \in 1..i
    BY <1>1
<1>6. i \in 1..i
    BY <1>1
<1>7. Fits(f, i)
    BY <1>2, <1>3, <1>4 DEF Fits
<1>8. DOMAIN Unused(f, i - 1) \ { F[i].id } = DOMAIN Unused(f, i)
    BY <1>4, <1>5, <1>6 DEF Unused
<1>9. \A id \in DOMAIN Unused(f, i) : Unused(f, i - 1)[id] = J[id]
    BY <1>5 DEF Unused
<1>10. Unused(f, i) = [id \in DOMAIN Unused(f, i) |-> J[id]]
    BY DEF Unused
<1>11. QED
    BY <1>2, <1>7, <1>8, <1>9, <1>10

-----------------------------------------------------------------------------
(* Parity: failing. *)

\* No step is taken once the command has ended.
LEMMA StillRunning ==
    ASSUME ParityStep
    PROVE  conclusion = "run" /\ campaign' = campaign
BY DEF ParityStep, OpenSuite, Unsound, VerifyFixture, VerifyRejected, TakeReference,
       CompareConfiguration, EndCase, CloseFamily, VerifyBuildError, InSuites, InOwnCases,
       AtFixture, Quiet, NextCase

\* What makes the command fail is there to see.
LEMMA FailStep ==
    ASSUME ParityInv, ParityStep, conclusion' = "fail"
    PROVE  FailInv'
<1>1. conclusion = "run" /\ campaign' = campaign /\ campaign \in Campaigns
    BY StillRunning DEF ParityInv, PositionInv
<1>2. /\ Suites' = Suites /\ Len(Suites) \in Nat /\ DOMAIN Suites = 1..Len(Suites)
    BY <1>1, SameCampaign, CampaignFacts
<1> SUFFICES \/ \E o \in observed' : Differs(o)
             \/ reference' = None /\ family' > Len(Suites)
             \/ \E f \in 1..Len(Suites) : ~ SuiteIsSound(Suites[f])
    BY <1>2 DEF FailInv
<1>3. ASSUME InSuites
      PROVE  /\ family \in 1..Len(Suites) /\ Suite = Suites[family]
             /\ Suite.fixtures = FixturesOf(family) /\ ByCase(Suite.java) = JavaOf(family)
             /\ Len(FixturesOf(family)) \in Nat
             /\ case > 0 => Fits(family, case - 1) /\ remaining = Unused(family, case - 1)
    <2>1. family \in 1..Len(Suites) /\ case \in Nat
        BY <1>2, <1>3 DEF InSuites, ParityInv, PositionInv, Families
    <2>2. Len(FixturesOf(family)) \in Nat
        BY <1>1, <2>1, CampaignFacts
    <2>3. QED
        BY <1>1, <1>3, <2>1, <2>2 DEF InSuites, Suite, FixturesOf, JavaOf, ParityInv, SuitesInv
<1>4. CASE OpenSuite
    <2>1. InSuites /\ Cardinality(DOMAIN JavaOf(family)) # Len(FixturesOf(family))
        BY <1>1, <1>3, <1>4 DEF OpenSuite
    <2>2. ~ SuiteIsSound(Suites[family])
        BY <1>1, <1>3, <2>1, SoundFits DEF Fits
    <2>3. QED
        BY <1>3, <2>1, <2>2
<1>5. CASE Unsound
    <2>1. /\ InSuites /\ case \in 1..Len(FixturesOf(family))
          /\ ~ Sound(FixturesOf(family)[case], Unused(family, case - 1))
        BY <1>3, <1>5 DEF Unsound, AtFixture, Fixture
    <2>2. ASSUME SuiteIsSound(Suites[family]) PROVE FALSE
        <3> DEFINE F == FixturesOf(family)
        <3>1. Fits(family, Len(F))
            BY <1>1, <1>3, <2>1, <2>2, SoundFits
        <3>2. Sound(F[case], JavaOf(family))
            BY <2>1, <3>1 DEF Fits
        <3>3. \A i \in 1..(case - 1) : i \in 1..Len(F) /\ i # case
            BY <1>3, <2>1
        <3>4. \A i \in 1..(case - 1) : F[i].id # F[case].id
            BY <2>1, <3>1, <3>3 DEF Fits
        <3>5. F[case].id \in DOMAIN Unused(family, case - 1)
            BY <3>2, <3>4 DEF Sound, Unused
        <3>6. Unused(family, case - 1)[F[case].id] = JavaOf(family)[F[case].id]
            BY <3>5 DEF Unused
        <3>7. QED
            BY <2>1, <3>2, <3>5, <3>6 DEF Sound
    <2>3. QED
        BY <1>3, <2>1, <2>2
<1>6. CASE VerifyFixture
    <2>1. PICK result \in Results :
            /\ Observe("scan", << Collected(result) >>,
                       IF Fixture.expectation = "matched" THEN Delivered(Java.events) ELSE None)
            /\ ~ (IF Fixture.expectation = "matched"
                  THEN Collected(result) = Delivered(Java.events) ELSE result.kind = "rejected")
        BY <1>1, <1>6 DEF VerifyFixture, Fails
    <2> DEFINE wanted == IF Fixture.expectation = "matched" THEN Delivered(Java.events) ELSE None
               o == [family |-> family, case |-> case, configuration |-> configuration,
                     lane |-> "scan", results |-> << Collected(result) >>, wanted |-> wanted]
    <2>2. /\ o.lane = "scan" /\ o.wanted = wanted /\ o.results[1] = Collected(result)
          /\ 1 \in DOMAIN o.results
        OBVIOUS
    <2>3. o \in observed'
        BY <2>1 DEF Observe
    <2> HIDE DEF o
    <2>4. Differs(o)
        <3>1. CASE Fixture.expectation = "matched"
            <4>1. wanted # None
                BY <3>1 DEF Delivered, None
            <4>2. o.results[1] # o.wanted
                BY <2>1, <2>2, <3>1
            <4>3. QED
                BY <2>2, <4>1, <4>2 DEF Differs
        <3>2. CASE Fixture.expectation # "matched"
            <4>1. o.results[1].kind # "rejected"
                BY <2>1, <2>2, <3>2, CollectedKind
            <4>2. QED
                BY <2>2, <3>2, <4>1 DEF Differs
        <3>3. QED
            BY <3>1, <3>2
    <2>5. QED
        BY <2>3, <2>4
<1>7. ASSUME NEW ordinary \in { "built", "invalid", "unsupported" },
             NEW cohort \in { "built", "invalid", "unsupported" },
             Observe("construction", << ordinary, cohort >>, None),
             ~ (ordinary = cohort /\ ordinary # "built")
      PROVE  \E o \in observed' : Differs(o)
    <2> DEFINE o == [family |-> family, case |-> case, configuration |-> configuration,
                     lane |-> "construction", results |-> << ordinary, cohort >>, wanted |-> None]
    <2>1. /\ o.lane = "construction" /\ o.results[1] = ordinary /\ o.results[2] = cohort
        OBVIOUS
    <2>2. o \in observed'
        BY <1>7 DEF Observe
    <2> HIDE DEF o
    <2>3. Differs(o)
        BY <1>7, <2>1 DEF Differs
    <2>4. QED
        BY <2>2, <2>3
<1>8. CASE VerifyRejected
    <2>1. PICK ordinary, cohort \in { "built", "invalid", "unsupported" } :
             /\ Observe("construction", << ordinary, cohort >>, None)
             /\ ~ (ordinary = cohort /\ ordinary # "built")
        BY <1>1, <1>8 DEF VerifyRejected, Fails
    <2>2. QED
        BY <1>7, <2>1
<1>9. CASE VerifyBuildError
    <2>1. PICK ordinary, cohort \in { "built", "invalid", "unsupported" } :
             /\ Observe("construction", << ordinary, cohort >>, None)
             /\ ~ (ordinary = cohort /\ ordinary # "built")
        BY <1>1, <1>9 DEF VerifyBuildError, Fails
    <2>2. QED
        BY <1>7, <2>1
<1>10. CASE TakeReference
    <2>1. InOwnCases /\ configuration = 0 /\ reference' = reference /\ family' = family
        BY <1>1, <1>10 DEF TakeReference, Fails
    <2>2. reference = None /\ family > Len(Suites)
        BY <1>2, <2>1 DEF InOwnCases, ParityInv, PositionInv, Families
    <2>3. QED
        BY <2>1, <2>2
<1>11. CASE CompareConfiguration
    <2>1. configuration > 0 /\ reference # None
        BY <1>1, <1>11 DEF CompareConfiguration, ParityInv, PositionInv
    <2>2. CASE Observe("layout", << "wrong" >>, reference)
        <3> DEFINE o == [family |-> family, case |-> case, configuration |-> configuration,
                         lane |-> "layout", results |-> << "wrong" >>, wanted |-> reference]
        <3>1. o.lane = "layout" /\ o \in observed'
            BY <2>2 DEF Observe
        <3> HIDE DEF o
        <3>2. Differs(o)
            BY <3>1 DEF Differs
        <3>3. QED
            BY <3>1, <3>2
    <2>3. CASE \E ordinary, cohort, repeated \in Results :
                  LET results == << Collected(ordinary), Collected(cohort), Collected(repeated) >>
                  IN  Observe("configuration", results, reference) /\ ~ Agreeing(results)
        <3>1. PICK results : Observe("configuration", results, reference) /\ ~ Agreeing(results)
            BY <2>3
        <3> DEFINE o == [family |-> family, case |-> case, configuration |-> configuration,
                         lane |-> "configuration", results |-> results, wanted |-> reference]
        <3>2. /\ o.lane = "configuration" /\ o.results = results /\ o.wanted = reference
              /\ o \in observed'
            BY <3>1 DEF Observe
        <3> HIDE DEF o
        <3>3. Differs(o)
            BY <2>1, <3>1, <3>2 DEF Differs, Agreeing
        <3>4. QED
            BY <3>2, <3>3
    <2>4. QED
        BY <1>1, <1>11, <2>2, <2>3 DEF CompareConfiguration, Fails
<1>12. CASE CloseFamily
    <2>1. /\ InSuites /\ case = Len(FixturesOf(family)) + 1 /\ remaining # << >>
        BY <1>1, <1>2, <1>3, <1>12 DEF CloseFamily, InSuites, InOwnCases
    <2>2. remaining = Unused(family, Len(FixturesOf(family)))
        BY <1>3, <2>1
    <2>3. DOMAIN remaining # {}
        <3>1. remaining = [id \in DOMAIN remaining |-> remaining[id]]
            BY <2>2 DEF Unused
        <3>2. QED
            BY <2>1, <3>1, EmptyFunction
    <2>4. ~ SuiteIsSound(Suites[family])
        BY <1>1, <1>3, <2>1, <2>2, <2>3, SoundFits
    <2>5. QED
        BY <1>3, <2>1, <2>4
<1>13. CASE EndCase
    BY <1>1, <1>13 DEF EndCase
<1>14. QED
    BY <1>4, <1>5, <1>6, <1>8, <1>9, <1>10, <1>11, <1>12, <1>13 DEF ParityStep

-----------------------------------------------------------------------------
(* Parity: going on. *)

\* A case whose observations stay is as delivered as it was.
LEMMA StaysDelivered ==
    ASSUME campaign' = campaign, NEW f, NEW i, Of(f, i)' = Of(f, i), DeliveredAsJava(f, i)
    PROVE  DeliveredAsJava(f, i)'
BY SameCampaign DEF DeliveredAsJava, Of

\* Nothing has been observed at the present configuration.
LEMMA Unobserved ==
    ASSUME ParityInv, conclusion = "run", NEW o \in observed, o.family = family, o.case = case
    PROVE  o.configuration # configuration /\ configuration > 0
<1>1. family \in Families /\ case \in Nat /\ configuration \in Nat
    BY DEF ParityInv, PositionInv
<1>2. ~ Done(family, case)
    BY <1>1, CampaignFacts DEF Done, ParityInv, PositionInv, Families
<1>3. o.configuration \in 1..(configuration - 1)
    BY <1>2 DEF ParityInv, ObservedInv, Earlier
<1>4. QED
    BY <1>1, <1>3

\* A further observation.
LEMMA Noted ==
    ASSUME ParityInv, conclusion = "run", NEW o,
           o.family = family, o.case = case, o.configuration = configuration,
           observed' = observed \cup {o}
    PROVE  /\ IsFiniteSet(observed') /\ Cardinality(observed') = comparisons + 1
           /\ \A f, i : f = family /\ i = case => Of(f, i)' = Of(f, i) \cup {o}
<1>1. o \notin observed
    BY Unobserved
<1>2. IsFiniteSet(observed) /\ Cardinality(observed) = comparisons
    BY DEF ParityInv, ObservedInv
<1>3. IsFiniteSet(observed') /\ Cardinality(observed') = comparisons + 1
    BY <1>1, <1>2, FS_AddElement
<1>4. QED
    BY <1>3 DEF Of

\* To the next case, the one here behind (passed) or none here yet.
LEMMA ObservedMoves ==
    ASSUME ParityInv, conclusion = "run", campaign' = campaign, configuration' = 0,
           NEW passed \in BOOLEAN, NEW noted, observed' = observed \cup noted,
           IsFiniteSet(observed'), Cardinality(observed') = comparisons',
           \A o \in noted : o.family = family /\ o.case = case /\ ~ Differs(o),
           \A f \in Families : \A i \in 1..Cases(f) :
               Done(f, i)' <=> Done(f, i) \/ (passed /\ f = family /\ i = case),
           ~ passed => noted = {} /\ configuration = 0,
           passed => case \in 1..Cases(family),
           passed => \A f, i : f = family /\ i = case =>
               /\ f <= Len(Suites) => DeliveredAsJava(f, i)'
               /\ Program = "parity" => Of(f, i)' # {}
    PROVE  ObservedInv'
<1>1. campaign \in Campaigns /\ family \in Families /\ case \in Nat /\ configuration \in Nat
    BY DEF ParityInv, PositionInv
<1>2. /\ Program' = Program /\ Suites' = Suites /\ Families' = Families
      /\ \A f : Cases(f)' = Cases(f)
    BY SameCampaign
<1>3. /\ Len(Suites) \in Nat /\ 1..Len(Suites) \subseteq Families
    BY <1>1, CampaignFacts DEF Families
<1>4. ~ Done(family, case)
    BY <1>1, <1>3 DEF Done, Families
<1>5. \A f, i : ~ (f = family /\ i = case) => Of(f, i)' = Of(f, i)
    BY DEF Of
<1>6. ASSUME NEW o \in observed'
      PROVE  /\ o.family \in Families /\ o.case \in 1..Cases(o.family)
             /\ Done(o.family, o.case)' /\ ~ Differs(o)
    <2>1. CASE o \in observed
        <3>1. o.family \in Families /\ o.case \in 1..Cases(o.family) /\ Earlier(o) /\ ~ Differs(o)
            BY <2>1 DEF ParityInv, ObservedInv
        <3>2. Done(o.family, o.case) \/ (passed /\ o.family = family /\ o.case = case)
            <4>1. CASE ~ passed
                <5>1. 1..(configuration - 1) = {}
                    BY <4>1
                <5>2. QED
                    BY <3>1, <5>1 DEF Earlier
            <4>2. QED
                BY <3>1, <4>1 DEF Earlier
        <3>3. QED
            BY <3>1, <3>2
    <2>2. CASE o \in noted
        BY <1>1, <2>2
    <2>3. QED
        BY <2>1, <2>2
<1>7. ASSUME NEW f \in 1..Len(Suites), NEW i \in 1..Cases(f), Done(f, i)'
      PROVE  DeliveredAsJava(f, i)'
    <2>1. CASE Done(f, i)
        <3>1. DeliveredAsJava(f, i)
            BY <2>1 DEF ParityInv, ObservedInv
        <3>2. QED
            BY <1>4, <1>5, <2>1, <3>1, StaysDelivered
    <2>2. CASE passed /\ f = family /\ i = case
        BY <1>1, <1>3, <2>2
    <2>3. QED
        BY <1>3, <1>7, <2>1, <2>2
<1>8. ASSUME Program = "parity", NEW f \in Families, NEW i \in 1..Cases(f), Done(f, i)'
      PROVE  Of(f, i)' # {}
    <2>1. CASE Done(f, i)
        <3>1. Of(f, i) # {}
            BY <1>8, <2>1 DEF ParityInv, ObservedInv
        <3>2. QED
            BY <1>4, <1>5, <2>1, <3>1
    <2>2. QED
        BY <1>8, <2>1
<1>9. \A o \in observed' : Earlier(o)'
    BY <1>6 DEF Earlier
<1>10. QED
    BY <1>2, <1>6, <1>7, <1>8, <1>9 DEF ObservedInv

\* To the next case: the position, the results left, and what is behind.
LEMMA NextCaseMoves ==
    ASSUME ParityInv, conclusion = "run", NextCase, case \in 1..Cases(family),
           conclusion' = "run", comparisons' \in Nat, family <= Len(Suites) + 2,
           family <= Len(Suites) => Sound(Fixture, remaining)
    PROVE  /\ PositionInv' /\ SuitesInv' /\ FailInv'
           /\ \A f \in Families : \A i \in 1..Cases(f) :
                 Done(f, i)' <=> Done(f, i) \/ (TRUE /\ f = family /\ i = case)
<1>1. /\ campaign' = campaign /\ campaign \in Campaigns /\ family' = family
      /\ family \in Families /\ case \in Nat /\ case' = case + 1
      /\ configuration' = 0 /\ reference' = None
    BY DEF NextCase, ParityInv, PositionInv
<1>2. /\ Program' = Program /\ Suites' = Suites /\ Families' = Families
      /\ \A f : Cases(f)' = Cases(f) /\ FixturesOf(f)' = FixturesOf(f) /\ JavaOf(f)' = JavaOf(f)
    BY <1>1, SameCampaign
<1>3. /\ Len(Suites) \in Nat /\ Cases(family) \in Nat
      /\ Configurations \in Nat
    BY <1>1, CampaignFacts
<1>4. Cases(family)' = Cases(family)
    BY <1>1, <1>2 DEF Cases
<1>5. PositionInv'
    <2>1. /\ campaign' \in Campaigns /\ family' \in Families' /\ case' \in Nat
          /\ configuration' \in Nat /\ comparisons' \in Nat
        BY <1>1, <1>2
    <2>2. case' <= Cases(family)' + 1 /\ configuration' <= Configurations + 1 /\ case' # 0
        BY <1>1, <1>3, <1>4
    <2>3. /\ Program' = "differential" => family' <= Len(Suites')
          /\ family' <= Len(Suites') + 2
        BY <1>1, <1>2 DEF ParityInv, PositionInv
    <2>4. QED
        BY <1>1, <2>1, <2>2, <2>3 DEF PositionInv
<1>6. SuitesInv'
    <2>1. \A f \in 1..Len(Suites') : f < family' => SuiteIsSound(Suites'[f])
        BY <1>1, <1>2 DEF ParityInv, SuitesInv
    <2>2. ASSUME family <= Len(Suites)
          PROVE  Fits(family, case) /\ remaining' = Unused(family, case)
        <3>1. /\ family \in 1..Len(Suites) /\ case \in 1..Len(FixturesOf(family))
              /\ Fits(family, case - 1) /\ remaining = Unused(family, case - 1)
              /\ Fixture = FixturesOf(family)[case]
            BY <1>1, <1>3, <2>2
               DEF ParityInv, SuitesInv, Families, Cases, Fixture, Suite, FixturesOf
        <3>2. Sound(FixturesOf(family)[case], Unused(family, case - 1))
            BY <2>2, <3>1
        <3>3. remaining' = [id \in DOMAIN remaining \ { Fixture.id } |-> remaining[id]]
            BY <2>2 DEF NextCase
        <3>4. QED
            BY <1>1, <3>1, <3>2, <3>3, UsedUp
    <2>3. case' - 1 = case
        BY <1>1
    <2>4. Fits(family, case - 1)' = Fits(family, case) /\ Unused(family, case - 1)' = Unused(family, case)
        BY <1>1, <1>2, <2>3 DEF Fits, Unused
    <2>5. family' <= Len(Suites') =>
             Fits(family, case - 1)' /\ remaining' = Unused(family, case - 1)'
        BY <1>1, <1>2, <2>2, <2>4
    <2>6. QED
        BY <1>1, <2>1, <2>5 DEF SuitesInv
<1>7. \A f \in Families : \A i \in 1..Cases(f) :
         Done(f, i)' <=> Done(f, i) \/ (TRUE /\ f = family /\ i = case)
    <2>1. ASSUME NEW f \in Families, NEW i \in 1..Cases(f)
          PROVE  i < case + 1 <=> i < case \/ i = case
        <3>1. Cases(f) \in Nat
            BY <1>1, CampaignFacts
        <3>2. QED
            BY <1>1, <3>1
    <2>2. QED
        BY <1>1, <2>1 DEF Done
<1>8. QED
    BY <1>5, <1>6, <1>7 DEF FailInv

\* Where a fixture is under verification.
LEMMA AtTheFixture ==
    ASSUME ParityInv, AtFixture
    PROVE  /\ campaign \in Campaigns /\ conclusion = "run"
           /\ family \in 1..Len(Suites) /\ case \in 1..Cases(family) /\ case \in Nat
           /\ Cases(family) = Len(FixturesOf(family)) /\ Fixture = FixturesOf(family)[case]
           /\ remaining = Unused(family, case - 1) /\ Fits(family, case - 1)
           /\ Of(family, case) = {} /\ configuration = 0 /\ reference = None
<1>1. /\ campaign \in Campaigns /\ conclusion = "run" /\ family \in Families
      /\ family <= Len(Suites) /\ case \in 1..Len(Suite.fixtures) /\ case \in Nat
      /\ configuration = 0 /\ reference = None
    BY DEF AtFixture, InSuites, ParityInv, PositionInv
<1>2. family \in 1..Len(Suites)
    BY <1>1, CampaignFacts DEF Families
<1>3. Of(family, case) = {}
    BY <1>1, Unobserved DEF Of
<1>4. QED
    BY <1>1, <1>2, <1>3 DEF Cases, FixturesOf, Suite, Fixture, ParityInv, SuitesInv

\* Java's result of it.
LEMMA JavaHere ==
    ASSUME campaign \in Campaigns, family \in 1..Len(Suites), case \in 1..Len(FixturesOf(family)),
           Fixture = FixturesOf(family)[case],
           remaining = Unused(family, case - 1), Sound(Fixture, remaining)
    PROVE  Java = JavaOf(family)[Fixture.id]
BY DEF Java, Unused, Sound

LEMMA StepVerifyFixture ==
    ASSUME ParityInv, VerifyFixture, conclusion' # "fail"
    PROVE  ParityInv'
<1>1. AtFixture /\ Program = "differential" /\ Sound(Fixture, remaining)
      /\ comparisons' = comparisons + 1
    BY DEF VerifyFixture
<1>2. /\ campaign \in Campaigns /\ conclusion = "run"
      /\ family \in 1..Len(Suites) /\ case \in 1..Cases(family) /\ case \in Nat
      /\ Cases(family) = Len(FixturesOf(family)) /\ Fixture = FixturesOf(family)[case]
      /\ remaining = Unused(family, case - 1)
      /\ Of(family, case) = {} /\ configuration = 0 /\ comparisons \in Nat
    BY <1>1, AtTheFixture DEF ParityInv, PositionInv
<1> DEFINE wanted == IF Fixture.expectation = "matched" THEN Delivered(Java.events) ELSE None
<1>3. PICK result \in Results :
         /\ Observe("scan", << Collected(result) >>, wanted)
         /\ IF Fixture.expectation = "matched"
            THEN Collected(result) = Delivered(Java.events) ELSE result.kind = "rejected"
         /\ NextCase /\ conclusion' = conclusion
    BY DEF VerifyFixture, Fails
<1> DEFINE o == [family |-> family, case |-> case, configuration |-> configuration,
                 lane |-> "scan", results |-> << Collected(result) >>, wanted |-> wanted]
<1>4. /\ o.family = family /\ o.case = case /\ o.configuration = configuration
      /\ o.lane = "scan" /\ o.wanted = wanted
      /\ o.results[1] = Collected(result) /\ DOMAIN o.results = {1}
      /\ observed' = observed \cup {o}
    BY <1>3 DEF Observe
<1> HIDE DEF o
<1>5. ~ Differs(o)
    <2>1. CASE Fixture.expectation = "matched"
        <3>1. wanted # None
            BY <2>1 DEF Delivered, None
        <3>2. \A i \in DOMAIN o.results : o.results[i] = o.wanted
            BY <1>3, <1>4, <2>1
        <3>3. QED
            BY <1>4, <3>1, <3>2 DEF Differs
    <2>2. CASE Fixture.expectation # "matched"
        <3>1. o.results[1].kind = "rejected"
            BY <1>3, <1>4, <2>2, CollectedKind
        <3>2. QED
            BY <1>4, <2>2, <3>1 DEF Differs
    <2>3. QED
        BY <2>1, <2>2
<1>6. campaign' = campaign /\ configuration' = 0
    BY <1>3 DEF NextCase
<1>7. /\ IsFiniteSet(observed') /\ Cardinality(observed') = comparisons'
      /\ \A f, i : f = family /\ i = case => Of(f, i)' = Of(f, i) \cup {o}
    BY <1>1, <1>2, <1>4, Noted
<1>8. ASSUME NEW f, NEW i, f = family, i = case PROVE DeliveredAsJava(f, i)'
    <2>1. Of(f, i)' = {o}
        <3>1. Of(f, i)' = Of(family, case) \cup {o}
            BY <1>7, <1>8, Zenon
        <3>2. QED
            BY <1>2, <3>1
    <2>2. CASE Fixture.expectation = "matched"
        <3>1. Java = JavaOf(family)[Fixture.id]
            BY <1>1, <1>2, JavaHere, Zenon
        <3>2. o.results[1] = Wanted(ByCase(Suites[f].java)[Suites[f].fixtures[i].id].events)
            BY <1>1, <1>2, <1>3, <1>4, <1>8, <2>2, <3>1, Zenon DEF Wanted, JavaOf, FixturesOf
        <3>3. o.configuration = 0
            BY <1>2, <1>4
        <3>4. Program' # "parity"
            BY <1>1, <1>6, SameCampaign
        <3>5. QED
            BY <1>4, <1>6, <2>1, <3>2, <3>3, <3>4, SameCampaign DEF DeliveredAsJava, Of
    <2>3. CASE Fixture.expectation # "matched"
        <3>1. Suites'[f].fixtures[i].expectation # "matched"
            BY <1>2, <1>6, <1>8, <2>3, SameCampaign DEF FixturesOf
        <3>2. QED
            BY <3>1 DEF DeliveredAsJava
    <2>4. QED
        BY <2>2, <2>3
<1>9. /\ PositionInv' /\ SuitesInv' /\ FailInv'
      /\ \A f \in Families : \A i \in 1..Cases(f) :
            Done(f, i)' <=> Done(f, i) \/ (TRUE /\ f = family /\ i = case)
    <2>1. comparisons' \in Nat /\ conclusion' = "run"
        BY <1>1, <1>2, <1>3
    <2>2. family <= Len(Suites) + 2
        BY <1>2, CampaignFacts
    <2>3. QED
        BY <1>1, <1>2, <1>3, <2>1, <2>2, NextCaseMoves
<1>10. ObservedInv'
    <2>1. \A x \in {o} : x.family = family /\ x.case = case /\ ~ Differs(x)
        BY <1>4, <1>5
    <2>2. \A f, i : f = family /\ i = case =>
               /\ f <= Len(Suites) => DeliveredAsJava(f, i)'
               /\ Program = "parity" => Of(f, i)' # {}
        BY <1>1, <1>8
    <2> DEFINE noted == {o}
    <2>3. /\ observed' = observed \cup noted /\ (~ TRUE => noted = {} /\ configuration = 0)
          /\ \A x \in noted : x.family = family /\ x.case = case /\ ~ Differs(x)
        BY <1>4, <2>1
    <2>4. TRUE => case \in 1..Cases(family)
        BY <1>2
    <2> HIDE DEF noted
    <2>5. QED
        BY <1>2, <1>6, <1>7, <1>9, <2>2, <2>3, <2>4, ObservedMoves, Zenon
<1>11. QED
    BY <1>9, <1>10 DEF ParityInv

LEMMA StepVerifyRejected ==
    ASSUME ParityInv, VerifyRejected, conclusion' # "fail"
    PROVE  ParityInv'
<1>1. AtFixture /\ Sound(Fixture, remaining) /\ Fixture.expectation # "matched"
      /\ comparisons' = comparisons + 1
    BY DEF VerifyRejected
<1>2. /\ campaign \in Campaigns /\ conclusion = "run"
      /\ family \in 1..Len(Suites) /\ case \in 1..Cases(family) /\ case \in Nat
      /\ Fixture = FixturesOf(family)[case] /\ comparisons \in Nat
    BY <1>1, AtTheFixture DEF ParityInv, PositionInv
<1>3. PICK ordinary, cohort \in { "built", "invalid", "unsupported" } :
         /\ Observe("construction", << ordinary, cohort >>, None)
         /\ ordinary = cohort /\ ordinary # "built" /\ NextCase /\ conclusion' = conclusion
    BY DEF VerifyRejected, Fails
<1> DEFINE o == [family |-> family, case |-> case, configuration |-> configuration,
                 lane |-> "construction", results |-> << ordinary, cohort >>, wanted |-> None]
<1>4. /\ o.family = family /\ o.case = case /\ o.configuration = configuration
      /\ o.lane = "construction" /\ o.results[1] = ordinary /\ o.results[2] = cohort
      /\ observed' = observed \cup {o}
    BY <1>3 DEF Observe
<1> HIDE DEF o
<1>5. ~ Differs(o)
    BY <1>3, <1>4 DEF Differs
<1>6. campaign' = campaign /\ configuration' = 0
    BY <1>3 DEF NextCase
<1>7. /\ IsFiniteSet(observed') /\ Cardinality(observed') = comparisons'
      /\ \A f, i : f = family /\ i = case => Of(f, i)' = Of(f, i) \cup {o}
    BY <1>1, <1>2, <1>4, Noted
<1>8. ASSUME NEW f, NEW i, f = family, i = case PROVE DeliveredAsJava(f, i)'
    <2>1. Suites'[f].fixtures[i].expectation # "matched"
        BY <1>1, <1>2, <1>6, <1>8, SameCampaign DEF FixturesOf
    <2>2. QED
        BY <2>1 DEF DeliveredAsJava
<1>9. /\ PositionInv' /\ SuitesInv' /\ FailInv'
      /\ \A f \in Families : \A i \in 1..Cases(f) :
            Done(f, i)' <=> Done(f, i) \/ (TRUE /\ f = family /\ i = case)
    <2>1. comparisons' \in Nat /\ conclusion' = "run"
        BY <1>1, <1>2, <1>3
    <2>2. family <= Len(Suites) + 2
        BY <1>2, CampaignFacts
    <2>3. QED
        BY <1>1, <1>2, <1>3, <2>1, <2>2, NextCaseMoves
<1>10. ObservedInv'
    <2>1. \A x \in {o} : x.family = family /\ x.case = case /\ ~ Differs(x)
        BY <1>4, <1>5
    <2>2. \A f, i : f = family /\ i = case =>
               /\ f <= Len(Suites) => DeliveredAsJava(f, i)'
               /\ Program = "parity" => Of(f, i)' # {}
        BY <1>7, <1>8
    <2>3. QED
        BY <1>2, <1>4, <1>6, <1>7, <1>9, <2>1, <2>2, ObservedMoves
<1>11. QED
    BY <1>9, <1>10 DEF ParityInv

\* A case whose configurations are all behind.
LEMMA StepEndCase ==
    ASSUME ParityInv, EndCase
    PROVE  ParityInv'
<1>1. /\ conclusion = "run" /\ configuration = Configurations + 1 /\ NextCase
      /\ observed' = observed /\ comparisons' = comparisons /\ conclusion' = "run"
    BY DEF EndCase
<1>2. /\ campaign \in Campaigns /\ configuration \in Nat /\ configuration > 0
      /\ Configurations \in Nat \ {0} /\ family \in Families /\ case \in Nat
    BY <1>1, CampaignFacts DEF ParityInv, PositionInv
<1>3. /\ case \in 1..Cases(family) /\ Program = "parity"
      /\ { o.configuration : o \in Of(family, case) } = 1..Configurations
      /\ \A o \in Of(family, case) : \A n \in DOMAIN o.results : o.results[n] = reference
    <2>1. configuration - 1 = Configurations
        BY <1>1, <1>2
    <2>2. QED
        BY <1>1, <1>2, <2>1 DEF ParityInv, PositionInv, ObservedInv
<1>4. ASSUME family <= Len(Suites)
      PROVE  /\ Sound(Fixture, remaining) /\ family \in 1..Len(Suites)
             /\ Fixture = FixturesOf(family)[case]
             /\ reference = Wanted(JavaOf(family)[Fixture.id].events)
    <2>1. /\ Sound(Fixture, remaining) /\ reference = Wanted(Java.events)
          /\ remaining = Unused(family, case - 1)
        <3>1. case > 0
            BY <1>2, <1>3, CampaignFacts
        <3>2. QED
            BY <1>1, <1>2, <1>4, <3>1 DEF ParityInv, SuitesInv
    <2>2. family \in 1..Len(Suites) /\ Cases(family) = Len(FixturesOf(family))
        BY <1>2, <1>4, CampaignFacts DEF Families, Cases
    <2>3. Fixture = FixturesOf(family)[case]
        BY DEF Fixture, Suite, FixturesOf
    <2>4. QED
        BY <1>2, <1>3, <2>1, <2>2, <2>3, JavaHere
<1>5. campaign' = campaign /\ configuration' = 0
    BY <1>1 DEF NextCase
<1>6. \A f, i : Of(f, i)' = Of(f, i)
    BY <1>1 DEF Of
<1>7. ASSUME NEW f, NEW i, f = family, i = case, f <= Len(Suites) PROVE DeliveredAsJava(f, i)'
    <2>1. { o.configuration : o \in Of(f, i) } = 1..Configurations
        BY <1>3, <1>7
    <2>2. \A o \in Of(f, i) : \A n \in DOMAIN o.results :
             o.results[n] = Wanted(ByCase(Suites[f].java)[Suites[f].fixtures[i].id].events)
        BY <1>3, <1>4, <1>7 DEF JavaOf, FixturesOf
    <2>3. DeliveredAsJava(f, i)
        BY <1>3, <2>1, <2>2 DEF DeliveredAsJava, Of
    <2>4. QED
        BY <1>5, <1>6, <2>3, StaysDelivered
<1>8. ASSUME NEW f, NEW i, f = family, i = case PROVE Of(f, i)' # {}
    <2>1. 1 \in 1..Configurations
        BY <1>2
    <2>2. QED
        BY <1>3, <1>6, <1>8, <2>1
<1>9. /\ PositionInv' /\ SuitesInv' /\ FailInv'
      /\ \A f \in Families : \A i \in 1..Cases(f) :
            Done(f, i)' <=> Done(f, i) \/ (TRUE /\ f = family /\ i = case)
    <2>1. comparisons' \in Nat /\ family <= Len(Suites) + 2
        BY <1>1, <1>2 DEF ParityInv, PositionInv
    <2>2. QED
        BY <1>1, <1>3, <1>4, <2>1, NextCaseMoves
<1>10. ObservedInv'
    <2>1. IsFiniteSet(observed') /\ Cardinality(observed') = comparisons' /\ observed' = observed \cup {}
        BY <1>1 DEF ParityInv, ObservedInv
    <2>2. \A f, i : f = family /\ i = case =>
               /\ f <= Len(Suites) => DeliveredAsJava(f, i)'
               /\ Program = "parity" => Of(f, i)' # {}
        BY <1>7, <1>8
    <2> DEFINE none == {}
    <2>3. \A x \in none : x.family = family /\ x.case = case /\ ~ Differs(x)
        OBVIOUS
    <2>4. observed' = observed \cup none
        BY <2>1
    <2> HIDE DEF none
    <2>5. QED
        BY <1>1, <1>3, <1>5, <1>9, <2>1, <2>2, <2>3, <2>4, ObservedMoves
<1>11. QED
    BY <1>9, <1>10 DEF ParityInv

\* The first case of a fixture set.
LEMMA StepOpenSuite ==
    ASSUME ParityInv, OpenSuite, conclusion' # "fail"
    PROVE  ParityInv'
<1>1. /\ conclusion = "run" /\ family <= Len(Suites) /\ case = 0
      /\ remaining' = JavaOf(family) /\ case' = 1
      /\ Cardinality(DOMAIN JavaOf(family)) = Len(FixturesOf(family))
      /\ campaign' = campaign /\ family' = family /\ configuration' = configuration
      /\ reference' = reference /\ conclusion' = conclusion
      /\ observed' = observed /\ comparisons' = comparisons
    BY DEF OpenSuite, InSuites, Fails, Quiet, Suite, JavaOf, FixturesOf
<1>2. /\ campaign \in Campaigns /\ family \in 1..Len(Suites) /\ configuration = 0
      /\ reference = None /\ comparisons \in Nat /\ Cases(family) \in Nat
      /\ Len(Suites) \in Nat
    <2>1. campaign \in Campaigns /\ family \in Families /\ comparisons \in Nat
        BY DEF ParityInv, PositionInv
    <2>2. Cases(family) \in Nat /\ family \in 1..Len(Suites) /\ Len(Suites) \in Nat
        BY <1>1, <2>1, CampaignFacts DEF Families
    <2>3. configuration = 0
        BY <1>1, <2>1, <2>2 DEF ParityInv, PositionInv
    <2>4. QED
        BY <2>1, <2>2, <2>3 DEF ParityInv, PositionInv
<1>3. /\ Program' = Program /\ Suites' = Suites /\ Families' = Families
      /\ \A f : Cases(f)' = Cases(f) /\ FixturesOf(f)' = FixturesOf(f) /\ JavaOf(f)' = JavaOf(f)
    BY <1>1, SameCampaign
<1>4. Cases(family)' = Cases(family)
    BY <1>1, <1>3 DEF Cases
<1>5. PositionInv'
    <2>1. /\ campaign' \in Campaigns /\ family' \in Families' /\ case' \in Nat
          /\ configuration' = 0 /\ comparisons' \in Nat /\ reference' = None
          /\ conclusion' = "run"
        BY <1>1, <1>2, <1>3 DEF Families
    <2>2. /\ case' <= Cases(family)' + 1 /\ 0 <= Configurations + 1
          /\ family' <= Len(Suites') + 2
        BY <1>1, <1>2, <1>3, <1>4, ParityAssumption
    <2>3. QED
        BY <1>1, <1>3, <2>1, <2>2 DEF PositionInv
<1>6. SuitesInv'
    <2>1. Fits(family, case - 1)'
        <3>1. 1..(case' - 1) = {}
            BY <1>1
        <3>2. QED
            BY <1>1, <1>3, <3>1 DEF Fits, FixturesOf, JavaOf
    <2>2. remaining' = Unused(family, case - 1)'
        <3>1. 1..(case' - 1) = {}
            BY <1>1
        <3>2. JavaOf(family) = [id \in DOMAIN JavaOf(family) |-> JavaOf(family)[id]]
            BY DEF JavaOf, ByCase
        <3>3. { FixturesOf(family)[i].id : i \in 1..(case - 1) }' = {}
            BY <3>1
        <3>4. JavaOf(family)' = JavaOf(family)
            BY <1>1, <1>3 DEF JavaOf
        <3>5. QED
            BY <1>1, <3>2, <3>3, <3>4 DEF Unused
    <2>3. \A f \in 1..Len(Suites') : f < family' => SuiteIsSound(Suites'[f])
        BY <1>1, <1>3 DEF ParityInv, SuitesInv
    <2>4. QED
        BY <1>1, <1>2, <2>1, <2>2, <2>3 DEF SuitesInv
<1>7. ObservedInv'
    <2>1. \A f \in Families : \A i \in 1..Cases(f) :
             Done(f, i)' <=> Done(f, i) \/ (FALSE /\ f = family /\ i = case)
        <3>1. ASSUME NEW f \in Families, NEW i \in 1..Cases(f) PROVE ~ (i < 1) /\ ~ (i < 0)
            <4>1. Cases(f) \in Nat
                BY <1>2, CampaignFacts
            <4>2. QED
                BY <4>1
        <3>2. QED
            BY <1>1, <3>1 DEF Done
    <2>2. IsFiniteSet(observed') /\ Cardinality(observed') = comparisons' /\ observed' = observed \cup {}
        BY <1>1 DEF ParityInv, ObservedInv
    <2> DEFINE none == {}
    <2>3. \A x \in none : x.family = family /\ x.case = case /\ ~ Differs(x)
        OBVIOUS
    <2>4. none = {} /\ observed' = observed \cup none
        BY <2>2
    <2> HIDE DEF none
    <2>5. QED
        BY <1>1, <1>2, <2>1, <2>2, <2>3, <2>4, ObservedMoves
<1>8. QED
    BY <1>1, <1>5, <1>6, <1>7 DEF ParityInv, FailInv

\* A family whose every case is behind.
LEMMA StepCloseFamily ==
    ASSUME ParityInv, CloseFamily, conclusion' # "fail"
    PROVE  ParityInv'
<1>1. /\ conclusion = "run" /\ campaign' = campaign
      /\ family' = family + 1 /\ case' = (IF family < Len(Suites) THEN 0 ELSE 1)
      /\ remaining' = << >> /\ configuration' = configuration /\ reference' = reference
      /\ conclusion' = (IF Program = "differential" THEN "pass" ELSE "run")
      /\ observed' = observed /\ comparisons' = comparisons
      /\ family <= Len(Suites) => remaining = << >>
    BY DEF CloseFamily, InSuites, InOwnCases, Fails
<1>2. /\ campaign \in Campaigns /\ family \in Families /\ case \in Nat
      /\ comparisons \in Nat /\ Cases(family) \in Nat /\ configuration \in Nat
      /\ Len(Suites) \in Nat \ {0} /\ Configurations \in Nat
      /\ Program \in { "differential", "parity" } /\ (Program = "differential" => Len(Suites) = 1)
    BY CampaignFacts DEF ParityInv, PositionInv
<1>3. /\ case = Cases(family) + 1 /\ family \in 1..(Len(Suites) + 2)
      /\ Program = "differential" => family = 1
    <2>1. CASE family <= Len(Suites)
        BY <1>2, <2>1 DEF CloseFamily, InSuites, InOwnCases, Cases, FixturesOf, Suite, Families
    <2>2. CASE family > Len(Suites)
        BY <1>2, <2>2 DEF CloseFamily, InSuites, InOwnCases, Cases, Families
    <2>3. QED
        BY <1>2, <2>1, <2>2 DEF Families
<1>4. configuration = 0 /\ reference = None
    BY <1>1, <1>2, <1>3 DEF ParityInv, PositionInv
<1>5. /\ Program' = Program /\ Suites' = Suites /\ Families' = Families
      /\ \A f : Cases(f)' = Cases(f) /\ FixturesOf(f)' = FixturesOf(f) /\ JavaOf(f)' = JavaOf(f)
    BY <1>1, SameCampaign
<1>6. family' \in Families' /\ case' \in Nat /\ Cases(family)' \in Nat
    <2>1. family' \in Families'
        BY <1>1, <1>2, <1>3, <1>5 DEF Families
    <2>2. Cases(family)' = Cases(family')
        BY <1>1, <1>5 DEF Cases, FixturesOf
    <2>3. QED
        BY <1>1, <1>2, <1>5, <2>1, <2>2, CampaignFacts
<1>7. PositionInv'
    <2>1. /\ campaign' \in Campaigns /\ configuration' = 0 /\ comparisons' \in Nat
          /\ reference' = None /\ conclusion' \in { "run", "pass" }
        BY <1>1, <1>2, <1>4
    <2>2. case' <= Cases(family)' + 1 /\ 0 <= Configurations + 1
        BY <1>1, <1>2, <1>6
    <2>3. case' = 0 => family' <= Len(Suites')
        BY <1>1, <1>2, <1>3, <1>5
    <2>4. ASSUME conclusion' = "pass" PROVE family' > Len(Suites') /\ Program' # "parity"
        <3>1. Program = "differential" /\ family = 1 /\ Len(Suites) = 1
            BY <1>1, <1>2, <1>3, <2>4
        <3>2. Suites' = Suites /\ Program' = "differential" /\ family' = 2
            BY <1>1, <1>5, <3>1
        <3>3. QED
            BY <3>1, <3>2
    <2>5. /\ conclusion' = "run" => Program' # "differential"
          /\ case' <= BuildErrors
        BY <1>1, <1>2, <1>5, CampaignFacts
    <2>6. QED
        BY <1>6, <2>1, <2>2, <2>3, <2>4, <2>5 DEF PositionInv
<1>8. SuitesInv'
    <2>1. ASSUME family <= Len(Suites) PROVE SuiteIsSound(Suites[family])
        <3>1. /\ family \in 1..Len(Suites) /\ Cases(family) = Len(FixturesOf(family))
              /\ case > 0 /\ case - 1 = Len(FixturesOf(family))
            BY <1>2, <1>3, <2>1 DEF Families, Cases
        <3>2. Fits(family, Len(FixturesOf(family))) /\ remaining = Unused(family, Len(FixturesOf(family)))
            BY <1>1, <2>1, <3>1 DEF ParityInv, SuitesInv
        <3>3. DOMAIN Unused(family, Len(FixturesOf(family))) = {}
            BY <1>1, <2>1, <3>2
        <3>4. QED
            BY <1>2, <3>1, <3>2, <3>3, AllFit
    <2>2. ASSUME NEW f \in 1..Len(Suites), f < family' PROVE SuiteIsSound(Suites[f])
        <3>1. f < family \/ f = family
            BY <1>1, <1>2, <1>3, <2>2
        <3>2. QED
            BY <1>1, <2>1, <3>1 DEF ParityInv, SuitesInv
    <2>3. ~ (family' <= Len(Suites') /\ case' > 0)
        <3>1. CASE family < Len(Suites)
            <4>1. case' = 0
                BY <1>1, <3>1
            <4>2. QED
                BY <4>1
        <3>2. CASE ~ (family < Len(Suites))
            <4>1. ~ (family' <= Len(Suites'))
                BY <1>1, <1>2, <1>3, <1>5, <3>2
            <4>2. QED
                BY <4>1
        <3>3. QED
            BY <3>1, <3>2
    <2>4. QED
        BY <1>5, <2>2, <2>3 DEF SuitesInv
<1>9. ObservedInv'
    <2>1. ASSUME NEW f \in Families, NEW i \in 1..Cases(f)
          PROVE  Done(f, i)' <=> Done(f, i) \/ (FALSE /\ f = family /\ i = case)
        <3>1. Cases(f) \in Nat /\ f \in Nat
            BY <1>2, CampaignFacts DEF Families
        <3>2. CASE f < family
            BY <1>1, <1>2, <1>3, <3>1, <3>2 DEF Done
        <3>3. CASE f = family
            <4>1. i < case
                BY <1>3, <3>1, <3>3
            <4>2. QED
                BY <1>1, <1>2, <1>3, <3>1, <3>3, <4>1 DEF Done
        <3>4. CASE f > family
            <4>1. ~ (i < case') /\ ~ (f < family + 1)
                BY <1>1, <1>2, <1>3, <3>1, <3>4
            <4>2. QED
                BY <1>1, <1>2, <1>3, <3>1, <3>4, <4>1 DEF Done
        <3>5. QED
            BY <1>3, <3>1, <3>2, <3>3, <3>4
    <2>2. IsFiniteSet(observed') /\ Cardinality(observed') = comparisons'
        BY <1>1 DEF ParityInv, ObservedInv
    <2> DEFINE none == {}
    <2>3. \A x \in none : x.family = family /\ x.case = case /\ ~ Differs(x)
        OBVIOUS
    <2>4. none = {} /\ observed' = observed \cup none
        BY <1>1
    <2> HIDE DEF none
    <2>5. configuration' = 0
        BY <1>1, <1>4
    <2>6. QED
        BY <1>1, <1>4, <2>1, <2>2, <2>3, <2>4, <2>5, ObservedMoves
<1>10. QED
    BY <1>1, <1>7, <1>8, <1>9 DEF ParityInv, FailInv

\* One more construction that must fail, and the end with the last.
LEMMA StepVerifyBuildError ==
    ASSUME ParityInv, VerifyBuildError, conclusion' # "fail"
    PROVE  ParityInv'
<1>1. /\ conclusion = "run" /\ Program = "parity" /\ family = Len(Suites) + 3
      /\ comparisons' = comparisons + 1
    BY DEF VerifyBuildError
<1>2. PICK ordinary, cohort \in { "built", "invalid", "unsupported" } :
         /\ Observe("construction", << ordinary, cohort >>, None)
         /\ ordinary = cohort /\ ordinary # "built" /\ case' = case + 1
         /\ conclusion' = (IF case = BuildErrors THEN "pass" ELSE "run")
         /\ campaign' = campaign /\ family' = family /\ remaining' = remaining
         /\ configuration' = configuration /\ reference' = reference
    BY DEF VerifyBuildError, Fails
<1>3. /\ campaign \in Campaigns /\ case \in Nat /\ comparisons \in Nat /\ configuration \in Nat
      /\ Len(Suites) \in Nat \ {0} /\ BuildErrors \in Nat \ {0} /\ Configurations \in Nat
      /\ family \in Families /\ Cases(family) = BuildErrors
    <2>1. campaign \in Campaigns /\ family \in Families
        BY DEF ParityInv, PositionInv
    <2>2. Len(Suites) \in Nat \ {0} /\ BuildErrors \in Nat \ {0} /\ Configurations \in Nat
        BY <2>1, CampaignFacts
    <2>3. QED
        BY <1>1, <2>1, <2>2 DEF ParityInv, PositionInv, Cases
<1>4. configuration = 0 /\ reference = None /\ case > 0
    BY <1>1, <1>3 DEF ParityInv, PositionInv
<1> DEFINE o == [family |-> family, case |-> case, configuration |-> configuration,
                 lane |-> "construction", results |-> << ordinary, cohort >>, wanted |-> None]
<1>5. /\ o.family = family /\ o.case = case /\ o.configuration = configuration
      /\ o.lane = "construction" /\ o.results[1] = ordinary /\ o.results[2] = cohort
      /\ observed' = observed \cup {o}
    BY <1>2 DEF Observe
<1> HIDE DEF o
<1>6. ~ Differs(o)
    BY <1>2, <1>5 DEF Differs
<1>7. /\ IsFiniteSet(observed') /\ Cardinality(observed') = comparisons'
      /\ \A f, i : f = family /\ i = case => Of(f, i)' = Of(f, i) \cup {o}
    BY <1>1, <1>5, Noted
<1>8. /\ Program' = Program /\ Suites' = Suites /\ Families' = Families
      /\ \A f : Cases(f)' = Cases(f) /\ FixturesOf(f)' = FixturesOf(f) /\ JavaOf(f)' = JavaOf(f)
    BY <1>2, SameCampaign
<1>9. case \in 1..BuildErrors
    <2>1. ASSUME case = BuildErrors + 1 PROVE FALSE
        \* The last one ended the command.
        BY <1>1, <1>3, <2>1 DEF ParityInv, PositionInv
    <2>2. QED
        BY <1>1, <1>3, <1>4, <2>1 DEF ParityInv, PositionInv
<1>10. Cases(family)' = BuildErrors
    BY <1>2, <1>3, <1>8 DEF Cases
<1>11. PositionInv'
    <2>1. /\ campaign' \in Campaigns /\ family' \in Families' /\ case' \in Nat /\ case' # 0
          /\ configuration' = 0 /\ comparisons' \in Nat /\ reference' = None
          /\ conclusion' \in { "run", "pass" } /\ Program' # "differential"
        BY <1>1, <1>2, <1>3, <1>4, <1>8
    <2>2. /\ case' <= Cases(family)' + 1 /\ 0 <= Configurations + 1
          /\ family' = Len(Suites') + 3 /\ family' > Len(Suites')
          /\ conclusion' = "pass" => case' = BuildErrors + 1
          /\ conclusion' = "run" => case' <= BuildErrors
        BY <1>1, <1>2, <1>3, <1>8, <1>9, <1>10
    <2>3. QED
        BY <2>1, <2>2 DEF PositionInv
<1>12. SuitesInv'
    <2>1. \A f \in 1..Len(Suites') : f < family' => SuiteIsSound(Suites'[f])
        BY <1>1, <1>2, <1>8 DEF ParityInv, SuitesInv
    <2>2. ~ (family' <= Len(Suites'))
        BY <1>1, <1>2, <1>3, <1>8
    <2>3. QED
        BY <2>1, <2>2 DEF SuitesInv
<1>13. ObservedInv'
    <2>1. ASSUME NEW f \in Families, NEW i \in 1..Cases(f)
          PROVE  Done(f, i)' <=> Done(f, i) \/ (TRUE /\ f = family /\ i = case)
        <3>1. Cases(f) \in Nat
            BY <1>3, CampaignFacts
        <3>2. i < case + 1 <=> i < case \/ i = case
            BY <1>3, <3>1
        <3>3. QED
            BY <1>2, <3>2 DEF Done
    <2>2. \A x \in {o} : x.family = family /\ x.case = case /\ ~ Differs(x)
        BY <1>5, <1>6
    <2>3. \A f, i : f = family /\ i = case =>
               /\ f <= Len(Suites) => DeliveredAsJava(f, i)'
               /\ Program = "parity" => Of(f, i)' # {}
        <3>1. ~ (family <= Len(Suites))
            BY <1>1, <1>3
        <3>2. \A f, i : f = family /\ i = case => Of(f, i)' # {}
            BY <1>7
        <3>3. QED
            BY <3>1, <3>2
    <2>4. campaign' = campaign /\ configuration' = 0 /\ case \in 1..Cases(family)
        BY <1>2, <1>3, <1>4, <1>9
    <2>5. QED
        BY <1>1, <1>5, <1>7, <2>1, <2>2, <2>3, <2>4, ObservedMoves
<1>14. QED
    BY <1>2, <1>11, <1>12, <1>13 DEF ParityInv, FailInv

\* Within a case: the position and the suites stay as they are but for the configuration.
LEMMA WithinCase ==
    ASSUME ParityInv, conclusion = "run", conclusion' = "run", campaign' = campaign,
           family' = family, case' = case, remaining' = remaining, comparisons' \in Nat,
           configuration' \in 1..(Configurations + 1), reference' # None,
           case \in 1..Cases(family), family <= Len(Suites) + 2, Program = "parity",
           family <= Len(Suites) =>
               /\ Sound(Fixture, remaining) /\ Fixture.expectation = "matched"
               /\ reference' = Wanted(Java.events)
    PROVE  PositionInv' /\ SuitesInv' /\ \A f, i : Done(f, i)' <=> Done(f, i)
<1>1. /\ campaign \in Campaigns /\ family \in Families /\ case \in Nat
      /\ Configurations \in Nat /\ Cases(family) \in Nat /\ Len(Suites) \in Nat
    BY CampaignFacts DEF ParityInv, PositionInv
<1>2. /\ Program' = Program /\ Suites' = Suites /\ Families' = Families
      /\ \A f : FixturesOf(f)' = FixturesOf(f) /\ JavaOf(f)' = JavaOf(f)
      /\ \A e : Wanted(e)' = Wanted(e)
    BY SameCampaign
<1>3. Cases(family)' = Cases(family)
    BY <1>2 DEF Cases, FixturesOf
<1>4. configuration' \in Nat /\ configuration' > 0 /\ configuration' <= Configurations + 1
    BY <1>1
<1>5. PositionInv'
    <2>1. /\ campaign' \in Campaigns /\ family' \in Families' /\ case' \in Nat
          /\ configuration' \in Nat /\ comparisons' \in Nat /\ conclusion' \in { "run", "pass", "fail" }
          /\ configuration' # 0 /\ configuration' <= Configurations + 1
        BY <1>1, <1>2, <1>4
    <2>2. /\ case' <= Cases(family)' + 1 /\ case' # 0 /\ case' \in 1..Cases(family)'
          /\ family' <= Len(Suites') + 2 /\ Program' = "parity"
        BY <1>1, <1>2, <1>3
    <2>3. QED
        BY <2>1, <2>2 DEF PositionInv
<1>6. SuitesInv'
    <2>1. \A f \in 1..Len(Suites') : f < family' => SuiteIsSound(Suites'[f])
        BY <1>2 DEF ParityInv, SuitesInv
    <2>2. Fits(family, case - 1)' = Fits(family, case - 1)
          /\ Unused(family, case - 1)' = Unused(family, case - 1)
        BY <1>2 DEF Fits, Unused
    <2>3. case > 0 /\ family' <= Len(Suites') => Fits(family, case - 1) /\ remaining = Unused(family, case - 1)
        BY <1>1, <1>2 DEF ParityInv, SuitesInv
    <2>4. Fixture' = Fixture /\ Java' = Java
        BY <1>2 DEF Fixture, Suite, Java
    <2>5. Wanted(Java.events)' = Wanted(Java.events)
        BY <1>2, <2>4 DEF Wanted
    <2>6. QED
        BY <1>1, <1>2, <2>1, <2>2, <2>3, <2>4, <2>5 DEF SuitesInv
<1>7. \A f, i : Done(f, i)' <=> Done(f, i)
    BY DEF Done
<1>8. QED
    BY <1>5, <1>6, <1>7

\* What a case is held against, before any of its configurations.
LEMMA StepTakeReference ==
    ASSUME ParityInv, TakeReference, conclusion' # "fail"
    PROVE  ParityInv'
<1>1. /\ conclusion = "run" /\ conclusion' = "run" /\ campaign' = campaign
      /\ family' = family /\ case' = case /\ remaining' = remaining
      /\ observed' = observed /\ comparisons' = comparisons
      /\ Program = "parity" /\ configuration = 0 /\ configuration' = 1
      /\ case > 0
    BY DEF TakeReference, AtFixture, InSuites, InOwnCases, Fails
<1>2. /\ campaign \in Campaigns /\ family \in Families /\ case \in Nat /\ comparisons \in Nat
      /\ Configurations \in Nat \ {0} /\ Len(Suites) \in Nat /\ Cases(family) \in Nat
    BY CampaignFacts DEF ParityInv, PositionInv
<1>3. /\ case \in 1..Cases(family) /\ family <= Len(Suites) + 2 /\ reference' # None
      /\ family <= Len(Suites) =>
           /\ Sound(Fixture, remaining) /\ Fixture.expectation = "matched"
           /\ reference' = Wanted(Java.events)
    <2>1. CASE AtFixture
        <3>1. ~ InOwnCases
            BY <1>2, <2>1 DEF AtFixture, InSuites, InOwnCases
        <3>2. /\ Sound(Fixture, remaining) /\ Fixture.expectation = "matched"
              /\ reference' = Collected(Delivered(Java.events))
            BY <3>1 DEF TakeReference
        <3>3. Collected(Delivered(Java.events)).kind = "events"
            BY CollectedKind DEF Delivered
        <3>4. reference' # None
            BY <3>2, <3>3 DEF None
        <3>5. case \in 1..Cases(family) /\ family <= Len(Suites) + 2
            BY <1>2, <2>1, AtTheFixture
        <3>6. QED
            BY <1>1, <3>2, <3>4, <3>5 DEF Wanted
    <2>2. CASE InOwnCases
        <3>1. ~ AtFixture
            BY <1>2, <2>2 DEF AtFixture, InSuites, InOwnCases
        <3>2. /\ case \in 1..OwnCases
              /\ \E result \in Results : result.kind = "events" /\ reference' = Collected(result)
            BY <1>1, <3>1 DEF TakeReference, Fails
        <3>3. PICK result \in Results : result.kind = "events" /\ reference' = Collected(result)
            BY <3>2
        <3>4. reference'.kind = "events"
            BY <3>3, CollectedKind
        <3>5. reference' # None
            BY <3>4 DEF None
        <3>6. family <= Len(Suites) + 2 /\ ~ (family <= Len(Suites)) /\ Cases(family) = OwnCases
            BY <1>2, <2>2 DEF InOwnCases, Cases
        <3>7. QED
            BY <3>2, <3>5, <3>6
    <2>3. QED
        BY <2>1, <2>2 DEF TakeReference
<1>4. configuration' \in 1..(Configurations + 1)
    BY <1>1, <1>2
<1>5. PositionInv' /\ SuitesInv' /\ \A f, i : Done(f, i)' <=> Done(f, i)
    BY <1>1, <1>2, <1>3, <1>4, WithinCase
<1>6. /\ Program' = Program /\ Suites' = Suites /\ Families' = Families
      /\ \A f : Cases(f)' = Cases(f)
    BY <1>1, SameCampaign
<1>7. Of(family, case)' = {}
    <2>1. Of(family, case) = {}
        BY <1>1, Unobserved DEF Of
    <2>2. QED
        BY <1>1, <2>1 DEF Of
<1>8. \A f, i : Of(f, i)' = Of(f, i)
    BY <1>1 DEF Of
<1>9. ObservedInv'
    <2>1. ASSUME NEW o \in observed'
          PROVE  o.family \in Families /\ o.case \in 1..Cases(o.family) /\ Earlier(o)' /\ ~ Differs(o)
        <3>1. o.family \in Families /\ o.case \in 1..Cases(o.family) /\ Earlier(o) /\ ~ Differs(o)
            BY <1>1 DEF ParityInv, ObservedInv
        <3>2. Done(o.family, o.case)
            BY <1>1, <3>1, Unobserved DEF Earlier
        <3>3. QED
            BY <1>5, <3>1, <3>2 DEF Earlier
    <2>2. ASSUME NEW f \in 1..Len(Suites), NEW i \in 1..Cases(f), Done(f, i)'
          PROVE  DeliveredAsJava(f, i)'
        <3>1. DeliveredAsJava(f, i)
            BY <1>1, <1>5, <2>2 DEF ParityInv, ObservedInv
        <3>2. QED
            BY <1>1, <1>8, <3>1, StaysDelivered
    <2>3. \A f \in Families : \A i \in 1..Cases(f) : Done(f, i)' => Of(f, i)' # {}
        BY <1>1, <1>5, <1>8 DEF ParityInv, ObservedInv
    <2>4. 1..(configuration' - 1) = {}
        BY <1>1
    <2>5. { o.configuration : o \in Of(family, case) }' = {}
        BY <1>7
    <2>6. \A o \in Of(family, case)' : \A n \in DOMAIN o.results : o.results[n] = reference'
        BY <1>7
    <2>7. IsFiniteSet(observed') /\ Cardinality(observed') = comparisons'
        BY <1>1 DEF ParityInv, ObservedInv
    <2>8. QED
        BY <1>6, <2>1, <2>2, <2>3, <2>4, <2>5, <2>6, <2>7 DEF ObservedInv
<1>10. QED
    BY <1>1, <1>5, <1>9 DEF ParityInv, FailInv

\* One configuration, whose three scans all come to the reference.
LEMMA StepCompareConfiguration ==
    ASSUME ParityInv, CompareConfiguration, conclusion' # "fail"
    PROVE  ParityInv'
<1>1. PICK ordinary, cohort, repeated \in Results :
         LET results == << Collected(ordinary), Collected(cohort), Collected(repeated) >>
         IN  /\ Observe("configuration", results, reference) /\ Agreeing(results)
             /\ configuration' = configuration + 1 /\ comparisons' = comparisons + 1
             /\ conclusion' = conclusion
             /\ UNCHANGED << campaign, family, case, remaining, reference >>
    BY DEF CompareConfiguration, Fails
<1> DEFINE results == << Collected(ordinary), Collected(cohort), Collected(repeated) >>
           o == [family |-> family, case |-> case, configuration |-> configuration,
                 lane |-> "configuration", results |-> results, wanted |-> reference]
<1>2. /\ conclusion = "run" /\ conclusion' = "run" /\ campaign' = campaign
      /\ family' = family /\ case' = case /\ remaining' = remaining /\ reference' = reference
      /\ configuration \in 1..Configurations /\ configuration' = configuration + 1
      /\ comparisons' = comparisons + 1 /\ observed' = observed \cup {o}
    BY <1>1 DEF CompareConfiguration, Observe
<1>3. /\ o.family = family /\ o.case = case /\ o.configuration = configuration
      /\ o.lane = "configuration" /\ o.results = results /\ o.wanted = reference
      /\ \A n \in DOMAIN o.results : o.results[n] = reference
    BY <1>1 DEF Agreeing
<1> HIDE DEF o, results
<1>4. /\ campaign \in Campaigns /\ family \in Families /\ case \in Nat /\ comparisons \in Nat
      /\ configuration \in Nat /\ configuration > 0
      /\ Configurations \in Nat \ {0} /\ Len(Suites) \in Nat /\ Cases(family) \in Nat
    BY <1>2, CampaignFacts DEF ParityInv, PositionInv
<1>5. /\ case \in 1..Cases(family) /\ family <= Len(Suites) + 2 /\ Program = "parity"
      /\ reference # None
    BY <1>2, <1>4 DEF ParityInv, PositionInv
<1>6. family <= Len(Suites) =>
         /\ Sound(Fixture, remaining) /\ Fixture.expectation = "matched"
         /\ reference = Wanted(Java.events)
    BY <1>2, <1>4, <1>5 DEF ParityInv, SuitesInv
<1>7. ~ Differs(o)
    BY <1>3, <1>5 DEF Differs
<1>8. PositionInv' /\ SuitesInv' /\ \A f, i : Done(f, i)' <=> Done(f, i)
    <2>1. configuration' \in 1..(Configurations + 1) /\ comparisons' \in Nat
        BY <1>2, <1>4
    <2>2. QED
        BY <1>2, <1>4, <1>5, <1>6, <2>1, WithinCase
<1>9. /\ Program' = Program /\ Suites' = Suites /\ Families' = Families
      /\ \A f : Cases(f)' = Cases(f)
    BY <1>2, SameCampaign
<1>10. /\ IsFiniteSet(observed') /\ Cardinality(observed') = comparisons'
       /\ \A f, i : f = family /\ i = case => Of(f, i)' = Of(f, i) \cup {o}
    BY <1>2, <1>3, Noted
<1>11. \A f, i : ~ (f = family /\ i = case) => Of(f, i)' = Of(f, i)
    BY <1>2, <1>3 DEF Of
<1>12. ~ Done(family, case)
    BY <1>4 DEF Done, Families
<1>13. Of(family, case)' = Of(family, case) \cup {o}
    BY <1>2, <1>3 DEF Of
<1>14. ObservedInv'
    <2>1. ASSUME NEW x \in observed'
          PROVE  x.family \in Families /\ x.case \in 1..Cases(x.family) /\ Earlier(x)' /\ ~ Differs(x)
        <3>1. CASE x = o
            <4>1. configuration \in 1..(configuration' - 1)
                BY <1>2, <1>4
            <4>2. QED
                BY <1>2, <1>3, <1>4, <1>5, <1>7, <3>1, <4>1 DEF Earlier
        <3>2. CASE x \in observed
            <4>1. x.family \in Families /\ x.case \in 1..Cases(x.family) /\ Earlier(x) /\ ~ Differs(x)
                BY <1>2, <3>2 DEF ParityInv, ObservedInv
            <4>2. 1..(configuration - 1) \subseteq 1..(configuration' - 1)
                BY <1>2, <1>4
            <4>3. QED
                BY <1>2, <1>8, <4>1, <4>2 DEF Earlier
        <3>3. QED
            BY <1>2, <3>1, <3>2
    <2>2. ASSUME NEW f \in 1..Len(Suites), NEW i \in 1..Cases(f), Done(f, i)'
          PROVE  DeliveredAsJava(f, i)'
        <3>1. DeliveredAsJava(f, i)
            BY <1>2, <1>8, <2>2 DEF ParityInv, ObservedInv
        <3>2. Of(f, i)' = Of(f, i)
            BY <1>8, <1>11, <1>12, <2>2
        <3>3. QED
            BY <1>2, <3>1, <3>2, StaysDelivered
    <2>3. ASSUME NEW f \in Families, NEW i \in 1..Cases(f), Done(f, i)'
          PROVE  Of(f, i)' # {}
        <3>1. Of(f, i) # {}
            BY <1>2, <1>5, <1>8, <2>3 DEF ParityInv, ObservedInv
        <3>2. QED
            BY <1>8, <1>11, <1>12, <2>3, <3>1
    <2>4. { x.configuration : x \in Of(family, case) } = 1..(configuration - 1)
        BY <1>2, <1>4 DEF ParityInv, ObservedInv
    <2>5. { x.configuration : x \in Of(family, case)' } = (1..(configuration - 1)) \cup {configuration}
        BY <1>3, <1>13, <2>4
    <2>6. 1..(configuration' - 1) = (1..(configuration - 1)) \cup {configuration}
        BY <1>2, <1>4
    <2>7. \A x \in Of(family, case)' : \A n \in DOMAIN x.results : x.results[n] = reference'
        BY <1>2, <1>3, <1>4, <1>13 DEF ParityInv, ObservedInv
    <2>8. QED
        BY <1>9, <1>10, <2>1, <2>2, <2>3, <2>5, <2>6, <2>7 DEF ObservedInv
<1>15. QED
    BY <1>2, <1>8, <1>14 DEF ParityInv, FailInv

-----------------------------------------------------------------------------
(* Parity: the theorem. *)

LEMMA ParityInitially ==
    ASSUME ParityInit
    PROVE  ParityInv
<1>1. campaign \in Campaigns /\ family = 1 /\ case = 0 /\ configuration = 0 /\ reference = None
      /\ observed = {} /\ comparisons = 0 /\ conclusion = "run"
    BY DEF ParityInit
<1>2. Len(Suites) \in Nat \ {0} /\ Configurations \in Nat /\ 1 \in Families /\ Cases(1) \in Nat
    BY <1>1, CampaignFacts DEF Families
<1>3. PositionInv
    BY <1>1, <1>2 DEF PositionInv
<1>4. SuitesInv
    BY <1>1, <1>2 DEF SuitesInv
<1>5. ASSUME NEW f \in Families, NEW i \in 1..Cases(f) PROVE ~ Done(f, i)
    <2>1. Cases(f) \in Nat /\ f \in Nat /\ f >= 1
        BY <1>1, <1>2, CampaignFacts DEF Families
    <2>2. QED
        BY <1>1, <2>1 DEF Done
<1>6. ObservedInv
    <2>1. IsFiniteSet(observed) /\ Cardinality(observed) = comparisons
        BY <1>1, FS_EmptySet
    <2>2. 1..Len(Suites) \subseteq Families
        BY <1>2 DEF Families
    <2>3. QED
        BY <1>1, <1>5, <2>1, <2>2 DEF ObservedInv
<1>7. QED
    BY <1>1, <1>3, <1>4, <1>6 DEF ParityInv, FailInv

\* A step that fails goes nowhere.
LEMMA FailingStays ==
    ASSUME ParityInv, ParityStep, conclusion' = "fail"
    PROVE  PositionInv'
<1>1. /\ conclusion = "run" /\ campaign' = campaign /\ family' = family /\ case' = case
      /\ configuration' = configuration /\ reference' = reference
      /\ comparisons' \in { comparisons, comparisons + 1 }
    <2>1. conclusion = "run"
        BY StillRunning
    <2>2. CASE OpenSuite
        BY <2>1, <2>2 DEF OpenSuite, Quiet, Fails
    <2>3. CASE Unsound
        BY <2>1, <2>3 DEF Unsound, Quiet, Fails
    <2>4. CASE VerifyFixture
        BY <2>1, <2>4 DEF VerifyFixture, Quiet, Fails
    <2>5. CASE VerifyRejected
        BY <2>1, <2>5 DEF VerifyRejected, Quiet, Fails
    <2>6. CASE TakeReference
        BY <2>1, <2>6 DEF TakeReference, Fails
    <2>7. CASE CompareConfiguration
        BY <2>1, <2>7 DEF CompareConfiguration, Quiet, Fails
    <2>8. CASE CloseFamily
        BY <2>1, <2>8 DEF CloseFamily, Quiet, Fails
    <2>9. CASE VerifyBuildError
        BY <2>1, <2>9 DEF VerifyBuildError, Quiet, Fails
    <2>10. CASE EndCase
        BY <2>1, <2>10 DEF EndCase
    <2>11. QED
        BY <2>2, <2>3, <2>4, <2>5, <2>6, <2>7, <2>8, <2>9, <2>10 DEF ParityStep
<1>2. /\ Families' = Families /\ campaign \in Campaigns /\ family \in Families
      /\ case \in Nat /\ configuration \in Nat /\ comparisons \in Nat
      /\ configuration = 0 => reference = None
    BY <1>1, SameCampaign DEF ParityInv, PositionInv
<1>3. QED
    BY <1>1, <1>2 DEF PositionInv

\* Nor does one that changes nothing.
LEMMA StutterStays ==
    ASSUME ParityInv, UNCHANGED parityVars
    PROVE  ParityInv'
<1>1. /\ campaign' = campaign /\ family' = family /\ case' = case /\ remaining' = remaining
      /\ configuration' = configuration /\ reference' = reference /\ observed' = observed
      /\ comparisons' = comparisons /\ conclusion' = conclusion
    BY DEF parityVars
<1>2. /\ Program' = Program /\ Suites' = Suites /\ Families' = Families
      /\ \A f : FixturesOf(f)' = FixturesOf(f) /\ JavaOf(f)' = JavaOf(f) /\ Cases(f)' = Cases(f)
    BY <1>1, SameCampaign
<1>3. Suite' = Suite /\ Fixture' = Fixture /\ Java' = Java
    BY <1>1, <1>2 DEF Suite, Fixture, Java
<1>4. Wanted(Java.events)' = Wanted(Java.events) /\ Cases(family)' = Cases(family)
    BY <1>1, <1>2, <1>3 DEF Wanted, Cases, FixturesOf
<1>5. \A f, n : Fits(f, n)' = Fits(f, n) /\ Unused(f, n)' = Unused(f, n)
    BY <1>2 DEF Fits, Unused
<1>6. Fits(family, case - 1)' = Fits(family, case - 1) /\ Unused(family, case - 1)' = Unused(family, case - 1)
    BY <1>1, <1>2 DEF Fits, Unused
<1>7. \A f, i : /\ Done(f, i)' = Done(f, i) /\ Of(f, i)' = Of(f, i)
    BY <1>1 DEF Done, Of
<1>8. \A f, i : DeliveredAsJava(f, i) => DeliveredAsJava(f, i)'
    BY <1>1, <1>7, StaysDelivered
<1>9. Of(family, case)' = Of(family, case) /\ \A o : Earlier(o)' = Earlier(o)
    BY <1>1, <1>7 DEF Of, Earlier, Done
<1>10. PositionInv'
    BY <1>1, <1>2, <1>4 DEF ParityInv, PositionInv
<1>11. SuitesInv'
    BY <1>1, <1>2, <1>3, <1>4, <1>6 DEF ParityInv, SuitesInv
<1>12. ObservedInv'
    <2>1. CASE conclusion # "fail"
        <3>1. IsFiniteSet(observed') /\ Cardinality(observed') = comparisons'
            BY <1>1, <2>1 DEF ParityInv, ObservedInv
        <3>2. \A o \in observed' :
                 /\ o.family \in Families' /\ o.case \in 1..(Cases(o.family)')
                 /\ Earlier(o)' /\ ~ Differs(o)
            BY <1>1, <1>2, <1>9, <2>1 DEF ParityInv, ObservedInv
        <3>3. \A f \in 1..Len(Suites') : \A i \in 1..(Cases(f)') : Done(f, i)' => DeliveredAsJava(f, i)'
            BY <1>1, <1>2, <1>7, <1>8, <2>1 DEF ParityInv, ObservedInv
        <3>4. Program' = "parity" =>
                 \A f \in Families' : \A i \in 1..(Cases(f)') : Done(f, i)' => Of(f, i)' # {}
            BY <1>1, <1>2, <1>7, <2>1 DEF ParityInv, ObservedInv
        <3>5. configuration' > 0 =>
                 /\ { o.configuration : o \in Of(family, case)' } = 1..(configuration' - 1)
                 /\ \A o \in Of(family, case)' : \A n \in DOMAIN o.results : o.results[n] = reference'
            BY <1>1, <1>9, <2>1 DEF ParityInv, ObservedInv
        <3>6. QED
            BY <3>1, <3>2, <3>3, <3>4, <3>5 DEF ObservedInv
    <2>2. CASE conclusion = "fail"
        BY <1>1, <2>2 DEF ObservedInv
    <2>3. QED
        BY <2>1, <2>2
<1>13. FailInv'
    BY <1>1, <1>2 DEF ParityInv, FailInv
<1>14. QED
    BY <1>10, <1>11, <1>12, <1>13 DEF ParityInv

LEMMA ParityGoesOn ==
    ASSUME ParityInv, [ParityStep]_parityVars
    PROVE  ParityInv'
<1>1. CASE UNCHANGED parityVars
    BY <1>1, StutterStays
<1>2. CASE ParityStep
    <2>1. conclusion = "run" /\ campaign' = campaign
        BY <1>2, StillRunning
    <2>2. CASE conclusion' = "fail"
        <3>1. PositionInv' /\ FailInv'
            BY <1>2, <2>2, FailStep, FailingStays
        <3>2. QED
            BY <2>2, <3>1 DEF ParityInv, SuitesInv, ObservedInv
    <2>3. CASE conclusion' # "fail"
        <3>1. ~ Unsound
            BY <2>3 DEF Unsound, Fails
        <3>2. QED
            BY <1>2, <2>3, <3>1, StepOpenSuite, StepVerifyFixture, StepVerifyRejected,
               StepTakeReference, StepCompareConfiguration, StepEndCase, StepCloseFamily,
               StepVerifyBuildError DEF ParityStep
    <2>4. QED
        BY <2>2, <2>3
<1>3. QED
    BY <1>1, <1>2

\* What the invariant says of a command that passed.
LEMMA PassedIsExact ==
    ASSUME ParityInv, conclusion = "pass"
    PROVE  /\ \A f \in DOMAIN Suites :
                 SuiteIsSound(Suites[f]) /\ \A i \in DOMAIN Suites[f].fixtures : DeliveredAsJava(f, i)
           /\ Cardinality(observed) = comparisons
           /\ Program = "parity" =>
                 { << o.family, o.case >> : o \in observed }
                     = (UNION { { f } \X (1..Len(Suites[f].fixtures)) : f \in DOMAIN Suites })
                         \cup ({ Len(Suites) + 1, Len(Suites) + 2 } \X (1..OwnCases))
                         \cup ({ Len(Suites) + 3 } \X (1..BuildErrors))
<1>1. /\ campaign \in Campaigns /\ family \in Families /\ family > Len(Suites)
      /\ Program = "parity" => family = Len(Suites) + 3 /\ case = BuildErrors + 1
    BY DEF ParityInv, PositionInv
<1>2. /\ Len(Suites) \in Nat \ {0} /\ DOMAIN Suites = 1..Len(Suites)
      /\ \A f \in 1..Len(Suites) : DOMAIN FixturesOf(f) = 1..Len(FixturesOf(f))
      /\ \A f \in Families : Cases(f) \in Nat
      /\ OwnCases \in Nat /\ BuildErrors \in Nat
    BY <1>1, CampaignFacts
<1>3. ASSUME NEW f \in 1..Len(Suites)
      PROVE  /\ SuiteIsSound(Suites[f])
             /\ \A i \in DOMAIN Suites[f].fixtures : DeliveredAsJava(f, i)
    <2>1. f < family /\ Cases(f) = Len(FixturesOf(f))
        BY <1>1, <1>2 DEF Cases, Families
    <2>2. DOMAIN Suites[f].fixtures = 1..Cases(f)
        BY <1>2, <2>1 DEF FixturesOf
    <2>3. QED
        BY <2>1, <2>2 DEF ParityInv, SuitesInv, ObservedInv, Done
<1>4. Cardinality(observed) = comparisons
    BY DEF ParityInv, ObservedInv
<1> DEFINE Places == { << o.family, o.case >> : o \in observed }
           All == { x \in Families \X Nat : x[2] \in 1..Cases(x[1]) }
<1>5. ASSUME Program = "parity" PROVE Places = All
    <2>1. ASSUME NEW o \in observed PROVE << o.family, o.case >> \in All
        <3>1. o.family \in Families /\ o.case \in 1..Cases(o.family)
            BY DEF ParityInv, ObservedInv
        <3>2. Cases(o.family) \in Nat
            BY <1>2, <3>1
        <3>3. QED
            BY <3>1, <3>2
    <2>2. ASSUME NEW f \in Families, NEW i \in 1..Cases(f) PROVE << f, i >> \in Places
        <3>1. Done(f, i)
            <4>1. f \in Nat /\ Cases(f) \in Nat
                BY <1>2 DEF Families
            <4>2. CASE f < Len(Suites) + 3
                BY <1>1, <1>5, <4>2 DEF Done
            <4>3. CASE f = Len(Suites) + 3
                <5>1. Cases(f) = BuildErrors
                    BY <1>2, <4>3 DEF Cases
                <5>2. QED
                    BY <1>1, <1>2, <1>5, <4>3, <5>1 DEF Done
            <4>4. QED
                BY <1>2, <4>1, <4>2, <4>3 DEF Families
        <3>2. Of(f, i) # {}
            BY <1>5, <3>1 DEF ParityInv, ObservedInv
        <3>3. QED
            BY <3>2 DEF Of
    <2>3. ASSUME NEW x \in All PROVE x \in Places
        <3>1. x = << x[1], x[2] >> /\ x[1] \in Families /\ x[2] \in 1..Cases(x[1])
            OBVIOUS
        <3> HIDE DEF All, Places
        <3>2. << x[1], x[2] >> \in Places
            BY <2>2, <3>1
        <3>3. QED
            BY <3>1, <3>2
    <2>4. QED
        BY <2>1, <2>3
<1> DEFINE U == (UNION { { f } \X (1..Len(Suites[f].fixtures)) : f \in DOMAIN Suites })
           V == { Len(Suites) + 1, Len(Suites) + 2 } \X (1..OwnCases)
           W == { Len(Suites) + 3 } \X (1..BuildErrors)
<1>6. \A f \in Families :
         /\ f <= Len(Suites) => f \in 1..Len(Suites) /\ Cases(f) = Len(Suites[f].fixtures)
         /\ f \in { Len(Suites) + 1, Len(Suites) + 2 } => Cases(f) = OwnCases
         /\ f = Len(Suites) + 3 => Cases(f) = BuildErrors
         /\ f <= Len(Suites) \/ f \in { Len(Suites) + 1, Len(Suites) + 2 } \/ f = Len(Suites) + 3
    BY <1>2 DEF Cases, Families, FixturesOf
<1>7. /\ 1..Len(Suites) \subseteq Families /\ { Len(Suites) + 1, Len(Suites) + 2 } \subseteq Families
      /\ Len(Suites) + 3 \in Families
    BY <1>2 DEF Families
<1>8. All = U \cup V \cup W
    <2>1. ASSUME NEW x \in All PROVE x \in U \/ x \in V \/ x \in W
        <3>1. x = << x[1], x[2] >> /\ x[1] \in Families /\ x[2] \in 1..Cases(x[1])
            OBVIOUS
        <3>2. CASE x[1] <= Len(Suites)
            <4>1. x \in { x[1] } \X (1..Len(Suites[x[1]].fixtures))
                BY <1>6, <3>1, <3>2
            <4>2. QED
                BY <1>2, <1>6, <3>1, <3>2, <4>1
        <3>3. CASE x[1] \in { Len(Suites) + 1, Len(Suites) + 2 }
            BY <1>6, <3>1, <3>3
        <3>4. CASE x[1] = Len(Suites) + 3
            BY <1>6, <3>1, <3>4
        <3>5. QED
            BY <1>6, <3>1, <3>2, <3>3, <3>4
    <2>2. ASSUME NEW f \in Families, NEW i \in 1..Cases(f) PROVE << f, i >> \in All
        BY <1>2
    <2>3. ASSUME NEW f \in DOMAIN Suites, NEW x \in { f } \X (1..Len(Suites[f].fixtures))
          PROVE  x \in All
        <3>1. f \in Families /\ x = << f, x[2] >> /\ x[2] \in 1..Cases(f)
            BY <1>2, <1>6, <1>7
        <3>2. << f, x[2] >> \in All
            BY <2>2, <3>1
        <3>3. QED
            BY <3>1, <3>2
    <2>4. ASSUME NEW x \in V PROVE x \in All
        <3>1. x[1] \in Families /\ x = << x[1], x[2] >> /\ x[2] \in 1..Cases(x[1])
            BY <1>6, <1>7
        <3>2. << x[1], x[2] >> \in All
            BY <2>2, <3>1
        <3>3. QED
            BY <3>1, <3>2
    <2>5. ASSUME NEW x \in W PROVE x \in All
        <3>1. x[1] \in Families /\ x = << x[1], x[2] >> /\ x[2] \in 1..Cases(x[1])
            BY <1>6, <1>7
        <3>2. << x[1], x[2] >> \in All
            BY <2>2, <3>1
        <3>3. QED
            BY <3>1, <3>2
    <2> HIDE DEF All, V, W
    <2>6. U \subseteq All
        BY <2>3
    <2> HIDE DEF U
    <2>7. QED
        BY <2>1, <2>4, <2>5, <2>6
<1>9. QED
    BY <1>2, <1>3, <1>4, <1>5, <1>8

\* For every campaign, whatever the library delivers: a verification that passes ran every
\* case in every configuration and saw Java's events, and one that fails shows a difference
\* or fixtures that do not fit (verify in cohort_parity.rs, verify_fixture_set in main.rs).
THEOREM ParityExact == ParitySpec => []ParityIsExact
<1>1. ParityInv => ParityIsExact
    <2> SUFFICES ASSUME ParityInv PROVE ParityIsExact
        OBVIOUS
    <2>1. conclusion # "fail" => \A o \in observed : ~ Differs(o)
        BY DEF ParityInv, ObservedInv
    <2>2. QED
        BY <2>1, PassedIsExact DEF ParityIsExact, ParityInv, FailInv
<1>2. QED
    BY <1>1, ParityInitially, ParityGoesOn, PTL DEF ParitySpec

-----------------------------------------------------------------------------
(* Admission: the specification, and what its proof rests on. *)

AdmissionSpec == AdmissionInit /\ [][AdmissionStep]_admissionVars

-----------------------------------------------------------------------------
(* Lists of checks. *)

\* Lists of checks; no reason is called "pass".
Reasons ==
    { "metadata", "fixture", "runner", "revision", "workers", "compile", "improvement",
      "regression", "gate", "mode", "baseline path", "path", "resources", "iterations",
      "campaign", "diagnostics", "unreadable" }
Checks == [reason : Reasons, fails : BOOLEAN]

Passes(checks) == \A i \in DOMAIN checks : ~ checks[i].fails
Refuses(checks, reason) == \E i \in DOMAIN checks : checks[i].fails /\ checks[i].reason = reason

LEMMA CheckIs ==
    ASSUME NEW reason \in Reasons, NEW fails \in BOOLEAN
    PROVE  /\ Check(reason, fails) \in Checks
           /\ Check(reason, fails).reason = reason /\ Check(reason, fails).fails = fails
BY DEF Check, Checks

\* The first check to fail decides, so a failure in the first of two lists hides the
\* second.
LEMMA DecidedByFirst ==
    ASSUME NEW s \in Seq(Checks), NEW t \in Seq(Checks)
    PROVE  /\ Decided(s \o t) = "pass" <=> Passes(s) /\ Passes(t)
           /\ ~ Passes(s) => Refuses(s, Decided(s \o t))
           /\ Passes(s) /\ ~ Passes(t) => Refuses(t, Decided(s \o t))
<1> DEFINE u == s \o t
           failed == { i \in DOMAIN u : u[i].fails }
<1>1. /\ Len(s) \in Nat /\ Len(t) \in Nat /\ DOMAIN s = 1..Len(s) /\ DOMAIN t = 1..Len(t)
      /\ DOMAIN u = 1..(Len(s) + Len(t))
      /\ \A i \in DOMAIN s : i \in DOMAIN u /\ u[i] = s[i]
      /\ \A i \in DOMAIN t : Len(s) + i \in DOMAIN u /\ u[Len(s) + i] = t[i]
      /\ \A i \in DOMAIN u : \/ i \in DOMAIN s /\ u[i] = s[i]
                             \/ i > Len(s) /\ i - Len(s) \in DOMAIN t /\ u[i] = t[i - Len(s)]
    BY ConcatProperties, LenProperties
<1>0. /\ \A i \in DOMAIN s : s[i] \in Checks
      /\ \A i \in DOMAIN t : t[i] \in Checks
    BY <1>1, ElementOfSeq
<1> HIDE DEF u
<1>2. CASE failed = {}
    <2>1. Decided(u) = "pass"
        BY <1>2 DEF Decided
    <2>2. Passes(s) /\ Passes(t)
        BY <1>1, <1>2 DEF Passes
    <2>3. QED
        BY <2>1, <2>2 DEF u
<1>3. CASE failed # {}
    <2>1. failed \in SUBSET Nat
        BY <1>1
    <2>2. Min(failed) \in failed /\ \A y \in failed : Min(failed) <= y
        BY <1>3, <2>1, MinIsMember
    <2>3. Decided(u) = u[Min(failed)].reason
        BY <1>3 DEF Decided
    <2> DEFINE m == Min(failed)
    <2> HIDE DEF m
    <2>4. /\ m \in DOMAIN u /\ u[m].fails /\ Decided(u) = u[m].reason
          /\ \A y \in DOMAIN u : u[y].fails => m <= y
        BY <2>2, <2>3 DEF m
    <2> HIDE DEF failed
    <2>5. CASE m \in DOMAIN s /\ u[m] = s[m]
        BY <1>0, <2>4, <2>5, Zenon DEF Passes, Refuses, Checks, Reasons, u
    <2>6. CASE m > Len(s) /\ m - Len(s) \in DOMAIN t /\ u[m] = t[m - Len(s)]
        <3>1. Passes(s)
            <4> SUFFICES ASSUME NEW i \in DOMAIN s, s[i].fails PROVE FALSE
                BY DEF Passes
            <4>1. m <= i /\ i <= Len(s)
                BY <1>1, <2>4
            <4>2. m \in Nat
                BY <1>1, <2>4
            <4>3. QED
                BY <1>1, <2>6, <4>1, <4>2
        <3>2. Refuses(t, Decided(u)) /\ ~ Passes(t) /\ Decided(u) # "pass"
            BY <1>0, <2>4, <2>6, Zenon DEF Passes, Refuses, Checks, Reasons
        <3>3. QED
            BY <3>1, <3>2 DEF u
    <2>7. QED
        BY <1>1, <2>4, <2>5, <2>6
<1>4. QED
    BY <1>2, <1>3

\* A list that stands alone.
LEMMA DecidedAlone ==
    ASSUME NEW s \in Seq(Checks)
    PROVE  /\ Decided(s) = "pass" <=> Passes(s)
           /\ ~ Passes(s) => Refuses(s, Decided(s))
<1>1. << >> \in Seq(Checks) /\ s \o << >> = s
    BY ConcatEmptySeq, EmptySeq
<1>2. Passes(<< >>)
    BY DEF Passes
<1>3. /\ Decided(s \o << >>) = "pass" <=> Passes(s) /\ Passes(<< >>)
      /\ ~ Passes(s) => Refuses(s, Decided(s \o << >>))
    BY <1>1, <1>2, DecidedByFirst
<1>4. QED
    BY <1>1, <1>2, <1>3

-----------------------------------------------------------------------------
(* Quotients. *)

\* A quotient rounded down reaches a whole number exactly when the fraction does.
LEMMA Reaches ==
    ASSUME NEW n \in Nat, NEW b \in Nat \ {0}, NEW k \in Nat
    PROVE  n \div b \in Nat /\ (n \div b >= k <=> n >= k * b)
<1>1. /\ n \div b \in Nat /\ n % b \in 0..(b - 1) /\ n = b * (n \div b) + (n % b)
    OBVIOUS
<1> DEFINE q == n \div b
           r == n % b
<1> HIDE DEF q, r
<1>2. q \in Nat /\ r \in Nat /\ r < b /\ n = b * q + r
    BY <1>1 DEF q, r
<1>3. b * q \in Nat /\ k * b \in Nat
    BY <1>2
<1>4. ASSUME q >= k PROVE n >= k * b
    <2>1. q - k \in Nat /\ b * (q - k) \in Nat
        BY <1>2, <1>4
    <2>2. b * q = k * b + b * (q - k)
        BY <1>2
    <2>3. QED
        BY <1>2, <1>3, <2>1, <2>2
<1>5. ASSUME q < k PROVE n < k * b
    <2>1. k - q - 1 \in Nat /\ b * (k - q - 1) \in Nat
        BY <1>2, <1>5
    <2>2. k * b = b * q + b + b * (k - q - 1)
        BY <1>2
    <2>3. QED
        BY <1>2, <1>3, <2>1, <2>2
<1>6. QED
    BY <1>1, <1>2, <1>4, <1>5 DEF q

\* p percent faster, exactly; and slower than p percent by as much as the rounding hides.
Quicker(p, b, c) == 100 * (b - c) >= p * b
Slower(p, b, c) == 10000 * (c - b) >= (100 * p + 1) * b

\* What the three quotients decide, for the percentages in use.
LEMMA DecreaseDecides ==
    ASSUME NEW b \in Nat \ {0}, NEW c \in Nat
    PROVE  /\ Decrease(b, c) < 500 <=> ~ Quicker(5, b, c)
           /\ Decrease(b, c) < 1000 <=> ~ Quicker(10, b, c)
<1>1. Excess(b, c) * 10000 \in Nat
    BY DEF Excess
<1>2. /\ (Excess(b, c) * 10000) \div b \in Nat
      /\ (Excess(b, c) * 10000) \div b >= 500 <=> Excess(b, c) * 10000 >= 500 * b
      /\ (Excess(b, c) * 10000) \div b >= 1000 <=> Excess(b, c) * 10000 >= 1000 * b
    BY <1>1, Reaches
<1>3. Decrease(b, c) = (Excess(b, c) * 10000) \div b
    BY DEF Decrease
<1>4. /\ Excess(b, c) * 10000 >= 500 * b <=> Quicker(5, b, c)
      /\ Excess(b, c) * 10000 >= 1000 * b <=> Quicker(10, b, c)
    BY DEF Excess, Quicker
<1>5. QED
    BY <1>2, <1>3, <1>4

LEMMA IncreaseDecides ==
    ASSUME NEW b \in Nat \ {0}, NEW c \in Nat
    PROVE  Increase(b, c) > 300 <=> Slower(3, b, c)
<1>1. Excess(c, b) * 10000 \in Nat
    BY DEF Excess
<1>2. /\ (Excess(c, b) * 10000) \div b \in Nat
      /\ (Excess(c, b) * 10000) \div b >= 301 <=> Excess(c, b) * 10000 >= 301 * b
    BY <1>1, Reaches
<1>3. Increase(b, c) = (Excess(c, b) * 10000) \div b
    BY DEF Increase
<1>4. Excess(c, b) * 10000 >= 301 * b <=> Slower(3, b, c)
    BY DEF Excess, Slower
<1>5. QED
    BY <1>2, <1>3, <1>4

LEMMA SlowdownDecides ==
    ASSUME NEW b \in Nat \ {0}, NEW c \in Nat
    PROVE  /\ Slowdown(b, c) > 5000 <=> Slower(50, b, c)
           /\ Slowdown(b, c) > 10000 <=> Slower(100, b, c)
<1> DEFINE q == (c * 10000) \div b
<1>2. /\ q \in Nat
      /\ q >= 15001 <=> c * 10000 >= 15001 * b
      /\ q >= 20001 <=> c * 10000 >= 20001 * b
    BY Reaches
<1>3. Slowdown(b, c) = Excess(q, 10000)
    BY DEF Slowdown
<1> HIDE DEF q
<1>4. /\ Excess(q, 10000) > 5000 <=> q >= 15001
      /\ Excess(q, 10000) > 10000 <=> q >= 20001
    BY <1>2 DEF Excess
<1>5. /\ c * 10000 >= 15001 * b <=> Slower(50, b, c)
      /\ c * 10000 >= 20001 * b <=> Slower(100, b, c)
    BY DEF Slower
<1>6. QED
    BY <1>2, <1>3, <1>4, <1>5

\* Being quicker or slower is what the fractions say, less a rounding in the baseline's
\* favour; both are stable when the candidate gets faster or the baseline slower.
LEMMA Fractions ==
    ASSUME NEW b \in Nat \ {0}, NEW c \in Nat
    PROVE  /\ \A p \in {3, 50, 100} : Slower(p, b, c) => 100 * (c - b) > p * b
           /\ \A p \in {5, 10} : Quicker(p, b, c) => Slower(3, c, b) /\ c < b
           /\ \A by \in Nat : \A p \in {5, 10} : Quicker(p, b, c) =>
                 /\ c - by \in Nat => Quicker(p, b, c - by)
                 /\ Quicker(p, b + by, c)
           /\ \A by \in Nat : \A p \in {3, 50, 100} : ~ Slower(p, b, c) =>
                 /\ c - by \in Nat => ~ Slower(p, b, c - by)
                 /\ ~ Slower(p, b + by, c)
<1>1. \A p \in {3, 50, 100} : Slower(p, b, c) => 100 * (c - b) > p * b
    BY DEF Slower
<1>3. ASSUME NEW by \in Nat
      PROVE  /\ \A p \in {5, 10} : Quicker(p, b, c) =>
                   (c - by \in Nat => Quicker(p, b, c - by)) /\ Quicker(p, b + by, c)
             /\ \A p \in {3, 50, 100} : ~ Slower(p, b, c) =>
                   (c - by \in Nat => ~ Slower(p, b, c - by)) /\ ~ Slower(p, b + by, c)
    BY DEF Quicker, Slower
<1>2. \A p \in {5, 10} : Quicker(p, b, c) => Slower(3, c, b) /\ c < b
    BY DEF Quicker, Slower
<1>4. QED
    BY <1>1, <1>2, <1>3
-----------------------------------------------------------------------------
(* What each list of checks lets pass, and what it refuses for a time. *)

AreComparable(b, c) ==
    Valid(b) /\ Valid(c) /\ Identity(b) = Identity(c) /\ b.runner = c.runner

LEMMA ComparableMeans ==
    ASSUME NEW b, NEW c
    PROVE  /\ Comparable(b, c) \in Seq(Checks)
           /\ Passes(Comparable(b, c)) <=> AreComparable(b, c)
           /\ ~ Refuses(Comparable(b, c), "improvement")
           /\ ~ Refuses(Comparable(b, c), "regression")
<1> DEFINE x1 == ~ Valid(b) \/ ~ Valid(c)
           x2 == Identity(b) # Identity(c)
           x3 == b.runner # c.runner
           k1 == Check("metadata", x1)
           k2 == Check("fixture", x2)
           k3 == Check("runner", x3)
           t == Comparable(b, c)
<1>1. t = << k1, k2, k3 >>
    BY Zenon DEF Comparable
<1>2. /\ x1 \in BOOLEAN /\ x2 \in BOOLEAN /\ x3 \in BOOLEAN
    BY DEF x1, x2, x3
<1> HIDE DEF x1, x2, x3
<1>3. /\ k1 \in Checks /\ k2 \in Checks /\ k3 \in Checks
      /\ k1.reason = "metadata" /\ k1.fails = x1
      /\ k2.reason = "fixture" /\ k2.fails = x2
      /\ k3.reason = "runner" /\ k3.fails = x3
    <2>1. /\ "metadata" \in Reasons /\ "fixture" \in Reasons /\ "runner" \in Reasons
        BY DEF Reasons
    <2>2. k1 \in Checks /\ k1.reason = "metadata" /\ k1.fails = x1
        BY <1>2, <2>1, CheckIs, Zenon
    <2>3. k2 \in Checks /\ k2.reason = "fixture" /\ k2.fails = x2
        BY <1>2, <2>1, CheckIs, Zenon
    <2>4. k3 \in Checks /\ k3.reason = "runner" /\ k3.fails = x3
        BY <1>2, <2>1, CheckIs, Zenon
    <2> HIDE DEF k1, k2, k3
    <2>5. QED
        BY <2>2, <2>3, <2>4
<1> HIDE DEF t, k1, k2, k3
<1>4. /\ DOMAIN t = 1..3 /\ t \in Seq(Checks)
      /\ t[1].reason = "metadata" /\ t[1].fails = x1
      /\ t[2].reason = "fixture" /\ t[2].fails = x2
      /\ t[3].reason = "runner" /\ t[3].fails = x3
    <2>1. /\ k1 \in Checks /\ k2 \in Checks /\ k3 \in Checks
        BY <1>3
    <2>2. /\ DOMAIN t = 1..3 /\ t \in Seq(Checks)
          /\ t[1] = k1 /\ t[2] = k2 /\ t[3] = k3
        BY <1>1, <2>1
    <2>3. QED
        BY <1>3, <2>2, Zenon
<1>5. \A i \in 1..3 : i = 1 \/ i = 2 \/ i = 3
    OBVIOUS
<1>6. Passes(t) <=> /\ ~ x1 /\ ~ x2 /\ ~ x3
    <2>0. DOMAIN t = 1..3
        BY <1>4
    <2>1. Passes(t) <=> /\ ~ t[1].fails /\ ~ t[2].fails /\ ~ t[3].fails
        BY <2>0, <1>5 DEF Passes
    <2>2. QED
        BY <1>4, <2>1, Zenon
<1>7. ~ Refuses(t, "improvement") /\ ~ Refuses(t, "regression")
    BY <1>4, <1>5 DEF Refuses
<1>8. ~ x1 /\ ~ x2 /\ ~ x3 <=> AreComparable(b, c)
    BY DEF AreComparable, x1, x2, x3
<1>9. QED
    BY <1>4, <1>6, <1>7, <1>8 DEF t

Slowed(b, c, points, ns) == Slowdown(b.scan, c.scan) > points /\ Excess(c.scan, b.scan) >= ns

LEMMA TripwireIs ==
    \A b, c, points, ns : Tripwire(b, c, points, ns) = Check("regression", Slowed(b, c, points, ns))
BY DEF Tripwire, Slowed

LEMMA TripwireMeans ==
    ASSUME NEW b, NEW c
    PROVE  /\ TripwireLimits(b, c) \in Seq(Checks)
           /\ Passes(TripwireLimits(b, c)) <=> ~ Slowed(b, c, 5000, 10000)
           /\ ~ Refuses(TripwireLimits(b, c), "improvement")
           /\ Refuses(TripwireLimits(b, c), "regression") => Slowed(b, c, 5000, 10000)
<1> DEFINE x1 == Slowed(b, c, 5000, 10000)
           k1 == Check("regression", x1)
           t == TripwireLimits(b, c)
<1>1. t = << k1 >>
    BY TripwireIs, SMT DEF TripwireLimits
<1>2. /\ x1 \in BOOLEAN
    BY DEF x1, Slowed
<1> HIDE DEF x1
<1>3. /\ k1 \in Checks
      /\ k1.reason = "regression" /\ k1.fails = x1
    <2>1. /\ "regression" \in Reasons
        BY DEF Reasons
    <2>2. k1 \in Checks /\ k1.reason = "regression" /\ k1.fails = x1
        BY <1>2, <2>1, CheckIs, Zenon
    <2> HIDE DEF k1
    <2>3. QED
        BY <2>2
<1> HIDE DEF t, k1
<1>4. /\ DOMAIN t = 1..1 /\ t \in Seq(Checks)
      /\ t[1].reason = "regression" /\ t[1].fails = x1
    <2>1. /\ k1 \in Checks
        BY <1>3
    <2>2. /\ DOMAIN t = 1..1 /\ t \in Seq(Checks)
          /\ t[1] = k1
        BY <1>1, <2>1
    <2>3. QED
        BY <1>3, <2>2, Zenon
<1>5. \A i \in 1..1 : i = 1
    OBVIOUS
<1>6. Passes(t) <=> /\ ~ x1
    <2>0. DOMAIN t = 1..1
        BY <1>4
    <2>1. Passes(t) <=> /\ ~ t[1].fails
        BY <2>0, <1>5 DEF Passes
    <2>2. QED
        BY <1>4, <2>1, Zenon
<1>7. ~ Refuses(t, "improvement") /\ (Refuses(t, "regression") => x1)
    BY <1>4, <1>5 DEF Refuses
<1>8. QED
    BY <1>4, <1>6, <1>7 DEF t, x1

LEMMA WutheringTripwireMeans ==
    ASSUME NEW b, NEW c
    PROVE  /\ WutheringTripwireLimits(b, c) \in Seq(Checks)
           /\ Passes(WutheringTripwireLimits(b, c)) <=>
                 b.workers = 1 /\ c.workers = 1 /\ ~ Slowed(b, c, 10000, 5000)
           /\ ~ Refuses(WutheringTripwireLimits(b, c), "improvement")
           /\ Refuses(WutheringTripwireLimits(b, c), "regression") => Slowed(b, c, 10000, 5000)
<1> DEFINE x1 == b.workers # 1 \/ c.workers # 1
           x2 == Slowed(b, c, 10000, 5000)
           k1 == Check("workers", x1)
           k2 == Check("regression", x2)
           t == WutheringTripwireLimits(b, c)
<1>1. t = << k1, k2 >>
    BY TripwireIs, SMT DEF WutheringTripwireLimits, OneWorker
<1>2. /\ x1 \in BOOLEAN /\ x2 \in BOOLEAN
    BY DEF x1, x2, Slowed
<1> HIDE DEF x1, x2
<1>3. /\ k1 \in Checks /\ k2 \in Checks
      /\ k1.reason = "workers" /\ k1.fails = x1
      /\ k2.reason = "regression" /\ k2.fails = x2
    <2>1. /\ "workers" \in Reasons /\ "regression" \in Reasons
        BY DEF Reasons
    <2>2. k1 \in Checks /\ k1.reason = "workers" /\ k1.fails = x1
        BY <1>2, <2>1, CheckIs, Zenon
    <2>3. k2 \in Checks /\ k2.reason = "regression" /\ k2.fails = x2
        BY <1>2, <2>1, CheckIs, Zenon
    <2> HIDE DEF k1, k2
    <2>4. QED
        BY <2>2, <2>3
<1> HIDE DEF t, k1, k2
<1>4. /\ DOMAIN t = 1..2 /\ t \in Seq(Checks)
      /\ t[1].reason = "workers" /\ t[1].fails = x1
      /\ t[2].reason = "regression" /\ t[2].fails = x2
    <2>1. /\ k1 \in Checks /\ k2 \in Checks
        BY <1>3
    <2>2. /\ DOMAIN t = 1..2 /\ t \in Seq(Checks)
          /\ t[1] = k1 /\ t[2] = k2
        BY <1>1, <2>1
    <2>3. QED
        BY <1>3, <2>2, Zenon
<1>5. \A i \in 1..2 : i = 1 \/ i = 2
    OBVIOUS
<1>6. Passes(t) <=> /\ ~ x1 /\ ~ x2
    <2>0. DOMAIN t = 1..2
        BY <1>4
    <2>1. Passes(t) <=> /\ ~ t[1].fails /\ ~ t[2].fails
        BY <2>0, <1>5 DEF Passes
    <2>2. QED
        BY <1>4, <2>1, Zenon
<1>7. ~ Refuses(t, "improvement") /\ (Refuses(t, "regression") => x2)
    BY <1>4, <1>5 DEF Refuses
<1>8. ~ x1 <=> b.workers = 1 /\ c.workers = 1
    BY DEF x1
<1>9. QED
    BY <1>4, <1>6, <1>7, <1>8 DEF t, x2

I6Knows(b) == b.gate \in { "improvement-5-percent", "non-regression-3-percent" }
I6TooLittle(b, c) == b.gate = "improvement-5-percent" /\ Decrease(b.scan, c.scan) < 500
I6TooSlow(b, c) == b.gate = "non-regression-3-percent" /\ Increase(b.scan, c.scan) > 300

LEMMA I6Means ==
    ASSUME NEW b, NEW c
    PROVE  /\ I6Limits(b, c) \in Seq(Checks)
           /\ Passes(I6Limits(b, c)) <=>
                 /\ ~ Increase(b.compile, c.compile) > 300 /\ I6Knows(b)
                 /\ ~ I6TooLittle(b, c) /\ ~ I6TooSlow(b, c)
           /\ Refuses(I6Limits(b, c), "improvement") => I6TooLittle(b, c)
           /\ Refuses(I6Limits(b, c), "regression") => I6TooSlow(b, c)
<1> DEFINE x1 == Increase(b.compile, c.compile) > 300
           x2 == I6TooLittle(b, c)
           x3 == I6TooSlow(b, c)
           x4 == ~ I6Knows(b)
           k1 == Check("compile", x1)
           k2 == Check("improvement", x2)
           k3 == Check("regression", x3)
           k4 == Check("gate", x4)
           t == I6Limits(b, c)
<1>1. t = << k1, k2, k3, k4 >>
    BY Zenon DEF I6Limits, I6TooLittle, I6TooSlow, I6Knows
<1>2. /\ x1 \in BOOLEAN /\ x2 \in BOOLEAN /\ x3 \in BOOLEAN /\ x4 \in BOOLEAN
    BY DEF x1, x2, x3, x4, I6TooLittle, I6TooSlow
<1> HIDE DEF x1, x2, x3, x4
<1>3. /\ k1 \in Checks /\ k2 \in Checks /\ k3 \in Checks /\ k4 \in Checks
      /\ k1.reason = "compile" /\ k1.fails = x1
      /\ k2.reason = "improvement" /\ k2.fails = x2
      /\ k3.reason = "regression" /\ k3.fails = x3
      /\ k4.reason = "gate" /\ k4.fails = x4
    <2>1. /\ "compile" \in Reasons /\ "improvement" \in Reasons /\ "regression" \in Reasons
          /\ "gate" \in Reasons
        BY DEF Reasons
    <2>2. k1 \in Checks /\ k1.reason = "compile" /\ k1.fails = x1
        BY <1>2, <2>1, CheckIs, Zenon
    <2>3. k2 \in Checks /\ k2.reason = "improvement" /\ k2.fails = x2
        BY <1>2, <2>1, CheckIs, Zenon
    <2>4. k3 \in Checks /\ k3.reason = "regression" /\ k3.fails = x3
        BY <1>2, <2>1, CheckIs, Zenon
    <2>5. k4 \in Checks /\ k4.reason = "gate" /\ k4.fails = x4
        BY <1>2, <2>1, CheckIs, Zenon
    <2> HIDE DEF k1, k2, k3, k4
    <2>6. QED
        BY <2>2, <2>3, <2>4, <2>5
<1> HIDE DEF t, k1, k2, k3, k4
<1>4. /\ DOMAIN t = 1..4 /\ t \in Seq(Checks)
      /\ t[1].reason = "compile" /\ t[1].fails = x1
      /\ t[2].reason = "improvement" /\ t[2].fails = x2
      /\ t[3].reason = "regression" /\ t[3].fails = x3
      /\ t[4].reason = "gate" /\ t[4].fails = x4
    <2>1. /\ k1 \in Checks /\ k2 \in Checks /\ k3 \in Checks /\ k4 \in Checks
        BY <1>3
    <2>2. /\ DOMAIN t = 1..4 /\ t \in Seq(Checks)
          /\ t[1] = k1 /\ t[2] = k2 /\ t[3] = k3 /\ t[4] = k4
        BY <1>1, <2>1
    <2>3. QED
        BY <1>3, <2>2, Zenon
<1>5. \A i \in 1..4 : i = 1 \/ i = 2 \/ i = 3 \/ i = 4
    OBVIOUS
<1>6. Passes(t) <=> /\ ~ x1 /\ ~ x2 /\ ~ x3 /\ ~ x4
    <2>0. DOMAIN t = 1..4
        BY <1>4
    <2>1. Passes(t) <=> /\ ~ t[1].fails /\ ~ t[2].fails /\ ~ t[3].fails /\ ~ t[4].fails
        BY <2>0, <1>5 DEF Passes
    <2>2. QED
        BY <1>4, <2>1, Zenon
<1>7. (Refuses(t, "improvement") => x2) /\ (Refuses(t, "regression") => x3)
    BY <1>4, <1>5 DEF Refuses
<1>8. (~ x4 <=> I6Knows(b)) /\ (~ x1 <=> ~ Increase(b.compile, c.compile) > 300)
    BY DEF x1, x4
<1>9. QED
    BY <1>4, <1>6, <1>7, <1>8 DEF t, x2, x3

\* What an I7 campaign asks besides its limits on time, and what its gate refuses.
I7Conforms(b, c) ==
    /\ b.revision = c.revision /\ b.mode = "off" /\ c.mode = "on"
    /\ TookAllStarts(b) /\ TookExpectedPath(c)
    /\ c.retained <= MaxRetained /\ c.bitmap <= BitmapLimit(c)
    /\ c.path = "literal-prefilter" \/ c.bitmap = 0
    /\ b.gate \in { "positive-10-percent-and-2-ms", "guard-3-percent-and-1-ms" }

I7WutheringConforms(b, c) ==
    /\ b.revision = c.revision /\ b.workers = 1 /\ c.workers = 1
    /\ b.warmups >= 3 /\ b.samples >= 7 /\ b.patterns \in { 1000, 5000, 10000 }
    /\ b.diagnosed /\ c.diagnosed
    /\ TookAllStarts(b) /\ c.path = "literal-prefilter" /\ c.bypass = "none"
    /\ c.retained <= MaxRetained /\ c.bitmap <= BitmapLimit(c)

TooLittle(b, c) == Decrease(b.scan, c.scan) < 1000 \/ Excess(b.scan, c.scan) < 200
TooSlow(b, c) == Increase(b.scan, c.scan) > 300 /\ Excess(c.scan, b.scan) > 100
CompilesTooLong(b, c) == Excess(c.compile, b.compile) > 2500

LEMMA GuardsAre ==
    \A b, c : /\ PositiveGate(b, c) = Check("improvement", TooLittle(b, c))
              /\ GuardGate(b, c) = Check("regression", TooSlow(b, c))
              /\ CompileGuard(b, c) = Check("compile", CompilesTooLong(b, c))
BY DEF PositiveGate, TooLittle, GuardGate, TooSlow, CompileGuard, CompilesTooLong

LEMMA LimitsAreNumbers ==
    ASSUME NEW c \in Receipts
    PROVE  c.retained \in Nat /\ c.bitmap \in Nat /\ MaxRetained \in Nat /\ BitmapLimit(c) \in Nat
<1>1. c.units \in Nat /\ c.retained \in Nat /\ c.bitmap \in Nat
    BY DEF Receipts
<1>2. QED
    BY <1>1 DEF BitmapLimit, MaxRetained

LEMMA I7Means ==
    ASSUME NEW b, NEW c \in Receipts
    PROVE  LET little == b.gate = "positive-10-percent-and-2-ms" /\ TooLittle(b, c)
               slow == b.gate = "guard-3-percent-and-1-ms" /\ TooSlow(b, c)
           IN  /\ I7Limits(b, c) \in Seq(Checks)
               /\ Passes(I7Limits(b, c)) <=>
                     I7Conforms(b, c) /\ ~ little /\ ~ slow /\ ~ CompilesTooLong(b, c)
               /\ Refuses(I7Limits(b, c), "improvement") => little
               /\ Refuses(I7Limits(b, c), "regression") => slow
<1> DEFINE positive == b.gate = "positive-10-percent-and-2-ms"
           guard == b.gate = "guard-3-percent-and-1-ms"
           x1 == b.revision # c.revision
           x2 == b.mode # "off" \/ c.mode # "on"
           x3 == ~ TookAllStarts(b)
           x4 == ~ TookExpectedPath(c)
           x5 == c.retained > MaxRetained \/ c.bitmap > BitmapLimit(c)
           x6 == c.path # "literal-prefilter" /\ c.bitmap # 0
           x7 == IF positive THEN TooLittle(b, c) ELSE IF guard THEN TooSlow(b, c) ELSE TRUE
           r7 == IF positive THEN "improvement" ELSE IF guard THEN "regression" ELSE "gate"
           x8 == CompilesTooLong(b, c)
           k1 == Check("revision", x1)
           k2 == Check("mode", x2)
           k3 == Check("baseline path", x3)
           k4 == Check("path", x4)
           k5 == Check("resources", x5)
           k6 == Check("resources", x6)
           k7 == Check(r7, x7)
           k8 == Check("compile", x8)
           t == I7Limits(b, c)
<1>0. k7 = CASE b.gate = "positive-10-percent-and-2-ms" -> PositiveGate(b, c)
             [] b.gate = "guard-3-percent-and-1-ms" -> GuardGate(b, c)
             [] OTHER -> Check("gate", TRUE)
    <2>1. CASE positive
        BY <2>1, GuardsAre, Zenon
    <2>2. CASE ~ positive /\ guard
        BY <2>2, GuardsAre, Zenon
    <2>3. CASE ~ positive /\ ~ guard
        BY <2>3, Zenon
    <2>4. QED
        BY <2>1, <2>2, <2>3
<1>1. t = << k1, k2, k3, k4, k5, k6, k7, k8 >>
    BY <1>0, GuardsAre, Zenon DEF I7Limits, OneRevision, Retained
<1>2. /\ x1 \in BOOLEAN /\ x2 \in BOOLEAN /\ x3 \in BOOLEAN /\ x4 \in BOOLEAN
      /\ x5 \in BOOLEAN /\ x6 \in BOOLEAN /\ x7 \in BOOLEAN /\ x8 \in BOOLEAN
    <2>1. x7 \in BOOLEAN
        BY Zenon DEF x7, TooLittle, TooSlow
    <2>2. x1 \in BOOLEAN /\ x2 \in BOOLEAN /\ x3 \in BOOLEAN /\ x4 \in BOOLEAN
        BY DEF x1, x2, x3, x4
    <2>3. x5 \in BOOLEAN /\ x6 \in BOOLEAN
        BY DEF x5, x6
    <2>4. x8 \in BOOLEAN
        BY DEF x8, CompilesTooLong
    <2>5. QED
        BY <2>1, <2>2, <2>3, <2>4
<1> HIDE DEF positive, guard, x1, x2, x3, x4, x5, x6, x7, r7, x8
<1>3. /\ k1 \in Checks /\ k2 \in Checks /\ k3 \in Checks /\ k4 \in Checks /\ k5 \in Checks
      /\ k6 \in Checks /\ k7 \in Checks /\ k8 \in Checks
      /\ k1.reason = "revision" /\ k1.fails = x1
      /\ k2.reason = "mode" /\ k2.fails = x2
      /\ k3.reason = "baseline path" /\ k3.fails = x3
      /\ k4.reason = "path" /\ k4.fails = x4
      /\ k5.reason = "resources" /\ k5.fails = x5
      /\ k6.reason = "resources" /\ k6.fails = x6
      /\ k7.reason = r7 /\ k7.fails = x7
      /\ k8.reason = "compile" /\ k8.fails = x8
    <2>1. /\ "revision" \in Reasons /\ "mode" \in Reasons /\ "baseline path" \in Reasons
          /\ "path" \in Reasons /\ "resources" \in Reasons /\ r7 \in Reasons
          /\ "compile" \in Reasons
        BY DEF Reasons, r7
    <2> HIDE DEF r7
    <2>2. k1 \in Checks /\ k1.reason = "revision" /\ k1.fails = x1
        <3>1. x1 \in BOOLEAN /\ "revision" \in Reasons
            BY <1>2, <2>1, Zenon
        <3>2. QED
            BY <3>1, CheckIs, Zenon
    <2>3. k2 \in Checks /\ k2.reason = "mode" /\ k2.fails = x2
        <3>1. x2 \in BOOLEAN /\ "mode" \in Reasons
            BY <1>2, <2>1, Zenon
        <3>2. QED
            BY <3>1, CheckIs, Zenon
    <2>4. k3 \in Checks /\ k3.reason = "baseline path" /\ k3.fails = x3
        <3>1. x3 \in BOOLEAN /\ "baseline path" \in Reasons
            BY <1>2, <2>1, Zenon
        <3>2. QED
            BY <3>1, CheckIs, Zenon
    <2>5. k4 \in Checks /\ k4.reason = "path" /\ k4.fails = x4
        <3>1. x4 \in BOOLEAN /\ "path" \in Reasons
            BY <1>2, <2>1, Zenon
        <3>2. QED
            BY <3>1, CheckIs, Zenon
    <2>6. k5 \in Checks /\ k5.reason = "resources" /\ k5.fails = x5
        <3>1. x5 \in BOOLEAN /\ "resources" \in Reasons
            BY <1>2, <2>1, Zenon
        <3>2. QED
            BY <3>1, CheckIs, Zenon
    <2>7. k6 \in Checks /\ k6.reason = "resources" /\ k6.fails = x6
        <3>1. x6 \in BOOLEAN /\ "resources" \in Reasons
            BY <1>2, <2>1, Zenon
        <3>2. QED
            BY <3>1, CheckIs, Zenon
    <2>8. k7 \in Checks /\ k7.reason = r7 /\ k7.fails = x7
        <3>1. x7 \in BOOLEAN /\ r7 \in Reasons
            BY <1>2, <2>1, Zenon
        <3>2. QED
            BY <3>1, CheckIs, Zenon
    <2>9. k8 \in Checks /\ k8.reason = "compile" /\ k8.fails = x8
        <3>1. x8 \in BOOLEAN /\ "compile" \in Reasons
            BY <1>2, <2>1, Zenon
        <3>2. QED
            BY <3>1, CheckIs, Zenon
    <2> HIDE DEF k1, k2, k3, k4, k5, k6, k7, k8
    <2>10. QED
        BY <2>2, <2>3, <2>4, <2>5, <2>6, <2>7, <2>8, <2>9, Zenon
<1> HIDE DEF t, k1, k2, k3, k4, k5, k6, k7, k8
<1>4. /\ DOMAIN t = 1..8 /\ t \in Seq(Checks)
      /\ t[1].reason = "revision" /\ t[1].fails = x1
      /\ t[2].reason = "mode" /\ t[2].fails = x2
      /\ t[3].reason = "baseline path" /\ t[3].fails = x3
      /\ t[4].reason = "path" /\ t[4].fails = x4
      /\ t[5].reason = "resources" /\ t[5].fails = x5
      /\ t[6].reason = "resources" /\ t[6].fails = x6 /\ t[7].reason = r7 /\ t[7].fails = x7
      /\ t[8].reason = "compile" /\ t[8].fails = x8
    <2>1. /\ k1 \in Checks /\ k2 \in Checks /\ k3 \in Checks /\ k4 \in Checks /\ k5 \in Checks
          /\ k6 \in Checks /\ k7 \in Checks /\ k8 \in Checks
        BY <1>3, Zenon
    <2>2. /\ DOMAIN t = 1..8 /\ t \in Seq(Checks)
          /\ t[1] = k1 /\ t[2] = k2 /\ t[3] = k3 /\ t[4] = k4 /\ t[5] = k5 /\ t[6] = k6
          /\ t[7] = k7 /\ t[8] = k8
        BY <1>1, <2>1
    <2>3. QED
        BY <1>3, <2>2, Zenon
<1>5. \A i \in 1..8 : i = 1 \/ i = 2 \/ i = 3 \/ i = 4 \/ i = 5 \/ i = 6 \/ i = 7 \/ i = 8
    OBVIOUS
<1>6. Passes(t) <=> /\ ~ x1 /\ ~ x2 /\ ~ x3 /\ ~ x4 /\ ~ x5 /\ ~ x6 /\ ~ x7 /\ ~ x8
    <2>0. DOMAIN t = 1..8
        BY <1>4, Zenon
    <2>1. Passes(t) <=> /\ ~ t[1].fails /\ ~ t[2].fails /\ ~ t[3].fails /\ ~ t[4].fails /\ ~ t[5].fails
                        /\ ~ t[6].fails /\ ~ t[7].fails /\ ~ t[8].fails
        BY <2>0, <1>5 DEF Passes
    <2>2. QED
        BY <1>4, <2>1, Zenon
<1>7. /\ Refuses(t, "improvement") => x7 /\ r7 = "improvement"
      /\ Refuses(t, "regression") => x7 /\ r7 = "regression"
    BY <1>4, <1>5, Zenon DEF Refuses
<1>8. /\ x7 /\ r7 = "improvement" => positive /\ TooLittle(b, c)
      /\ x7 /\ r7 = "regression" => guard /\ TooSlow(b, c)
      /\ ~ x7 <=> /\ (positive \/ guard)
                 /\ ~ (positive /\ TooLittle(b, c)) /\ ~ (guard /\ TooSlow(b, c))
    BY DEF x7, r7, positive, guard
<1>9. ~ x5 <=> c.retained <= MaxRetained /\ c.bitmap <= BitmapLimit(c)
    BY LimitsAreNumbers DEF x5
<1>10. I7Conforms(b, c) <=> /\ ~ x1 /\ ~ x2 /\ ~ x3 /\ ~ x4 /\ ~ x5 /\ ~ x6
                           /\ (positive \/ guard)
    BY <1>9 DEF I7Conforms, x1, x2, x3, x4, x6, positive, guard
<1>11. Passes(t) <=> /\ I7Conforms(b, c) /\ ~ (positive /\ TooLittle(b, c))
                     /\ ~ (guard /\ TooSlow(b, c)) /\ ~ x8
    BY <1>2, <1>6, <1>8, <1>10
<1>12. QED
    BY <1>4, <1>7, <1>8, <1>11, Zenon DEF t, x8, positive, guard

LEMMA I7WutheringMeans ==
    ASSUME NEW b \in Receipts, NEW c \in Receipts
    PROVE  /\ I7WutheringLimits(b, c) \in Seq(Checks)
           /\ Passes(I7WutheringLimits(b, c)) <=>
                 I7WutheringConforms(b, c) /\ ~ TooLittle(b, c) /\ ~ CompilesTooLong(b, c)
           /\ Refuses(I7WutheringLimits(b, c), "improvement") => TooLittle(b, c)
           /\ ~ Refuses(I7WutheringLimits(b, c), "regression")
<1> DEFINE x1 == b.revision # c.revision
           x2 == b.workers # 1 \/ c.workers # 1
           x3 == b.warmups < 3 \/ b.samples < 7
           x4 == b.patterns \notin { 1000, 5000, 10000 }
           x5 == ~ b.diagnosed \/ ~ c.diagnosed
           x6 == ~ TookAllStarts(b)
           x7 == c.path # "literal-prefilter" \/ c.bypass # "none"
           x8 == c.retained > MaxRetained \/ c.bitmap > BitmapLimit(c)
           x9 == TooLittle(b, c)
           x10 == CompilesTooLong(b, c)
           k1 == Check("revision", x1)
           k2 == Check("workers", x2)
           k3 == Check("iterations", x3)
           k4 == Check("campaign", x4)
           k5 == Check("diagnostics", x5)
           k6 == Check("baseline path", x6)
           k7 == Check("path", x7)
           k8 == Check("resources", x8)
           k9 == Check("improvement", x9)
           k10 == Check("compile", x10)
           t == I7WutheringLimits(b, c)
<1>1. t = << k1, k2, k3, k4, k5, k6, k7, k8, k9, k10 >>
    BY GuardsAre, SMT DEF I7WutheringLimits, OneRevision, OneWorker, Retained
<1>2. /\ x1 \in BOOLEAN /\ x2 \in BOOLEAN /\ x3 \in BOOLEAN /\ x4 \in BOOLEAN
      /\ x5 \in BOOLEAN /\ x6 \in BOOLEAN /\ x7 \in BOOLEAN /\ x8 \in BOOLEAN
      /\ x9 \in BOOLEAN /\ x10 \in BOOLEAN
    BY DEF x1, x2, x3, x4, x5, x6, x7, x8, x9, x10, TooLittle, CompilesTooLong
<1> HIDE DEF x1, x2, x3, x4, x5, x6, x7, x8, x9, x10
<1>3. /\ k1 \in Checks /\ k2 \in Checks /\ k3 \in Checks /\ k4 \in Checks /\ k5 \in Checks
      /\ k6 \in Checks /\ k7 \in Checks /\ k8 \in Checks /\ k9 \in Checks /\ k10 \in Checks
      /\ k1.reason = "revision" /\ k1.fails = x1
      /\ k2.reason = "workers" /\ k2.fails = x2
      /\ k3.reason = "iterations" /\ k3.fails = x3
      /\ k4.reason = "campaign" /\ k4.fails = x4
      /\ k5.reason = "diagnostics" /\ k5.fails = x5
      /\ k6.reason = "baseline path" /\ k6.fails = x6
      /\ k7.reason = "path" /\ k7.fails = x7
      /\ k8.reason = "resources" /\ k8.fails = x8
      /\ k9.reason = "improvement" /\ k9.fails = x9
      /\ k10.reason = "compile" /\ k10.fails = x10
    <2>1. /\ "revision" \in Reasons /\ "workers" \in Reasons /\ "iterations" \in Reasons
          /\ "campaign" \in Reasons /\ "diagnostics" \in Reasons
          /\ "baseline path" \in Reasons /\ "path" \in Reasons /\ "resources" \in Reasons
          /\ "improvement" \in Reasons /\ "compile" \in Reasons
        BY DEF Reasons
    <2>2. k1 \in Checks /\ k1.reason = "revision" /\ k1.fails = x1
        <3>1. x1 \in BOOLEAN /\ "revision" \in Reasons
            BY <1>2, <2>1, Zenon
        <3>2. QED
            BY <3>1, CheckIs, Zenon
    <2>3. k2 \in Checks /\ k2.reason = "workers" /\ k2.fails = x2
        <3>1. x2 \in BOOLEAN /\ "workers" \in Reasons
            BY <1>2, <2>1, Zenon
        <3>2. QED
            BY <3>1, CheckIs, Zenon
    <2>4. k3 \in Checks /\ k3.reason = "iterations" /\ k3.fails = x3
        <3>1. x3 \in BOOLEAN /\ "iterations" \in Reasons
            BY <1>2, <2>1, Zenon
        <3>2. QED
            BY <3>1, CheckIs, Zenon
    <2>5. k4 \in Checks /\ k4.reason = "campaign" /\ k4.fails = x4
        <3>1. x4 \in BOOLEAN /\ "campaign" \in Reasons
            BY <1>2, <2>1, Zenon
        <3>2. QED
            BY <3>1, CheckIs, Zenon
    <2>6. k5 \in Checks /\ k5.reason = "diagnostics" /\ k5.fails = x5
        <3>1. x5 \in BOOLEAN /\ "diagnostics" \in Reasons
            BY <1>2, <2>1, Zenon
        <3>2. QED
            BY <3>1, CheckIs, Zenon
    <2>7. k6 \in Checks /\ k6.reason = "baseline path" /\ k6.fails = x6
        <3>1. x6 \in BOOLEAN /\ "baseline path" \in Reasons
            BY <1>2, <2>1, Zenon
        <3>2. QED
            BY <3>1, CheckIs, Zenon
    <2>8. k7 \in Checks /\ k7.reason = "path" /\ k7.fails = x7
        <3>1. x7 \in BOOLEAN /\ "path" \in Reasons
            BY <1>2, <2>1, Zenon
        <3>2. QED
            BY <3>1, CheckIs, Zenon
    <2>9. k8 \in Checks /\ k8.reason = "resources" /\ k8.fails = x8
        <3>1. x8 \in BOOLEAN /\ "resources" \in Reasons
            BY <1>2, <2>1, Zenon
        <3>2. QED
            BY <3>1, CheckIs, Zenon
    <2>10. k9 \in Checks /\ k9.reason = "improvement" /\ k9.fails = x9
        <3>1. x9 \in BOOLEAN /\ "improvement" \in Reasons
            BY <1>2, <2>1, Zenon
        <3>2. QED
            BY <3>1, CheckIs, Zenon
    <2>11. k10 \in Checks /\ k10.reason = "compile" /\ k10.fails = x10
        <3>1. x10 \in BOOLEAN /\ "compile" \in Reasons
            BY <1>2, <2>1, Zenon
        <3>2. QED
            BY <3>1, CheckIs, Zenon
    <2> HIDE DEF k1, k2, k3, k4, k5, k6, k7, k8, k9, k10
    <2>12. QED
        BY <2>2, <2>3, <2>4, <2>5, <2>6, <2>7, <2>8, <2>9, <2>10, <2>11, Zenon
<1> HIDE DEF t, k1, k2, k3, k4, k5, k6, k7, k8, k9, k10
<1>4. /\ DOMAIN t = 1..10 /\ t \in Seq(Checks)
      /\ t[1].reason = "revision" /\ t[1].fails = x1
      /\ t[2].reason = "workers" /\ t[2].fails = x2
      /\ t[3].reason = "iterations" /\ t[3].fails = x3
      /\ t[4].reason = "campaign" /\ t[4].fails = x4
      /\ t[5].reason = "diagnostics" /\ t[5].fails = x5
      /\ t[6].reason = "baseline path" /\ t[6].fails = x6
      /\ t[7].reason = "path" /\ t[7].fails = x7
      /\ t[8].reason = "resources" /\ t[8].fails = x8
      /\ t[9].reason = "improvement" /\ t[9].fails = x9
      /\ t[10].reason = "compile" /\ t[10].fails = x10
    <2>1. /\ k1 \in Checks /\ k2 \in Checks /\ k3 \in Checks /\ k4 \in Checks /\ k5 \in Checks
          /\ k6 \in Checks /\ k7 \in Checks /\ k8 \in Checks /\ k9 \in Checks
          /\ k10 \in Checks
        BY <1>3, Zenon
    <2>2. /\ DOMAIN t = 1..10 /\ t \in Seq(Checks)
          /\ t[1] = k1 /\ t[2] = k2 /\ t[3] = k3 /\ t[4] = k4 /\ t[5] = k5 /\ t[6] = k6
          /\ t[7] = k7 /\ t[8] = k8 /\ t[9] = k9 /\ t[10] = k10
        BY <1>1, <2>1
    <2>3. QED
        BY <1>3, <2>2, Zenon
<1>5. \A i \in 1..10 : i = 1 \/ i = 2 \/ i = 3 \/ i = 4 \/ i = 5 \/ i = 6 \/ i = 7 \/ i = 8
                   \/ i = 9 \/ i = 10
    OBVIOUS
<1>6. Passes(t) <=> /\ ~ x1 /\ ~ x2 /\ ~ x3 /\ ~ x4 /\ ~ x5 /\ ~ x6 /\ ~ x7 /\ ~ x8 /\ ~ x9 /\ ~ x10
    <2>0. DOMAIN t = 1..10
        BY <1>4, Zenon
    <2>1. Passes(t) <=> /\ ~ t[1].fails /\ ~ t[2].fails /\ ~ t[3].fails /\ ~ t[4].fails /\ ~ t[5].fails
                        /\ ~ t[6].fails /\ ~ t[7].fails /\ ~ t[8].fails /\ ~ t[9].fails
                        /\ ~ t[10].fails
        BY <2>0, <1>5 DEF Passes
    <2>2. QED
        BY <1>4, <2>1, Zenon
<1>7. ~ Refuses(t, "regression") /\ (Refuses(t, "improvement") => x9)
    BY <1>4, <1>5, Zenon DEF Refuses
<1>8. /\ ~ x8 <=> c.retained <= MaxRetained /\ c.bitmap <= BitmapLimit(c)
      /\ ~ x3 <=> b.warmups >= 3 /\ b.samples >= 7
    <2>1. b.warmups \in Nat /\ b.samples \in Nat
        BY DEF Receipts
    <2>2. QED
        BY <2>1, LimitsAreNumbers DEF x3, x8
<1>9. I7WutheringConforms(b, c) <=> /\ ~ x1 /\ ~ x2 /\ ~ x3 /\ ~ x4 /\ ~ x5
                                    /\ ~ x6 /\ ~ x7 /\ ~ x8
    BY <1>8 DEF I7WutheringConforms, x1, x2, x4, x5, x6, x7
<1>10. QED
    BY <1>4, <1>6, <1>7, <1>9, Zenon DEF t, x9, x10

-----------------------------------------------------------------------------
(* The verdicts. *)

LEMMA Decides ==
    ASSUME NEW b, NEW c, NEW t \in Seq(Checks)
    PROVE  LET d == Decided(Comparable(b, c) \o t)
           IN  /\ d = "pass" <=> AreComparable(b, c) /\ Passes(t)
               /\ d = "improvement" => AreComparable(b, c) /\ Refuses(t, "improvement")
               /\ d = "regression" => AreComparable(b, c) /\ Refuses(t, "regression")
<1> DEFINE s == Comparable(b, c)
           d == Decided(s \o t)
<1>1. /\ s \in Seq(Checks) /\ (Passes(s) <=> AreComparable(b, c))
      /\ ~ Refuses(s, "improvement") /\ ~ Refuses(s, "regression")
    BY ComparableMeans
<1> HIDE DEF s
<1>2. /\ d = "pass" <=> Passes(s) /\ Passes(t)
      /\ ~ Passes(s) => Refuses(s, d)
      /\ Passes(s) /\ ~ Passes(t) => Refuses(t, d)
    BY <1>1, DecidedByFirst
<1> HIDE DEF d
<1>3. /\ d = "pass" <=> AreComparable(b, c) /\ Passes(t)
      /\ d = "improvement" => AreComparable(b, c) /\ Refuses(t, "improvement")
      /\ d = "regression" => AreComparable(b, c) /\ Refuses(t, "regression")
    BY <1>1, <1>2
<1>4. QED
    BY <1>3 DEF d, s

\* A receipt that is of a command's kind and valid has been timed.
Timed(command, b, c) ==
    b.kind = KindOf(command) /\ c.kind = KindOf(command) /\ AreComparable(b, c)

LEMMA TimedIs ==
    ASSUME NEW b \in Receipts, NEW c \in Receipts, NEW command \in ComparisonCommands,
           Timed(command, b, c)
    PROVE  b.scan \in Nat \ {0} /\ c.scan \in Nat \ {0}
<1>1. b.scan \in Nat /\ c.scan \in Nat
    BY DEF Receipts
<1>2. KindOf(command) \in { "C1", "I6-P1", "I7-P1", "I6-B1" }
    BY DEF KindOf
<1>3. ASSUME NEW r, Valid(r), r.kind \in { "C1", "I6-P1", "I7-P1", "I6-B1" } PROVE r.scan # 0
    <2>1. CASE r.kind = "C1"
        BY <1>3, <2>1 DEF Valid, ValidTripwire
    <2>2. CASE r.kind = "I6-P1"
        BY <1>3, <2>2 DEF Valid, ValidI6
    <2>3. CASE r.kind = "I7-P1"
        BY <1>3, <2>3 DEF Valid, ValidI7, ValidI6
    <2>4. CASE r.kind = "I6-B1"
        BY <1>3, <2>4 DEF Valid, ValidScale, ValidI6
    <2>5. QED
        BY <1>3, <2>1, <2>2, <2>3, <2>4
<1>4. b.scan # 0 /\ c.scan # 0
    BY <1>2, <1>3 DEF Timed, AreComparable
<1>5. QED
    BY <1>1, <1>4

\* What each command admits, and what it refuses for a time.
Little(command, b, c) ==
    \/ command = "compare-i6" /\ I6TooLittle(b, c)
    \/ command = "compare-i7" /\ b.gate = "positive-10-percent-and-2-ms" /\ TooLittle(b, c)
    \/ command = "compare-i7-wuthering" /\ TooLittle(b, c)

Slow(command, b, c) ==
    \/ command = "compare-tripwire" /\ Slowed(b, c, 5000, 10000)
    \/ command = "compare-wuthering-tripwire" /\ Slowed(b, c, 10000, 5000)
    \/ command = "compare-i6" /\ I6TooSlow(b, c)
    \/ command = "compare-i7" /\ b.gate = "guard-3-percent-and-1-ms" /\ TooSlow(b, c)

Otherwise(command, b, c) ==
    /\ command = "compare-wuthering-tripwire" => b.workers = 1 /\ c.workers = 1
    /\ command = "compare-i6" => ~ Increase(b.compile, c.compile) > 300 /\ I6Knows(b)
    /\ command = "compare-i7" => I7Conforms(b, c) /\ ~ CompilesTooLong(b, c)
    /\ command = "compare-i7-wuthering" => I7WutheringConforms(b, c) /\ ~ CompilesTooLong(b, c)

LEMMA JudgeIs ==
    ASSUME NEW b \in Receipts, NEW c \in Receipts, NEW command \in ComparisonCommands
    PROVE  /\ Judge(command, b, c) = "pass" <=>
                 /\ Timed(command, b, c) /\ Otherwise(command, b, c)
                 /\ ~ Little(command, b, c) /\ ~ Slow(command, b, c)
           /\ Judge(command, b, c) = "improvement" => Timed(command, b, c) /\ Little(command, b, c)
           /\ Judge(command, b, c) = "regression" => Timed(command, b, c) /\ Slow(command, b, c)
<1> DEFINE j == Judge(command, b, c)
           kinds == b.kind = KindOf(command) /\ c.kind = KindOf(command)
<1>1. CASE ~ kinds
    <2>1. j = "unreadable"
        BY <1>1 DEF Judge
    <2>2. ~ Timed(command, b, c)
        BY <1>1 DEF Timed
    <2>3. QED
        BY <2>1, <2>2
<1>2. CASE kinds
    <2>1. ASSUME NEW t \in Seq(Checks), j = Decided(Comparable(b, c) \o t),
                 Passes(t) <=> /\ Otherwise(command, b, c)
                               /\ ~ Little(command, b, c) /\ ~ Slow(command, b, c),
                 Refuses(t, "improvement") => Little(command, b, c),
                 Refuses(t, "regression") => Slow(command, b, c)
          PROVE  /\ j = "pass" <=> /\ Timed(command, b, c) /\ Otherwise(command, b, c)
                                   /\ ~ Little(command, b, c) /\ ~ Slow(command, b, c)
                 /\ j = "improvement" => Timed(command, b, c) /\ Little(command, b, c)
                 /\ j = "regression" => Timed(command, b, c) /\ Slow(command, b, c)
        <3>1. AreComparable(b, c) <=> Timed(command, b, c)
            BY <1>2 DEF Timed
        <3>2. /\ j = "pass" <=> AreComparable(b, c) /\ Passes(t)
              /\ j = "improvement" => AreComparable(b, c) /\ Refuses(t, "improvement")
              /\ j = "regression" => AreComparable(b, c) /\ Refuses(t, "regression")
            BY <2>1, Decides
        <3> HIDE DEF j
        <3>3. QED
            BY <2>1, <3>1, <3>2
    <2>2. CASE command = "compare-tripwire"
        <3>1. j = Decided(Comparable(b, c) \o TripwireLimits(b, c))
            BY <1>2, <2>2 DEF Judge
        <3>2. /\ Otherwise(command, b, c) /\ ~ Little(command, b, c)
              /\ Slow(command, b, c) <=> Slowed(b, c, 5000, 10000)
            BY <2>2 DEF Otherwise, Little, Slow
        <3> HIDE DEF j
        <3>3. QED
            BY <2>1, <3>1, <3>2, TripwireMeans DEF j
    <2>3. CASE command = "compare-wuthering-tripwire"
        <3>1. j = Decided(Comparable(b, c) \o WutheringTripwireLimits(b, c))
            BY <1>2, <2>3 DEF Judge
        <3>2. /\ Otherwise(command, b, c) <=> b.workers = 1 /\ c.workers = 1
              /\ ~ Little(command, b, c)
              /\ Slow(command, b, c) <=> Slowed(b, c, 10000, 5000)
            BY <2>3 DEF Otherwise, Little, Slow
        <3> HIDE DEF j
        <3>3. QED
            BY <2>1, <3>1, <3>2, WutheringTripwireMeans DEF j
    <2>4. CASE command = "compare-i6"
        <3>1. j = Decided(Comparable(b, c) \o I6Limits(b, c))
            BY <1>2, <2>4 DEF Judge
        <3>2. /\ Otherwise(command, b, c) <=> ~ Increase(b.compile, c.compile) > 300 /\ I6Knows(b)
              /\ Little(command, b, c) <=> I6TooLittle(b, c)
              /\ Slow(command, b, c) <=> I6TooSlow(b, c)
            BY <2>4 DEF Otherwise, Little, Slow
        <3> HIDE DEF j
        <3>3. QED
            BY <2>1, <3>1, <3>2, I6Means DEF j
    <2>5. CASE command = "compare-i7"
        <3>1. j = Decided(Comparable(b, c) \o I7Limits(b, c))
            BY <1>2, <2>5 DEF Judge
        <3>2. /\ Otherwise(command, b, c) <=> I7Conforms(b, c) /\ ~ CompilesTooLong(b, c)
              /\ Little(command, b, c) <=>
                    b.gate = "positive-10-percent-and-2-ms" /\ TooLittle(b, c)
              /\ Slow(command, b, c) <=> b.gate = "guard-3-percent-and-1-ms" /\ TooSlow(b, c)
            BY <2>5 DEF Otherwise, Little, Slow
        <3> HIDE DEF j
        <3>3. QED
            BY <2>1, <3>1, <3>2, I7Means DEF j
    <2>6. CASE command = "compare-i7-wuthering"
        <3>1. j = Decided(Comparable(b, c) \o I7WutheringLimits(b, c))
            BY <1>2, <2>6 DEF Judge
        <3>2. /\ Otherwise(command, b, c) <=>
                    I7WutheringConforms(b, c) /\ ~ CompilesTooLong(b, c)
              /\ Little(command, b, c) <=> TooLittle(b, c)
              /\ ~ Slow(command, b, c)
            BY <2>6 DEF Otherwise, Little, Slow
        <3> HIDE DEF j
        <3>3. QED
            BY <2>1, <3>1, <3>2, I7WutheringMeans DEF j
    <2>7. QED
        BY <2>2, <2>3, <2>4, <2>5, <2>6 DEF ComparisonCommands
<1>3. QED
    BY <1>1, <1>2

\* The limits on a time, as fractions.
LEMMA TimesDecide ==
    ASSUME NEW b, NEW c, b.scan \in Nat \ {0}, c.scan \in Nat
    PROVE  /\ Slowed(b, c, 5000, 10000) <=>
                 Slower(50, b.scan, c.scan) /\ c.scan - b.scan >= 10000
           /\ Slowed(b, c, 10000, 5000) <=>
                 Slower(100, b.scan, c.scan) /\ c.scan - b.scan >= 5000
           /\ TooLittle(b, c) <=> ~ Quicker(10, b.scan, c.scan) \/ b.scan - c.scan < 200
           /\ TooSlow(b, c) <=> Slower(3, b.scan, c.scan) /\ c.scan - b.scan > 100
           /\ I6TooLittle(b, c) <=>
                 b.gate = "improvement-5-percent" /\ ~ Quicker(5, b.scan, c.scan)
           /\ I6TooSlow(b, c) <=>
                 b.gate = "non-regression-3-percent" /\ Slower(3, b.scan, c.scan)
<1> DEFINE x == b.scan
           y == c.scan
<1>1. /\ Slowdown(x, y) > 5000 <=> Slower(50, x, y)
      /\ Slowdown(x, y) > 10000 <=> Slower(100, x, y)
      /\ Decrease(x, y) < 500 <=> ~ Quicker(5, x, y)
      /\ Decrease(x, y) < 1000 <=> ~ Quicker(10, x, y)
      /\ Increase(x, y) > 300 <=> Slower(3, x, y)
    BY SlowdownDecides, DecreaseDecides, IncreaseDecides
<1>2. /\ Excess(y, x) >= 10000 <=> y - x >= 10000
      /\ Excess(y, x) >= 5000 <=> y - x >= 5000
      /\ Excess(y, x) > 100 <=> y - x > 100
      /\ Excess(x, y) < 200 <=> x - y < 200
    BY DEF Excess
<1>3. /\ Slowed(b, c, 5000, 10000) <=> Slowdown(x, y) > 5000 /\ Excess(y, x) >= 10000
      /\ Slowed(b, c, 10000, 5000) <=> Slowdown(x, y) > 10000 /\ Excess(y, x) >= 5000
      /\ TooLittle(b, c) <=> Decrease(x, y) < 1000 \/ Excess(x, y) < 200
      /\ TooSlow(b, c) <=> Increase(x, y) > 300 /\ Excess(y, x) > 100
      /\ I6TooLittle(b, c) <=> b.gate = "improvement-5-percent" /\ Decrease(x, y) < 500
      /\ I6TooSlow(b, c) <=> b.gate = "non-regression-3-percent" /\ Increase(x, y) > 300
    BY DEF Slowed, TooLittle, TooSlow, I6TooLittle, I6TooSlow
<1>4. QED
    BY <1>1, <1>2, <1>3

-----------------------------------------------------------------------------
(* What the verdicts mean. *)

Gate6 == { "improvement-5-percent", "non-regression-3-percent" }
Gate7 == { "positive-10-percent-and-2-ms", "guard-3-percent-and-1-ms" }
CampaignOf(command, b) == IF b.kind \in { "I6-P1", "I7-P1" } THEN b.gate ELSE command

\* A campaign is that of its gate, or of its command where the kind has no gate.
LEMMA CampaignIs ==
    ASSUME NEW b, NEW c, NEW command \in ComparisonCommands, Timed(command, b, c)
    PROVE  CampaignOf(command, b) =
               IF command \in { "compare-i6", "compare-i7" } THEN b.gate ELSE command
<1>1. b.kind = KindOf(command)
    BY DEF Timed
<1>2. KindOf(command) \in { "I6-P1", "I7-P1" } <=> command \in { "compare-i6", "compare-i7" }
    BY DEF KindOf, ComparisonCommands
<1>3. QED
    BY <1>1, <1>2, Zenon DEF CampaignOf

LEMMA AdmittedIsWithin ==
    ASSUME NEW b \in Receipts, NEW c \in Receipts, NEW command \in ComparisonCommands,
           Judge(command, b, c) = "pass",
           NEW ruling, ruling = CampaignOf(command, b)
    PROVE  /\ Identity(b) = Identity(c) /\ b.runner = c.runner
           /\ ruling \in Gate6 \cup Gate7 \cup
                 { "compare-i7-wuthering", "compare-tripwire", "compare-wuthering-tripwire" }
           /\ ruling = "improvement-5-percent" => Quicker(5, b.scan, c.scan)
           /\ ruling = "non-regression-3-percent" => ~ Slower(3, b.scan, c.scan)
           /\ ruling \in { "positive-10-percent-and-2-ms", "compare-i7-wuthering" } =>
                 Quicker(10, b.scan, c.scan) /\ b.scan - c.scan >= 200
           /\ ruling = "guard-3-percent-and-1-ms" =>
                 ~ Slower(3, b.scan, c.scan) \/ c.scan - b.scan <= 100
           /\ ruling = "compare-tripwire" =>
                 ~ Slower(50, b.scan, c.scan) \/ c.scan - b.scan < 10000
           /\ ruling = "compare-wuthering-tripwire" =>
                 ~ Slower(100, b.scan, c.scan) \/ c.scan - b.scan < 5000
<1>1. /\ Timed(command, b, c) /\ Otherwise(command, b, c)
      /\ ~ Little(command, b, c) /\ ~ Slow(command, b, c)
    BY JudgeIs
<1>2. b.scan \in Nat \ {0} /\ c.scan \in Nat \ {0}
    BY <1>1, TimedIs
<1>3. Identity(b) = Identity(c) /\ b.runner = c.runner
    BY <1>1 DEF Timed, AreComparable
<1>4. ruling = IF command \in { "compare-i6", "compare-i7" } THEN b.gate ELSE command
    BY <1>1, CampaignIs, Zenon
<1>5. CASE command = "compare-tripwire"
    <2>1. ~ Slowed(b, c, 5000, 10000)
        BY <1>1, <1>5 DEF Slow
    <2>2. ~ (Slower(50, b.scan, c.scan) /\ c.scan - b.scan >= 10000)
        BY <1>2, <2>1, TimesDecide
    <2>3. QED
        BY <1>2, <1>3, <1>4, <1>5, <2>2
<1>6. CASE command = "compare-wuthering-tripwire"
    <2>1. ~ Slowed(b, c, 10000, 5000)
        BY <1>1, <1>6 DEF Slow
    <2>2. ~ (Slower(100, b.scan, c.scan) /\ c.scan - b.scan >= 5000)
        BY <1>2, <2>1, TimesDecide
    <2>3. QED
        BY <1>2, <1>3, <1>4, <1>6, <2>2
<1>7. CASE command = "compare-i6"
    <2>1. /\ b.gate \in Gate6 /\ ruling = b.gate
          /\ ~ I6TooLittle(b, c) /\ ~ I6TooSlow(b, c)
        BY <1>1, <1>4, <1>7 DEF Slow, Little, Otherwise, I6Knows, Gate6
    <2>2. /\ b.gate = "improvement-5-percent" => Quicker(5, b.scan, c.scan)
          /\ b.gate = "non-regression-3-percent" => ~ Slower(3, b.scan, c.scan)
        BY <1>2, <2>1, TimesDecide
    <2>3. QED
        BY <1>3, <2>1, <2>2 DEF Gate6
<1>8. CASE command = "compare-i7"
    <2>1. /\ b.gate \in Gate7 /\ ruling = b.gate
          /\ b.gate = "positive-10-percent-and-2-ms" => ~ TooLittle(b, c)
          /\ b.gate = "guard-3-percent-and-1-ms" => ~ TooSlow(b, c)
        BY <1>1, <1>4, <1>8 DEF Slow, Little, Otherwise, I7Conforms, Gate7
    <2>2. /\ b.gate = "positive-10-percent-and-2-ms" =>
                Quicker(10, b.scan, c.scan) /\ b.scan - c.scan >= 200
          /\ b.gate = "guard-3-percent-and-1-ms" =>
                ~ Slower(3, b.scan, c.scan) \/ c.scan - b.scan <= 100
        BY <1>2, <2>1, TimesDecide
    <2>3. QED
        BY <1>3, <2>1, <2>2 DEF Gate7
<1>9. CASE command = "compare-i7-wuthering"
    <2>1. ~ TooLittle(b, c)
        BY <1>1, <1>9 DEF Little
    <2>2. Quicker(10, b.scan, c.scan) /\ b.scan - c.scan >= 200
        BY <1>2, <2>1, TimesDecide
    <2>3. QED
        BY <1>2, <1>3, <1>4, <1>9, <2>2
<1>10. QED
    BY <1>5, <1>6, <1>7, <1>8, <1>9 DEF ComparisonCommands

LEMMA RefusedIsBeyond ==
    ASSUME NEW b \in Receipts, NEW c \in Receipts, NEW command \in ComparisonCommands,
           NEW ruling, ruling = CampaignOf(command, b)
    PROVE  /\ Judge(command, b, c) = "improvement" =>
                 IF ruling = "improvement-5-percent" THEN ~ Quicker(5, b.scan, c.scan)
                 ELSE ~ Quicker(10, b.scan, c.scan) \/ b.scan - c.scan < 200
           /\ Judge(command, b, c) = "regression" =>
                 IF ruling = "compare-tripwire" THEN Slower(50, b.scan, c.scan)
                 ELSE IF ruling = "compare-wuthering-tripwire" THEN Slower(100, b.scan, c.scan)
                 ELSE Slower(3, b.scan, c.scan)
<1>1. ASSUME Judge(command, b, c) = "improvement"
      PROVE  IF ruling = "improvement-5-percent" THEN ~ Quicker(5, b.scan, c.scan)
             ELSE ~ Quicker(10, b.scan, c.scan) \/ b.scan - c.scan < 200
    <2>1. Timed(command, b, c) /\ Little(command, b, c)
        BY <1>1, JudgeIs
    <2>2. b.scan \in Nat \ {0} /\ c.scan \in Nat \ {0}
        BY <2>1, TimedIs
    <2>3. ruling = IF command \in { "compare-i6", "compare-i7" } THEN b.gate ELSE command
        BY <2>1, CampaignIs, Zenon
    <2>4. CASE command = "compare-i6" /\ I6TooLittle(b, c)
        <3>1. b.gate = "improvement-5-percent" /\ ~ Quicker(5, b.scan, c.scan)
            BY <2>2, <2>4, TimesDecide
        <3>2. QED
            BY <2>3, <2>4, <3>1
    <2>5. CASE /\ \/ command = "compare-i7" /\ b.gate = "positive-10-percent-and-2-ms"
                  \/ command = "compare-i7-wuthering"
               /\ TooLittle(b, c)
        <3>1. ~ Quicker(10, b.scan, c.scan) \/ b.scan - c.scan < 200
            BY <2>2, <2>5, TimesDecide
        <3>2. ruling # "improvement-5-percent"
            BY <2>3, <2>5
        <3>3. QED
            BY <3>1, <3>2
    <2>6. QED
        BY <2>1, <2>4, <2>5 DEF Little
<1>2. ASSUME Judge(command, b, c) = "regression"
      PROVE  IF ruling = "compare-tripwire" THEN Slower(50, b.scan, c.scan)
             ELSE IF ruling = "compare-wuthering-tripwire" THEN Slower(100, b.scan, c.scan)
             ELSE Slower(3, b.scan, c.scan)
    <2>1. Timed(command, b, c) /\ Slow(command, b, c)
        BY <1>2, JudgeIs
    <2>2. b.scan \in Nat \ {0} /\ c.scan \in Nat \ {0}
        BY <2>1, TimedIs
    <2>3. ruling = IF command \in { "compare-i6", "compare-i7" } THEN b.gate ELSE command
        BY <2>1, CampaignIs, Zenon
    <2>4. CASE command = "compare-tripwire" /\ Slowed(b, c, 5000, 10000)
        <3>1. Slower(50, b.scan, c.scan)
            BY <2>2, <2>4, TimesDecide
        <3>2. ruling = "compare-tripwire"
            BY <2>3, <2>4
        <3>3. QED
            BY <3>1, <3>2
    <2>5. CASE command = "compare-wuthering-tripwire" /\ Slowed(b, c, 10000, 5000)
        <3>1. Slower(100, b.scan, c.scan)
            BY <2>2, <2>5, TimesDecide
        <3>2. ruling = "compare-wuthering-tripwire"
            BY <2>3, <2>5
        <3>3. QED
            BY <3>1, <3>2
    <2>6. CASE command = "compare-i6" /\ I6TooSlow(b, c)
        <3>1. b.gate = "non-regression-3-percent" /\ Slower(3, b.scan, c.scan)
            BY <2>2, <2>6, TimesDecide
        <3>2. ruling = "non-regression-3-percent"
            BY <2>3, <2>6, <3>1
        <3>3. QED
            BY <3>1, <3>2
    <2>7. CASE command = "compare-i7" /\ b.gate = "guard-3-percent-and-1-ms" /\ TooSlow(b, c)
        <3>1. Slower(3, b.scan, c.scan)
            BY <2>2, <2>7, TimesDecide
        <3>2. ruling = "guard-3-percent-and-1-ms"
            BY <2>3, <2>7
        <3>3. QED
            BY <3>1, <3>2
    <2>8. QED
        BY <2>1, <2>4, <2>5, <2>6, <2>7 DEF Slow
<1>3. QED
    BY <1>1, <1>2

\* A receipt with another scan time says the same of everything else.
LEMMA Retimed ==
    ASSUME NEW r \in Receipts, NEW n \in Nat \ {0}, NEW s, s = [r EXCEPT !.scan = n]
    PROVE  /\ s \in Receipts /\ s.scan = n
           /\ s.kind = r.kind /\ s.sound = r.sound /\ s.fixture = r.fixture
           /\ s.runner = r.runner /\ s.revision = r.revision /\ s.gate = r.gate
           /\ s.expected_path = r.expected_path /\ s.mode = r.mode /\ s.workers = r.workers
           /\ s.warmups = r.warmups /\ s.samples = r.samples /\ s.patterns = r.patterns
           /\ s.corpus = r.corpus /\ s.units = r.units /\ s.compile = r.compile
           /\ s.diagnosed = r.diagnosed /\ s.path = r.path /\ s.bypass = r.bypass
           /\ s.retained = r.retained /\ s.bitmap = r.bitmap
BY DEF Receipts

LEMMA RetimedIsAlike ==
    ASSUME NEW r \in Receipts, NEW n \in Nat \ {0}, NEW s, s = [r EXCEPT !.scan = n]
    PROVE  /\ r.kind \in { "C1", "I6-P1", "I7-P1", "I6-B1" } /\ Valid(r) => Valid(s)
           /\ Identity(s) = Identity(r)
           /\ TookAllStarts(s) = TookAllStarts(r) /\ TookExpectedPath(s) = TookExpectedPath(r)
           /\ BitmapLimit(s) = BitmapLimit(r)
<1>1. /\ s.scan = n /\ n # 0
      /\ s.kind = r.kind /\ s.sound = r.sound /\ s.fixture = r.fixture
      /\ s.gate = r.gate /\ s.expected_path = r.expected_path /\ s.workers = r.workers
      /\ s.warmups = r.warmups /\ s.samples = r.samples /\ s.patterns = r.patterns
      /\ s.corpus = r.corpus /\ s.units = r.units /\ s.compile = r.compile
      /\ s.path = r.path /\ s.bypass = r.bypass
    BY Retimed
<1>2. TookAllStarts(s) = TookAllStarts(r) /\ TookExpectedPath(s) = TookExpectedPath(r)
    BY <1>1 DEF TookAllStarts, TookExpectedPath
<1>3. BitmapLimit(s) = BitmapLimit(r)
    BY <1>1 DEF BitmapLimit
<1>4. Identity(s) = Identity(r)
    <2>1. /\ IdentityTripwire(s) = IdentityTripwire(r) /\ IdentityScale(s) = IdentityScale(r)
        BY <1>1, Zenon DEF IdentityTripwire, IdentityScale
    <2>2. IdentityI6(s) = IdentityI6(r) /\ IdentityI7(s) = IdentityI7(r)
        BY <1>1, <2>1, Zenon DEF IdentityI6, IdentityI7
    <2>3. QED
        BY <1>1, <2>1, <2>2, Zenon DEF Identity
<1>5. ASSUME r.kind \in { "C1", "I6-P1", "I7-P1", "I6-B1" }, Valid(r) PROVE Valid(s)
    <2>1. CASE r.kind = "C1"
        BY <1>1, <1>5, <2>1 DEF Valid, ValidTripwire
    <2>2. CASE r.kind = "I6-P1"
        BY <1>1, <1>5, <2>2 DEF Valid, ValidI6
    <2>3. CASE r.kind = "I7-P1"
        BY <1>1, <1>5, <2>3 DEF Valid, ValidI7, ValidI6
    <2>4. CASE r.kind = "I6-B1"
        BY <1>1, <1>5, <2>4 DEF Valid, ValidScale, ValidI6
    <2>5. QED
        BY <1>5, <2>1, <2>2, <2>3, <2>4
<1>6. QED
    BY <1>2, <1>3, <1>4, <1>5

\* Receipts that differ from a pair only in their times meet what else the pair meets.
LEMMA RetimedConforms ==
    ASSUME NEW b \in Receipts, NEW c \in Receipts, NEW command \in ComparisonCommands,
           NEW m \in Nat \ {0}, NEW n \in Nat \ {0},
           NEW x, x = [b EXCEPT !.scan = m], NEW y, y = [c EXCEPT !.scan = n],
           Timed(command, b, c), Otherwise(command, b, c)
    PROVE  Timed(command, x, y) /\ Otherwise(command, x, y)
<1>1. /\ x.kind = b.kind /\ x.runner = b.runner /\ x.revision = b.revision
      /\ x.gate = b.gate /\ x.mode = b.mode /\ x.workers = b.workers /\ x.warmups = b.warmups
      /\ x.samples = b.samples /\ x.patterns = b.patterns /\ x.compile = b.compile
      /\ x.diagnosed = b.diagnosed
    BY Retimed
<1>2. /\ y.kind = c.kind /\ y.runner = c.runner /\ y.revision = c.revision
      /\ y.mode = c.mode /\ y.workers = c.workers /\ y.compile = c.compile
      /\ y.diagnosed = c.diagnosed /\ y.path = c.path /\ y.bypass = c.bypass
      /\ y.retained = c.retained /\ y.bitmap = c.bitmap
    BY Retimed
<1>3. /\ b.kind \in { "C1", "I6-P1", "I7-P1", "I6-B1" } /\ Valid(b) => Valid(x)
      /\ Identity(x) = Identity(b) /\ TookAllStarts(x) = TookAllStarts(b)
    BY RetimedIsAlike, Zenon
<1>4. /\ c.kind \in { "C1", "I6-P1", "I7-P1", "I6-B1" } /\ Valid(c) => Valid(y)
      /\ Identity(y) = Identity(c)
      /\ TookExpectedPath(y) = TookExpectedPath(c) /\ BitmapLimit(y) = BitmapLimit(c)
    BY RetimedIsAlike, Zenon
<1>5. Timed(command, x, y)
    <2>1. KindOf(command) \in { "C1", "I6-P1", "I7-P1", "I6-B1" }
        BY DEF KindOf
    <2>2. QED
        BY <1>1, <1>2, <1>3, <1>4, <2>1 DEF Timed, AreComparable
<1>6. command = "compare-wuthering-tripwire" => x.workers = 1 /\ y.workers = 1
    BY <1>1, <1>2 DEF Otherwise
<1>7. command = "compare-i6" => ~ Increase(x.compile, y.compile) > 300 /\ I6Knows(x)
    <2>1. command = "compare-i6" => ~ Increase(b.compile, c.compile) > 300 /\ I6Knows(b)
        BY DEF Otherwise
    <2>2. QED
        BY <1>1, <1>2, <2>1, Zenon DEF I6Knows
<1>8. CompilesTooLong(x, y) = CompilesTooLong(b, c)
    BY <1>1, <1>2 DEF CompilesTooLong
<1>9. command = "compare-i7" => I7Conforms(x, y)
    <2>1. command = "compare-i7" => I7Conforms(b, c)
        BY DEF Otherwise
    <2>2. I7Conforms(b, c) => I7Conforms(x, y)
        BY <1>1, <1>2, <1>3, <1>4 DEF I7Conforms
    <2>3. QED
        BY <2>1, <2>2
<1>10. command = "compare-i7-wuthering" => I7WutheringConforms(x, y)
    <2>1. command = "compare-i7-wuthering" => I7WutheringConforms(b, c)
        BY DEF Otherwise
    <2>2. I7WutheringConforms(b, c) => I7WutheringConforms(x, y)
        BY <1>1, <1>2, <1>3, <1>4 DEF I7WutheringConforms
    <2>3. QED
        BY <2>1, <2>2
<1>11. QED
    <2>1. command \in {"compare-i7", "compare-i7-wuthering"} => ~ CompilesTooLong(b, c)
        BY DEF Otherwise
    <2>2. QED
        BY <1>5, <1>6, <1>7, <1>8, <1>9, <1>10, <2>1 DEF Otherwise

\* The limits on a time are monotone in both times.
LEMMA TimesAreMonotone ==
    ASSUME NEW b, NEW c, NEW x, NEW y,
           b.scan \in Nat \ {0}, c.scan \in Nat, x.scan \in Nat \ {0}, y.scan \in Nat,
           x.scan >= b.scan, y.scan <= c.scan, x.gate = b.gate
    PROVE  /\ TooLittle(x, y) => TooLittle(b, c)
           /\ TooSlow(x, y) => TooSlow(b, c)
           /\ I6TooLittle(x, y) => I6TooLittle(b, c)
           /\ I6TooSlow(x, y) => I6TooSlow(b, c)
           /\ Slowed(x, y, 5000, 10000) => Slowed(b, c, 5000, 10000)
           /\ Slowed(x, y, 10000, 5000) => Slowed(b, c, 10000, 5000)
<1>1. /\ Quicker(5, b.scan, c.scan) => Quicker(5, x.scan, y.scan)
      /\ Quicker(10, b.scan, c.scan) => Quicker(10, x.scan, y.scan)
      /\ Slower(3, x.scan, y.scan) => Slower(3, b.scan, c.scan)
      /\ Slower(50, x.scan, y.scan) => Slower(50, b.scan, c.scan)
      /\ Slower(100, x.scan, y.scan) => Slower(100, b.scan, c.scan)
      /\ x.scan - y.scan < 200 => b.scan - c.scan < 200
      /\ y.scan - x.scan > 100 => c.scan - b.scan > 100
      /\ y.scan - x.scan >= 5000 => c.scan - b.scan >= 5000
      /\ y.scan - x.scan >= 10000 => c.scan - b.scan >= 10000
    BY DEF Quicker, Slower
<1>2. /\ Slowed(x, y, 5000, 10000) => Slower(50, x.scan, y.scan) /\ y.scan - x.scan >= 10000
      /\ Slowed(x, y, 10000, 5000) => Slower(100, x.scan, y.scan) /\ y.scan - x.scan >= 5000
      /\ TooLittle(x, y) => ~ Quicker(10, x.scan, y.scan) \/ x.scan - y.scan < 200
      /\ TooSlow(x, y) => Slower(3, x.scan, y.scan) /\ y.scan - x.scan > 100
      /\ I6TooLittle(x, y) =>
            x.gate = "improvement-5-percent" /\ ~ Quicker(5, x.scan, y.scan)
      /\ I6TooSlow(x, y) =>
            x.gate = "non-regression-3-percent" /\ Slower(3, x.scan, y.scan)
    BY TimesDecide
<1>3. /\ Slower(50, b.scan, c.scan) /\ c.scan - b.scan >= 10000 => Slowed(b, c, 5000, 10000)
      /\ Slower(100, b.scan, c.scan) /\ c.scan - b.scan >= 5000 => Slowed(b, c, 10000, 5000)
      /\ ~ Quicker(10, b.scan, c.scan) \/ b.scan - c.scan < 200 => TooLittle(b, c)
      /\ Slower(3, b.scan, c.scan) /\ c.scan - b.scan > 100 => TooSlow(b, c)
      /\ b.gate = "improvement-5-percent" /\ ~ Quicker(5, b.scan, c.scan) =>
            I6TooLittle(b, c)
      /\ b.gate = "non-regression-3-percent" /\ Slower(3, b.scan, c.scan) =>
            I6TooSlow(b, c)
    BY TimesDecide
<1>4. QED
    BY <1>1, <1>2, <1>3

\* A pair that is admitted still is when the candidate is faster or the baseline slower.
LEMMA FasterConforms ==
    ASSUME NEW b \in Receipts, NEW c \in Receipts, NEW x \in Receipts, NEW y \in Receipts,
           NEW command \in ComparisonCommands,
           Judge(command, b, c) = "pass",
           x.scan >= b.scan, y.scan <= c.scan, y.scan # 0, x.gate = b.gate,
           Timed(command, x, y), Otherwise(command, x, y)
    PROVE  Judge(command, x, y) = "pass"
<1>1. Timed(command, b, c) /\ ~ Little(command, b, c) /\ ~ Slow(command, b, c)
    BY JudgeIs
<1>2. /\ b.scan \in Nat \ {0} /\ c.scan \in Nat \ {0}
      /\ x.scan \in Nat \ {0} /\ y.scan \in Nat \ {0}
    BY <1>1, TimedIs
<1>3. /\ TooLittle(x, y) => TooLittle(b, c)
      /\ TooSlow(x, y) => TooSlow(b, c)
      /\ I6TooLittle(x, y) => I6TooLittle(b, c)
      /\ I6TooSlow(x, y) => I6TooSlow(b, c)
      /\ Slowed(x, y, 5000, 10000) => Slowed(b, c, 5000, 10000)
      /\ Slowed(x, y, 10000, 5000) => Slowed(b, c, 10000, 5000)
    BY <1>2, TimesAreMonotone
<1>4. ~ Little(command, x, y)
    BY <1>1, <1>3 DEF Little
<1>5. ~ Slow(command, x, y)
    BY <1>1, <1>3 DEF Slow
<1>6. QED
    BY <1>4, <1>5, JudgeIs

LEMMA FasterIsAdmitted ==
    ASSUME NEW b \in Receipts, NEW c \in Receipts, NEW command \in ComparisonCommands,
           Judge(command, b, c) = "pass",
           NEW m \in Nat, NEW n \in Nat, m >= b.scan, n <= c.scan, n # 0
    PROVE  Judge(command, [b EXCEPT !.scan = m], [c EXCEPT !.scan = n]) = "pass"
<1> DEFINE x == [b EXCEPT !.scan = m]
           y == [c EXCEPT !.scan = n]
<1>1. Timed(command, b, c) /\ Otherwise(command, b, c)
    BY JudgeIs
<1>2. b.scan \in Nat \ {0} /\ c.scan \in Nat \ {0} /\ m \in Nat \ {0} /\ n \in Nat \ {0}
    BY <1>1, TimedIs
<1>3. /\ x \in Receipts /\ x.scan = m /\ x.gate = b.gate
      /\ y \in Receipts /\ y.scan = n
    BY <1>2, Retimed
<1>4. Timed(command, x, y) /\ Otherwise(command, x, y)
    BY <1>1, <1>2, RetimedConforms
<1> HIDE DEF x, y
<1>5. Judge(command, x, y) = "pass"
    BY <1>2, <1>3, <1>4, FasterConforms
<1>6. QED
    BY <1>5 DEF x, y

\* Of two receipts at most one improves on the other.
LEMMA OnlyOneImproves ==
    ASSUME NEW b \in Receipts, NEW c \in Receipts, b.gate = "improvement-5-percent",
           Judge("compare-i6", b, c) = "pass"
    PROVE  Judge("compare-i6", c, b) # "pass"
<1>1. "compare-i6" \in ComparisonCommands
    BY DEF ComparisonCommands
<1>2. Timed("compare-i6", b, c) /\ ~ Little("compare-i6", b, c)
    BY <1>1, JudgeIs
<1>3. b.scan \in Nat \ {0} /\ c.scan \in Nat \ {0}
    BY <1>1, <1>2, TimedIs
<1>4. ~ I6TooLittle(b, c)
    BY <1>2 DEF Little
<1>5. Quicker(5, b.scan, c.scan)
    BY <1>3, <1>4, TimesDecide
<1>6. SUFFICES ASSUME Judge("compare-i6", c, b) = "pass" PROVE FALSE
    OBVIOUS
<1>7. Otherwise("compare-i6", c, b)
      /\ ~ Little("compare-i6", c, b) /\ ~ Slow("compare-i6", c, b)
    BY <1>1, <1>6, JudgeIs
<1>8. I6Knows(c) /\ ~ I6TooLittle(c, b) /\ ~ I6TooSlow(c, b)
    BY <1>7 DEF Otherwise, Little, Slow
<1>9. ~ Quicker(5, c.scan, b.scan) /\ Slower(3, c.scan, b.scan)
    BY <1>3, <1>5, Fractions DEF Quicker
<1>10. I6TooLittle(c, b) \/ I6TooSlow(c, b)
    BY <1>3, <1>8, <1>9, TimesDecide DEF I6Knows
<1>11. QED
    BY <1>8, <1>10

-----------------------------------------------------------------------------
(* The calendar. *)

\* Years begin in March; an era is 400 of them.
YearOf(day) == (day - day \div 1460 + day \div 36524 - day \div 146096) \div 365
YearStart(y) == 365 * y + y \div 4 - y \div 100
EraDays == 146097
EpochDay == 719468
EraYears == 0..399
YearAt(era, y) == y + era * 400
YearEnd(y) == IF y = 399 THEN EraDays ELSE YearStart(y + 1)
YearDays(y) == IF LeapYear(y) THEN 366 ELSE 365
MonthOf(day) == (5 * day + 2) \div 153
MonthStart(m) == (153 * m + 2) \div 5
MonthName(m) == m + IF m < 10 THEN 3 ELSE -9
DateFrom(year, day, m) ==
    << year + (IF MonthName(m) <= 2 THEN 1 ELSE 0), MonthName(m), day - MonthStart(m) + 1 >>
DateOf(year, day) == DateFrom(year, day, MonthOf(day))

\* The day of an era is in one year of it.
LEMMA YearIs ==
    ASSUME NEW day \in Nat, day < EraDays
    PROVE  /\ YearOf(day) \in EraYears
           /\ YearStart(YearOf(day)) <= day /\ day < YearEnd(YearOf(day))
<1> DEFINE p == day \div 1460
           q == day \div 36524
           r == day \div 146096
           y == YearOf(day)
           u == y \div 4
           v == y \div 100
<1>1. /\ day \in Int /\ 0 <= day /\ day <= 146096
      /\ p \in Int /\ 1460 * p <= day /\ day < 1460 * p + 1460
      /\ q \in Int /\ 36524 * q <= day /\ day < 36524 * q + 36524
      /\ r \in Int /\ 146096 * r <= day /\ day < 146096 * r + 146096
    BY SMT DEF EraDays
<1>2. /\ y \in Int /\ 365 * y <= day - p + q - r /\ day - p + q - r < 365 * y + 365
    BY <1>1, SMT DEF YearOf
<1>3. /\ u \in Int /\ 4 * u <= y /\ y < 4 * u + 4
      /\ v \in Int /\ 100 * v <= y /\ y < 100 * v + 100
    BY <1>2, SMT
<1>4. YearStart(y) = 365 * y + u - v
    BY SMT DEF YearStart
<1> HIDE DEF p, q, r, y, u, v
<1>5. y \in EraYears
    BY <1>1, <1>2, SMT DEF EraYears
<1>6. YearStart(y) <= day
    BY <1>1, <1>2, <1>3, <1>4, SMT
<1>7. day < YearEnd(y)
    BY <1>1, <1>2, <1>3, <1>5, SMT DEF YearStart, YearEnd, EraDays, EraYears
<1>8. QED
    BY <1>5, <1>6, <1>7, SMT DEF y

LEMMA YearsFollow ==
    ASSUME NEW y \in EraYears, NEW z \in EraYears, y < z
    PROVE  YearEnd(y) <= YearStart(z)
BY SMT DEF YearStart, YearEnd, EraYears

LEMMA YearIsOnly ==
    ASSUME NEW day \in Nat, day < EraDays, NEW y \in EraYears, YearStart(y) <= day, day < YearEnd(y)
    PROVE  YearOf(day) = y
<1> DEFINE z == YearOf(day)
<1>1. z \in EraYears /\ YearStart(z) <= day /\ day < YearEnd(z)
    BY YearIs
<1>2. YearStart(z) \in Int /\ YearEnd(z) \in Int /\ YearStart(y) \in Int /\ YearEnd(y) \in Int
    BY <1>1, SMT DEF YearStart, YearEnd, EraDays, EraYears
<1> HIDE DEF z
<1>3. /\ z < y => YearEnd(z) <= YearStart(y)
      /\ y < z => YearEnd(y) <= YearStart(z)
    BY <1>1, YearsFollow
<1>4. z = y
    BY <1>1, <1>2, <1>3, SMT DEF EraYears
<1>5. QED
    BY <1>4 DEF z

\* A year has 365 days, or 366 when the February it ends with is a leap year's.
LEMMA YearHas ==
    ASSUME NEW y \in EraYears, NEW era \in Nat
    PROVE  YearEnd(y) = YearStart(y) + YearDays(YearAt(era, y) + 1)
<1> DEFINE z == YearAt(era, y) + 1
<1>1. z % 4 = (y + 1) % 4 /\ z % 100 = (y + 1) % 100 /\ z % 400 = (y + 1) % 400
    BY SMT DEF YearAt, EraYears
<1>2. LeapYear(z) <=> (y + 1) % 4 = 0 /\ ((y + 1) % 100 = 0 => y = 399)
    BY <1>1, SMT DEF LeapYear, EraYears
<1>3. YearEnd(y) = YearStart(y) +
          (IF (y + 1) % 4 = 0 /\ ((y + 1) % 100 = 0 => y = 399) THEN 366 ELSE 365)
    BY SMT DEF YearStart, YearEnd, EraDays, EraYears
<1>4. QED
    BY <1>2, <1>3, SMT DEF YearDays

\* The months from March have 31, 30, 31, 30, 31 days, again and again.
LEMMA MonthIs ==
    ASSUME NEW day \in 0..365
    PROVE  /\ MonthOf(day) \in 0..11
           /\ MonthStart(MonthOf(day)) <= day
           /\ MonthOf(day) < 11 => day < MonthStart(MonthOf(day) + 1)
BY DEF MonthOf, MonthStart

LEMMA MonthIsOnly ==
    ASSUME NEW day \in 0..365, NEW m \in 0..11, MonthStart(m) <= day,
           m < 11 => day < MonthStart(m + 1)
    PROVE  MonthOf(day) = m
BY DEF MonthOf, MonthStart

LEMMA MonthHas ==
    ASSUME NEW m \in 0..10
    PROVE  /\ MonthName(m) # 2
           /\ \A y : MonthStart(m + 1) - MonthStart(m) = DaysIn(y, MonthName(m))
<1>1. m \in {0, 1, 2, 3, 4, 5, 6, 7, 8, 9, 10}
    OBVIOUS
<1>2. MonthName(m) # 2
    BY DEF MonthName
<1>3. MonthStart(m + 1) - MonthStart(m) =
          IF m \in {1, 3, 6, 8} THEN 30 ELSE 31
    BY <1>1 DEF MonthStart
<1>4. MonthName(m) \in {4, 6, 9, 11} <=> m \in {1, 3, 6, 8}
    BY <1>1 DEF MonthName
<1> HIDE DEF MonthName
<1>5. \A y : DaysIn(y, MonthName(m)) = IF m \in {1, 3, 6, 8} THEN 30 ELSE 31
    BY <1>2, <1>4 DEF DaysIn
<1>6. QED
    BY <1>2, <1>3, <1>5

\* A year's first of March, and the day after each day of it.
LEMMA NewYear ==
    ASSUME NEW year \in Nat
    PROVE  DateOf(year, 0) = << year, 3, 1 >>
<1>1. MonthOf(0) = 0 /\ MonthStart(0) = 0 /\ MonthName(0) = 3
    BY SMT DEF MonthOf, MonthStart, MonthName
<1>2. year + (IF 3 <= 2 THEN 1 ELSE 0) = year /\ 0 - 0 + 1 = 1
    BY SMT
<1>3. QED
    BY <1>1, <1>2 DEF DateOf, DateFrom

Civil(year, n) == year + (IF n <= 2 THEN 1 ELSE 0)

LEMMA DateFromIs ==
    ASSUME NEW year, NEW d, NEW m, NEW e, d - MonthStart(m) + 1 = e
    PROVE  DateFrom(year, d, m) = << Civil(year, MonthName(m)), MonthName(m), e >>
<1> DEFINE q == d - MonthStart(m) + 1
<1>1. DateFrom(year, d, m) = << Civil(year, MonthName(m)), MonthName(m), q >>
    BY Zenon DEF DateFrom, Civil
<1> HIDE DEF q
<1>2. q = e
    BY DEF q
<1>3. QED
    BY <1>1, <1>2, Zenon

LEMMA DayOfYear ==
    ASSUME NEW year \in Nat, NEW day \in Nat, day < YearDays(year + 1)
    PROVE  Tomorrow(DateOf(year, day)) =
               IF day + 1 < YearDays(year + 1)
               THEN DateOf(year, day + 1) ELSE DateOf(year + 1, 0)
<1> DEFINE days == YearDays(year + 1)
           m == MonthOf(day)
           n == MonthName(m)
           civil == Civil(year, n)
           date == day - MonthStart(m) + 1
<1>1. DateOf(year, day) = << civil, n, date >>
    BY Zenon DEF DateOf, DateFrom, Civil
<1>2. days \in {365, 366}
    BY DEF YearDays
<1>3. day \in 0..365
    BY <1>2, SMT
<1>4. m \in 0..11 /\ MonthStart(m) <= day /\ (m < 11 => day < MonthStart(m + 1))
    BY <1>3, MonthIs
<1>5. \A d : MonthOf(d) = m => DateOf(year, d) = DateFrom(year, d, m)
    BY Zenon DEF DateOf
<1> HIDE DEF days, m
<1>6. MonthStart(m) \in Nat /\ MonthStart(m + 1) \in Nat /\ n \in 1..12
    BY <1>4, SMT DEF MonthStart, MonthName
<1>7. civil \in Nat /\ date \in Nat
    BY <1>4, <1>6, SMT DEF Civil
<1> HIDE DEF civil, n, date
<1>8. CASE m < 11
    <2>1. n # 2 /\ DaysIn(civil, n) = MonthStart(m + 1) - MonthStart(m)
        BY <1>4, <1>8, MonthHas DEF n
    <2>2. day + 1 <= 337
        BY <1>4, <1>8, SMT DEF MonthStart
    <2>3. day + 1 < days
        BY <1>2, <2>2, SMT
    <2>4. CASE day + 1 < MonthStart(m + 1)
        <3>1. MonthOf(day + 1) = m
            <4>1. day + 1 \in 0..365 /\ MonthStart(m) <= day + 1
                BY <1>4, <1>6, <2>2, SMT
            <4>2. QED
                BY <1>4, <2>4, <4>1, MonthIsOnly
        <3>2. DateOf(year, day + 1) = DateFrom(year, day + 1, m)
            BY <1>5, <3>1, Zenon
        <3>3. date < DaysIn(civil, n) /\ (day + 1) - MonthStart(m) + 1 = date + 1
            BY <1>6, <2>1, <2>4, SMT DEF date
        <3>4. Tomorrow(<< civil, n, date >>) = << civil, n, date + 1 >>
            BY <3>3 DEF Tomorrow
        <3>5. DateFrom(year, day + 1, m) = << civil, n, date + 1 >>
            BY <3>3, DateFromIs DEF civil, n
        <3>6. QED
            BY <1>1, <2>3, <3>2, <3>4, <3>5 DEF days
    <2>5. CASE day + 1 = MonthStart(m + 1)
        <3>1. MonthOf(day + 1) = m + 1
            <4>1. m + 1 \in 0..11 /\ (m + 1 < 11 => day + 1 < MonthStart(m + 1 + 1))
                BY <1>4, <1>8, <2>5, SMT DEF MonthStart
            <4>2. day + 1 \in 0..365 /\ MonthStart(m + 1) <= day + 1
                BY <1>6, <2>2, <2>5, SMT
            <4>3. QED
                BY <4>1, <4>2, MonthIsOnly
        <3> DEFINE next == MonthName(m + 1)
                   later == Civil(year, next)
        <3>2. next = IF n < 12 THEN n + 1 ELSE 1
            BY <1>4, <1>8, SMT DEF MonthName, n
        <3>3. DateOf(year, day + 1) = DateFrom(year, day + 1, m + 1)
            BY <3>1, Zenon DEF DateOf
        <3> HIDE DEF next
        <3>4. later = IF n < 12 THEN civil ELSE civil + 1
            BY <1>6, <2>1, <3>2, SMT DEF civil, later, Civil
        <3>5. ~ (date < DaysIn(civil, n)) /\ (day + 1) - MonthStart(m + 1) + 1 = 1
            BY <1>6, <2>1, <2>5, SMT DEF date
        <3> HIDE DEF later
        <3>6. Tomorrow(<< civil, n, date >>) =
                  IF n < 12 THEN << civil, n + 1, 1 >> ELSE << civil + 1, 1, 1 >>
            BY <3>5 DEF Tomorrow
        <3>7. DateFrom(year, day + 1, m + 1) = << later, next, 1 >>
            BY <3>5, DateFromIs DEF later, next
        <3>8. QED
            BY <1>1, <2>3, <3>2, <3>3, <3>4, <3>6, <3>7 DEF days
    <2>6. QED
        BY <1>4, <1>6, <1>8, <2>4, <2>5
<1>9. CASE m = 11
    <2>1. n = 2 /\ MonthStart(m) = 337
        BY <1>9, SMT DEF MonthName, MonthStart, n
    <2>2. civil = year + 1
        BY <2>1, SMT DEF civil, Civil
    <2>3. DaysIn(civil, n) = days - 337
        BY <2>1, <2>2 DEF DaysIn, days, YearDays
    <2>4. CASE day + 1 < days
        <3>1. MonthOf(day + 1) = m
            <4>1. day + 1 \in 0..365 /\ MonthStart(m) <= day + 1 /\ m \in 0..11 /\ ~ m < 11
                BY <1>2, <1>4, <1>9, <2>1, <2>4, SMT
            <4>2. QED
                BY <4>1, MonthIsOnly
        <3>2. DateOf(year, day + 1) = DateFrom(year, day + 1, m)
            BY <1>5, <3>1, Zenon
        <3>3. date < DaysIn(civil, n) /\ (day + 1) - MonthStart(m) + 1 = date + 1
            BY <1>2, <1>6, <2>1, <2>3, <2>4, SMT DEF date
        <3>4. Tomorrow(<< civil, n, date >>) = << civil, n, date + 1 >>
            BY <3>3 DEF Tomorrow
        <3>5. DateFrom(year, day + 1, m) = << civil, n, date + 1 >>
            BY <3>3, DateFromIs DEF civil, n
        <3>6. QED
            BY <1>1, <2>4, <3>2, <3>4, <3>5 DEF days
    <2>5. CASE ~ (day + 1 < days)
        <3>1. DateOf(year + 1, 0) = << civil, 3, 1 >>
            BY <2>2, NewYear
        <3>2. ~ (date < DaysIn(civil, n)) /\ n < 12 /\ n + 1 = 3
            BY <1>2, <1>6, <2>1, <2>3, <2>5, SMT DEF date
        <3>3. Tomorrow(<< civil, n, date >>) = << civil, 3, 1 >>
            BY <3>2 DEF Tomorrow
        <3>4. QED
            BY <1>1, <2>5, <3>1, <3>3 DEF days
    <2>6. QED
        BY <2>4, <2>5
<1>10. QED
    BY <1>4, <1>8, <1>9

\* A day from the epoch on is a day of one year of one era.
DayIn(d, era, y, day) ==
    /\ d + EpochDay = era * EraDays + YearStart(y) + day
    /\ YearStart(y) + day < YearEnd(y)
Dated(d) ==
    \E era \in Nat, y \in EraYears, day \in Nat :
        DayIn(d, era, y, day) /\ CivilDate(d) = DateOf(YearAt(era, y), day)

LEMMA DayHas ==
    ASSUME NEW d \in Nat
    PROVE  Dated(d)
<1> DEFINE z == d + EpochDay
           era == z \div EraDays
           doe == z - era * EraDays
           y == YearOf(doe)
           day == doe - YearStart(y)
<1>1. era \in Nat /\ doe \in Nat /\ doe < EraDays /\ z = era * EraDays + doe
    BY SMT DEF EraDays, EpochDay
<1>2. CivilDate(d) = DateOf(YearAt(era, y), day)
    BY SMT DEF CivilDate, DateOf, DateFrom, MonthOf, MonthStart, MonthName, YearOf, YearStart, EraDays, EpochDay, YearAt
<1> HIDE DEF z, era, doe
<1>3. y \in EraYears /\ YearStart(y) <= doe /\ doe < YearEnd(y)
    BY <1>1, YearIs
<1>4. YearStart(y) \in Nat
    BY <1>3, SMT DEF YearStart, EraYears
<1> HIDE DEF y
<1>5. day \in Nat /\ YearStart(y) + day = doe
    BY <1>1, <1>3, <1>4, SMT
<1>6. era * EraDays \in Nat
    BY <1>1, SMT DEF EraDays
<1>7. d + EpochDay = era * EraDays + YearStart(y) + day
    BY <1>1, <1>4, <1>5, <1>6, SMT DEF z, EpochDay
<1>8. DayIn(d, era, y, day)
    BY <1>3, <1>5, <1>7 DEF DayIn
<1> HIDE DEF day
<1>9. QED
    BY <1>1, <1>2, <1>3, <1>5, <1>8, Zenon DEF Dated

LEMMA YearsAreInTheEra ==
    ASSUME NEW y \in EraYears
    PROVE  YearStart(y) \in Nat /\ YearEnd(y) \in Nat /\ YearEnd(y) <= EraDays
BY SMT DEF YearStart, YearEnd, EraDays, EraYears

LEMMA DayHasOnly ==
    ASSUME NEW d \in Nat, NEW era \in Nat, NEW y \in EraYears, NEW day \in Nat,
           DayIn(d, era, y, day)
    PROVE  CivilDate(d) = DateOf(YearAt(era, y), day)
<1>0. Dated(d)
    BY DayHas
<1>1. PICK f \in Nat, z \in EraYears, e \in Nat :
            DayIn(d, f, z, e) /\ CivilDate(d) = DateOf(YearAt(f, z), e)
    BY <1>0, Zenon DEF Dated
<1>2. /\ YearStart(y) \in Nat /\ YearStart(z) \in Nat /\ YearEnd(y) \in Nat /\ YearEnd(z) \in Nat
      /\ YearEnd(y) <= EraDays /\ YearEnd(z) <= EraDays
    BY YearsAreInTheEra
<1> DEFINE a == YearStart(y) + day
           b == YearStart(z) + e
<1>3. /\ a \in Nat /\ a < EraDays /\ a < YearEnd(y) /\ YearStart(y) <= a
      /\ b \in Nat /\ b < EraDays /\ b < YearEnd(z) /\ YearStart(z) <= b
    BY <1>1, <1>2, SMT DEF EraDays, EpochDay, DayIn
<1>4. era * EraDays + a = f * EraDays + b
    BY <1>1, <1>2, SMT DEF EraDays, EpochDay, DayIn
<1> HIDE DEF a, b
<1>5. era = f /\ a = b
    BY <1>3, <1>4, SMT DEF EraDays, EpochDay
<1>6. YearOf(a) = y /\ YearOf(b) = z
    BY <1>3, YearIsOnly
<1>7. y = z
    BY <1>5, <1>6
<1>8. day = e
    BY <1>2, <1>5, <1>7, SMT DEF a, b
<1>9. QED
    BY <1>1, <1>5, <1>7, <1>8

\* Day after day, the dates follow the calendar.
LEMMA DatesFollow ==
    ASSUME NEW d \in Nat
    PROVE  CivilDate(d + 1) = Tomorrow(CivilDate(d))
<1>1. Dated(d)
    BY DayHas
<1>2. PICK era \in Nat, y \in EraYears, day \in Nat :
            DayIn(d, era, y, day) /\ CivilDate(d) = DateOf(YearAt(era, y), day)
    BY <1>1, Zenon DEF Dated
<1> DEFINE year == YearAt(era, y)
           length == YearDays(year + 1)
           tomorrow == d + 1
           next == day + 1
<1>3. /\ YearStart(y) \in Nat /\ YearEnd(y) \in Nat
      /\ YearEnd(y) = YearStart(y) + length
    <2>1. YearStart(y) \in Nat /\ YearEnd(y) \in Nat
        BY YearsAreInTheEra
    <2>2. YearEnd(y) = YearStart(y) + YearDays(YearAt(era, y) + 1)
        BY YearHas
    <2>3. QED
        BY <2>1, <2>2, Zenon
<1>4. year \in Nat /\ length \in Nat
    BY SMT DEF YearDays, YearAt, EraYears
<1>5. tomorrow \in Nat /\ next \in Nat
    OBVIOUS
<1> HIDE DEF year, length, tomorrow, next
<1>6. day < length
    BY <1>2, <1>3, <1>4, SMT DEF DayIn
<1>7. Tomorrow(CivilDate(d)) =
          IF next < length THEN DateOf(year, next) ELSE DateOf(year + 1, 0)
    BY <1>2, <1>4, <1>6, DayOfYear DEF year, length, next
<1>8. CASE next < length
    <2>1. DayIn(tomorrow, era, y, next)
        BY <1>2, <1>3, <1>4, <1>8, SMT DEF DayIn, EraDays, EpochDay, tomorrow, next
    <2>2. CivilDate(tomorrow) = DateOf(year, next)
        BY <1>5, <2>1, DayHasOnly DEF year
    <2>3. QED
        BY <1>7, <1>8, <2>2 DEF tomorrow
<1>9. CASE ~ (next < length) /\ y # 399
    <2> DEFINE z == y + 1
    <2>1. z \in EraYears /\ 0 \in Nat
        BY <1>9, SMT DEF EraYears
    <2>2. YearStart(z) = YearEnd(y)
        BY <1>9, Zenon DEF YearEnd
    <2>3. YearAt(era, z) = year + 1
        BY SMT DEF YearAt, EraYears, year
    <2>4. YearStart(z) + 0 < YearEnd(z)
        BY <2>1, SMT DEF YearStart, YearEnd, EraDays, EraYears
    <2> HIDE DEF z
    <2>5. DayIn(tomorrow, era, z, 0)
        BY <1>2, <1>3, <1>4, <1>6, <1>9, <2>2, <2>4, SMT
           DEF DayIn, EraDays, EpochDay, tomorrow, next
    <2>6. CivilDate(tomorrow) = DateOf(year + 1, 0)
        BY <1>5, <2>1, <2>3, <2>5, DayHasOnly
    <2>7. QED
        BY <1>7, <1>9, <2>6 DEF tomorrow
<1>10. CASE ~ (next < length) /\ y = 399
    <2> DEFINE f == era + 1
    <2>1. f \in Nat /\ 0 \in EraYears /\ 0 \in Nat
        BY SMT DEF EraYears
    <2>2. YearEnd(y) = EraDays
        BY <1>10, SMT DEF YearEnd
    <2>3. YearStart(0) = 0 /\ YearStart(0) + 0 < YearEnd(0)
        BY SMT DEF YearStart, YearEnd
    <2>4. YearAt(f, 0) = year + 1
        BY <1>10, SMT DEF YearAt, year
    <2>5. DayIn(tomorrow, f, 0, 0)
        BY <1>2, <1>3, <1>4, <1>6, <1>10, <2>2, <2>3, SMT
           DEF DayIn, EraDays, EpochDay, tomorrow, next
    <2> HIDE DEF f
    <2>6. CivilDate(tomorrow) = DateOf(year + 1, 0)
        BY <1>5, <2>1, <2>4, <2>5, DayHasOnly
    <2>7. QED
        BY <1>7, <1>10, <2>6 DEF tomorrow
<1>11. QED
    BY <1>8, <1>9, <1>10

LEMMA EpochIs == CivilDate(0) = << 1970, 1, 1 >>
<1>1. 4 \in Nat /\ 369 \in EraYears /\ 306 \in Nat /\ 0 \in Nat
    BY SMT DEF EraYears
<1>2. DayIn(0, 4, 369, 306)
    BY SMT DEF DayIn, EraDays, EpochDay, YearStart, YearEnd
<1>3. CivilDate(0) = DateOf(YearAt(4, 369), 306)
    BY <1>1, <1>2, DayHasOnly, SMT
<1>4. MonthOf(306) = 10 /\ MonthName(10) = 1 /\ MonthStart(10) = 306
    BY SMT DEF MonthOf, MonthName, MonthStart
<1>5. DateOf(YearAt(4, 369), 306) = << 1970, 1, 1 >>
    BY <1>4, SMT DEF DateOf, DateFrom, YearAt
<1>6. QED
    BY <1>3, <1>5, SMT

-----------------------------------------------------------------------------
(* Sorting. *)

\* Tuples of n numbers, in the order of the first in which they differ.
Tuples(n) == [1..n -> Int]
BeforePairs(S) == { p \in S \X S : Before(p[1], p[2]) }

LEMMA TuplesAreOrdered ==
    ASSUME NEW n \in Nat, NEW S \in SUBSET Tuples(n)
    PROVE  /\ Orders(BeforePairs(S), S)
           /\ \A s, t \in S : << s, t >> \in BeforePairs(S) <=> Before(s, t)
<1>1. \A s, t \in S : << s, t >> \in BeforePairs(S) <=> Before(s, t)
    BY DEF BeforePairs
<1>0. \A s \in S : DOMAIN s = 1..n /\ \A i \in 1..n : s[i] \in Int
    BY DEF Tuples
<1>2. ASSUME NEW s \in S PROVE ~ Before(s, s)
    BY <1>0 DEF Before
<1>3. ASSUME NEW s \in S, NEW t \in S, NEW u \in S, Before(s, t), Before(t, u)
      PROVE  Before(s, u)
    <2>1. PICK i \in 1..n : s[i] < t[i] /\ \A k \in 1..(i - 1) : s[k] = t[k]
        BY <1>0, <1>3 DEF Before
    <2>2. PICK j \in 1..n : t[j] < u[j] /\ \A k \in 1..(j - 1) : t[k] = u[k]
        BY <1>0, <1>3 DEF Before
    <2>3. CASE i < j
        <3>1. s[i] < u[i] /\ \A k \in 1..(i - 1) : s[k] = u[k]
            BY <1>0, <2>1, <2>2, <2>3
        <3>2. QED
            BY <1>0, <3>1 DEF Before
    <2>4. CASE j < i
        <3>1. s[j] < u[j] /\ \A k \in 1..(j - 1) : s[k] = u[k]
            BY <1>0, <2>1, <2>2, <2>4
        <3>2. QED
            BY <1>0, <3>1 DEF Before
    <2>5. CASE i = j
        <3>1. s[j] < u[j] /\ \A k \in 1..(j - 1) : s[k] = u[k]
            <4>1. s[j] \in Int /\ t[j] \in Int /\ u[j] \in Int
                BY <1>0
            <4>2. QED
                BY <2>1, <2>2, <2>5, <4>1
        <3>2. QED
            BY <1>0, <3>1 DEF Before
    <2>6. QED
        BY <2>3, <2>4, <2>5
<1>4. ASSUME NEW s \in S, NEW t \in S, s # t PROVE Before(s, t) \/ Before(t, s)
    <2> DEFINE D == { i \in 1..n : s[i] # t[i] }
    <2>1. D \in SUBSET Nat
        OBVIOUS
    <2>2. D # {}
        <3>1. s \in [1..n -> Int] /\ t \in [1..n -> Int]
            BY DEF Tuples
        <3>2. ASSUME \A i \in 1..n : s[i] = t[i] PROVE s = t
            BY <3>1, <3>2
        <3>3. QED
            BY <1>4, <3>2
    <2>3. PICK i \in D : \A k \in D : i <= k
        BY <2>1, <2>2, LeastOf
    <2>4. i \in 1..n /\ s[i] \in Int /\ t[i] \in Int /\ s[i] # t[i]
        BY <1>0
    <2>5. \A k \in 1..(i - 1) : k \in 1..n /\ ~ (i <= k)
        BY <2>4
    <2>6. \A k \in 1..(i - 1) : s[k] = t[k]
        BY <2>3, <2>5
    <2>7. CASE s[i] < t[i]
        BY <1>0, <2>4, <2>6, <2>7 DEF Before
    <2>8. CASE t[i] < s[i]
        BY <1>0, <2>4, <2>6, <2>8 DEF Before
    <2>9. QED
        BY <2>4, <2>7, <2>8
<1>5. QED
    BY <1>1, <1>2, <1>3, <1>4 DEF Orders

\* A set of tuples that is not empty has a first and a last.
LEMMA FirstAndLast ==
    ASSUME NEW n \in Nat, NEW S \in SUBSET Tuples(n), IsFiniteSet(S), S # {}
    PROVE  /\ \E s \in S : \A t \in S : ~ Before(t, s)
           /\ \E s \in S : \A t \in S : ~ Before(s, t)
<1> DEFINE P == BeforePairs(S)
           R == RankIn(P, S)
           m == Cardinality(S)
<1>1. Orders(P, S) /\ \A s, t \in S : << s, t >> \in P <=> Before(s, t)
    BY TuplesAreOrdered
<1> HIDE DEF P
<1>2. /\ m \in Nat /\ R \in [S -> 0..(m - 1)]
      /\ \A x, y \in S : << x, y >> \in P => R[x] < R[y]
      /\ \A k \in 0..(m - 1) : \E x \in S : R[x] = k
    <2>1. m \in Nat /\ Ranks(R, P, S, m)
        BY <1>1, RanksInOrder
    <2>2. QED
        BY <2>1, Zenon DEF Ranks
<1>3. m # 0
    BY FS_EmptySet
<1> HIDE DEF R, m
<1>4. PICK first \in S : R[first] = 0
    BY <1>2, <1>3
<1>5. PICK last \in S : R[last] = m - 1
    BY <1>2, <1>3
<1>6. \A t \in S : R[t] \in 0..(m - 1)
    BY <1>2
<1>7. \A t \in S : ~ R[t] < R[first] /\ ~ R[last] < R[t]
    BY <1>2, <1>4, <1>5, <1>6
<1>8. QED
    BY <1>1, <1>2, <1>7

\* Sorting is a permutation of the places, in the order of the keys.
LEMMA PlacesAreSorted ==
    ASSUME NEW n \in Nat, NEW N \in Nat, NEW keys \in [1..N -> Tuples(n)]
    PROVE  /\ SortedPlaces(keys) \in [1..N -> 1..N]
           /\ \A x, y \in 1..N : SortedPlaces(keys)[x] = SortedPlaces(keys)[y] => x = y
           /\ \A i \in 1..N : \E x \in 1..N : SortedPlaces(keys)[x] = i
           /\ \A x \in 1..(N - 1) :
                 ~ Before(keys[SortedPlaces(keys)[x + 1]], keys[SortedPlaces(keys)[x]])
<1> DEFINE D == 1..N
           K == { keys[i] : i \in D }
           P == { p \in D \X D : \/ Before(keys[p[1]], keys[p[2]])
                                 \/ keys[p[1]] = keys[p[2]] /\ p[1] < p[2] }
           R == RankIn(P, D)
           place == SortedPlaces(keys)
<1>1. DOMAIN keys = D /\ K \in SUBSET Tuples(n) /\ \A i \in D : keys[i] \in K
    OBVIOUS
<1>2. /\ \A s \in K : ~ Before(s, s)
      /\ \A s, t, u \in K : Before(s, t) /\ Before(t, u) => Before(s, u)
      /\ \A s, t \in K : s = t \/ Before(s, t) \/ Before(t, s)
    <2> HIDE DEF K
    <2>1. Orders(BeforePairs(K), K) /\ \A s, t \in K : << s, t >> \in BeforePairs(K) <=> Before(s, t)
        BY <1>1, TuplesAreOrdered
    <2>2. QED
        BY <2>1 DEF Orders
<1>3. \A i, j \in D : << i, j >> \in P <=>
          Before(keys[i], keys[j]) \/ (keys[i] = keys[j] /\ i < j)
    OBVIOUS
<1> HIDE DEF K, P
<1>4. Orders(P, D)
    <2>1. \A i \in D : << i, i >> \notin P
        BY <1>1, <1>2, <1>3
    <2>2. \A i, j, k \in D : << i, j >> \in P /\ << j, k >> \in P => << i, k >> \in P
        <3> SUFFICES ASSUME NEW i \in D, NEW j \in D, NEW k \in D,
                            << i, j >> \in P, << j, k >> \in P
                     PROVE  << i, k >> \in P
            OBVIOUS
        <3>1. i < j /\ j < k => i < k
            OBVIOUS
        <3>2. /\ Before(keys[i], keys[j]) \/ (keys[i] = keys[j] /\ i < j)
              /\ Before(keys[j], keys[k]) \/ (keys[j] = keys[k] /\ j < k)
            BY <1>3
        <3>3. Before(keys[i], keys[k]) \/ (keys[i] = keys[k] /\ i < k)
            BY <1>1, <1>2, <3>1, <3>2
        <3>4. QED
            BY <1>3, <3>3
    <2>3. \A i, j \in D : i = j \/ << i, j >> \in P \/ << j, i >> \in P
        <3> SUFFICES ASSUME NEW i \in D, NEW j \in D
                     PROVE  i = j \/ << i, j >> \in P \/ << j, i >> \in P
            BY Zenon
        <3>1. i = j \/ i < j \/ j < i
            OBVIOUS
        <3>2. keys[i] = keys[j] \/ Before(keys[i], keys[j]) \/ Before(keys[j], keys[i])
            BY <1>1, <1>2
        <3>3. QED
            BY <1>3, <3>1, <3>2
    <2>4. QED
        BY <2>1, <2>2, <2>3 DEF Orders
<1>5. IsFiniteSet(D) /\ Cardinality(D) = N
    BY FS_Interval
<1>6. /\ R \in [D -> 0..(N - 1)]
      /\ \A x, y \in D : << x, y >> \in P => R[x] < R[y]
      /\ \A x, y \in D : R[x] = R[y] => x = y
      /\ \A k \in 0..(N - 1) : \E x \in D : R[x] = k
    <2>1. Ranks(R, P, D, Cardinality(D))
        <3> HIDE DEF D
        <3>1. QED
            BY <1>4, <1>5, RanksInOrder
    <2>2. Ranks(R, P, D, N)
        BY <1>5, <2>1, Zenon
    <2>3. QED
        BY <2>2, Zenon DEF Ranks
<1>7. \A i \in D : R[i] = Cardinality({ j \in D :
          Before(keys[j], keys[i]) \/ (keys[j] = keys[i] /\ j < i) })
    <2> SUFFICES ASSUME NEW i \in D
                 PROVE  R[i] = Cardinality({ j \in D :
                            Before(keys[j], keys[i]) \/ (keys[j] = keys[i] /\ j < i) })
        OBVIOUS
    <2>1. Lower(P, D, i) = { j \in D :
              Before(keys[j], keys[i]) \/ (keys[j] = keys[i] /\ j < i) }
        BY <1>3 DEF Lower
    <2>2. QED
        BY <2>1 DEF RankIn
<1>8. place = [x \in D |-> CHOOSE i \in D : Cardinality({ j \in D :
          Before(keys[j], keys[i]) \/ (keys[j] = keys[i] /\ j < i) }) = x - 1]
    BY <1>1 DEF SortedPlaces
<1> HIDE DEF R, place
<1>9. ASSUME NEW x \in D PROVE place[x] \in D /\ R[place[x]] = x - 1
    <2>1. place[x] = CHOOSE i \in D : Cardinality({ j \in D :
              Before(keys[j], keys[i]) \/ (keys[j] = keys[i] /\ j < i) }) = x - 1
        BY <1>8
    <2>2. place[x] = CHOOSE i \in D : R[i] = x - 1
        BY <1>7, <2>1
    <2>3. x - 1 \in 0..(N - 1)
        OBVIOUS
    <2>4. QED
        BY <1>6, <2>2, <2>3
<1>10. place \in [D -> D]
    BY <1>8, <1>9
<1>11. ASSUME NEW x \in D, NEW y \in D, place[x] = place[y] PROVE x = y
    <2>1. R[place[x]] = x - 1 /\ R[place[x]] = y - 1
        BY <1>9, <1>11, Zenon
    <2>2. x \in Nat /\ y \in Nat
        BY <1>2
    <2>3. QED
        BY ONLY <2>1, <2>2
<1>12. ASSUME NEW i \in D PROVE \E x \in D : place[x] = i
    <2>1. R[i] \in 0..(N - 1)
        BY <1>6
    <2> DEFINE x == R[i] + 1
    <2>2. x \in D /\ x - 1 = R[i]
        BY <2>1
    <2> HIDE DEF x
    <2>3. place[x] \in D /\ R[place[x]] = R[i]
        BY <1>9, <2>2
    <2>4. QED
        BY <1>6, <2>2, <2>3
<1>13. ASSUME NEW x \in 1..(N - 1) PROVE ~ Before(keys[place[x + 1]], keys[place[x]])
    <2> DEFINE y == x + 1
    <2>1. x \in D /\ y \in D /\ ~ (y - 1 < x - 1)
        OBVIOUS
    <2> HIDE DEF y
    <2>2. /\ place[x] \in D /\ R[place[x]] = x - 1
          /\ place[y] \in D /\ R[place[y]] = y - 1
        BY <1>9, <2>1
    <2>3. << place[y], place[x] >> \notin P
        <3> SUFFICES ASSUME << place[y], place[x] >> \in P PROVE FALSE
            OBVIOUS
        <3>1. R[place[y]] < R[place[x]]
            BY <1>6, <2>2
        <3>2. QED
            BY <2>1, <2>2, <3>1
    <2>4. ~ Before(keys[place[y]], keys[place[x]])
        BY <1>3, <2>2, <2>3
    <2>5. QED
        BY <2>4 DEF y
<1>14. QED
    BY <1>10, <1>11, <1>12, <1>13 DEF place

LEMMA SixAre ==
    ASSUME NEW s \in Seq(Int), NEW t \in Seq(Int), Len(s) = 3, Len(t) = 3
    PROVE  s \o t \in Tuples(6)
<1>1. s \o t \in Seq(Int) /\ Len(s \o t) = Len(s) + Len(t)
    BY ConcatProperties
<1>2. Len(s \o t) = 6
    BY <1>1
<1>3. QED
    BY <1>1, <1>2, LenProperties DEF Tuples

\* A date and a time of day are six numbers, a row's key three.
LEMMA TimestampIs ==
    ASSUME NEW at \in Nat \X Nat
    PROVE  Timestamp(at) \in Tuples(6)
<1> DEFINE day == at[1]
           second == at[2]
           t == << second \div 3600, (second % 3600) \div 60, second % 60 >>
<1>1. day \in Nat /\ second \in Nat
    OBVIOUS
<1>2. PICK a, b, c : CivilDate(day) = << a, b, c >> /\ a \in Int /\ b \in Int /\ c \in Int
    <2>1. PICK year \in Nat, e \in Nat : CivilDate(day) = DateOf(year, e)
        <3>0. Dated(day)
            BY <1>1, DayHas
        <3>1. PICK era \in Nat, y \in EraYears, e \in Nat :
                    DayIn(day, era, y, e) /\ CivilDate(day) = DateOf(YearAt(era, y), e)
            BY <3>0, Zenon DEF Dated
        <3>2. YearAt(era, y) \in Nat
            BY SMT DEF YearAt, EraYears
        <3>3. QED
            BY <3>1, <3>2
    <2>2. MonthOf(e) \in Int /\ MonthStart(MonthOf(e)) \in Int /\ MonthName(MonthOf(e)) \in Int
        BY SMT DEF MonthOf, MonthStart, MonthName
    <2>3. QED
        BY <2>1, <2>2 DEF DateOf, DateFrom
<1>3. \E x, y, z \in Int : t = << x, y, z >>
    BY <1>1, SMT
<1> HIDE DEF t
<1>4. PICK x \in Int, y \in Int, z \in Int : t = << x, y, z >>
    BY <1>3
<1>5. Timestamp(at) = CivilDate(day) \o t
    BY SMT DEF Timestamp, t
<1>6. CivilDate(day) \in Seq(Int) /\ Len(CivilDate(day)) = 3 /\ t \in Seq(Int) /\ Len(t) = 3
    BY <1>2, <1>4
<1>7. CivilDate(day) \o t \in Tuples(6)
    BY <1>6, SixAre
<1>8. QED
    BY <1>5, <1>7

LEMMA RowKeyIs ==
    ASSUME NEW r \in Receipts
    PROVE  RowKey(r) \in Tuples(3)
<1>1. r.corpus \in Nat /\ r.patterns \in Nat /\ r.workers \in Nat
    BY DEF Receipts
<1>2. << r.corpus, r.patterns, r.workers >> \in [1..3 -> Int]
    BY <1>1
<1>3. QED
    BY <1>2 DEF RowKey, Tuples

\* The rows of a table are its receipts, as often and in order.
Kept(rows, receipts) ==
    \A r : Cardinality({ i \in DOMAIN rows : rows[i] = r })
               = Cardinality({ i \in DOMAIN receipts : receipts[i] = r })
InOrder(rows) ==
    \A i \in 1..(Len(rows) - 1) : ~ Before(RowKey(rows[i + 1]), RowKey(rows[i]))

LEMMA RowsAre ==
    ASSUME NEW receipts \in Seq(Receipts)
    PROVE  Kept(Table(receipts).rows, receipts) /\ InOrder(Table(receipts).rows)
<1> DEFINE N == Len(receipts)
           keys == [i \in DOMAIN receipts |-> RowKey(receipts[i])]
           place == SortedPlaces(keys)
           rows == Table(receipts).rows
<1>1. N \in Nat /\ DOMAIN receipts = 1..N /\ receipts \in [1..N -> Receipts]
    BY LenProperties
<1>2. keys \in [1..N -> Tuples(3)]
    BY <1>1, RowKeyIs
<1>3. /\ place \in [1..N -> 1..N]
      /\ \A x, y \in 1..N : place[x] = place[y] => x = y
      /\ \A i \in 1..N : \E x \in 1..N : place[x] = i
      /\ \A x \in 1..(N - 1) : ~ Before(keys[place[x + 1]], keys[place[x]])
    <2> HIDE DEF keys, N
    <2>1. 3 \in Nat
        OBVIOUS
    <2>2. QED
        BY <1>1, <1>2, <2>1, PlacesAreSorted
<1>4. rows = [n \in 1..N |-> receipts[place[n]]]
    BY <1>1 DEF Table
<1>5. \A i \in 1..N : keys[i] = RowKey(receipts[i])
    BY <1>1
<1> HIDE DEF rows, place, keys, N
<1>6. rows \in [1..N -> Receipts] /\ DOMAIN rows = 1..N /\ \A n \in 1..N : rows[n] = receipts[place[n]]
    BY <1>1, <1>3, <1>4
<1>7. rows \in Seq(Receipts) /\ Len(rows) = N
    BY <1>1, <1>6, SeqDef, LenProperties
<1>8. ASSUME NEW r
      PROVE  Cardinality({ i \in DOMAIN rows : rows[i] = r })
                 = Cardinality({ i \in DOMAIN receipts : receipts[i] = r })
    <2> DEFINE A == { i \in 1..N : rows[i] = r }
               B == { i \in 1..N : receipts[i] = r }
               f == [i \in A |-> place[i]]
    <2>1. \A i \in A : i \in 1..N /\ place[i] \in B
        BY <1>3, <1>6
    <2>2. f \in [A -> B]
        BY <2>1
    <2>3. \A x, y \in A : f[x] = f[y] => x = y
        BY <1>3, <2>1
    <2>4. \A i \in B : \E x \in A : f[x] = i
        BY <1>3, <1>6
    <2>5. f \in Bijection(A, B)
        BY <2>2, <2>3, <2>4 DEF Bijection, Injection, Surjection, IsInjective
    <2>6. IsFiniteSet(A)
        <3>1. IsFiniteSet(1..N) /\ A \in SUBSET (1..N)
            BY <1>1, FS_Interval
        <3>2. QED
            BY <3>1, FS_Subset
    <2>7. ExistsBijection(A, B)
        BY <2>5 DEF ExistsBijection
    <2>8. Cardinality(A) = Cardinality(B)
        BY <2>6, <2>7, FS_Bijection
    <2>9. QED
        BY <1>1, <1>6, <2>8
<1>9. ASSUME NEW i \in 1..(N - 1) PROVE ~ Before(RowKey(rows[i + 1]), RowKey(rows[i]))
    <2>1. i \in 1..N /\ i + 1 \in 1..N
        BY <1>1
    <2>2. /\ rows[i] = receipts[place[i]] /\ rows[i + 1] = receipts[place[i + 1]]
          /\ place[i] \in 1..N /\ place[i + 1] \in 1..N
        BY <1>3, <1>6, <2>1
    <2>3. ~ Before(keys[place[i + 1]], keys[place[i]])
        BY <1>3
    <2>4. QED
        BY <1>5, <2>2, <2>3
<1>10. Kept(rows, receipts) /\ InOrder(rows)
    BY <1>7, <1>8, <1>9 DEF Kept, InOrder
<1>11. QED
    BY <1>10 DEF rows

\* The window of a table is that of its dates.
LEMMA WindowIs ==
    ASSUME NEW receipts \in Seq(Receipts), NEW i \in DOMAIN receipts,
           receipts[i].measured_at # << >>
    PROVE  LET window == Table(receipts).window
           IN  /\ ~ Before(Timestamp(receipts[i].measured_at), window[1])
               /\ ~ Before(window[2], Timestamp(receipts[i].measured_at))
<1> DEFINE N == Len(receipts)
           dated == { j \in DOMAIN receipts : receipts[j].measured_at # << >> }
           times == { Timestamp(receipts[j].measured_at) : j \in dated }
           first == CHOOSE t \in times : \A u \in times : ~ Before(u, t)
           last == CHOOSE t \in times : \A u \in times : ~ Before(t, u)
           window == Table(receipts).window
<1>1. N \in Nat /\ DOMAIN receipts = 1..N /\ receipts \in [1..N -> Receipts]
    BY LenProperties
<1>2. ASSUME NEW j \in dated PROVE Timestamp(receipts[j].measured_at) \in Tuples(6)
    <2>1. receipts[j] \in Receipts
        BY <1>1
    <2>2. receipts[j].measured_at \in Nat \X Nat
        BY <2>1 DEF Receipts
    <2>3. QED
        BY <2>2, TimestampIs
<1>3. times \in SUBSET Tuples(6)
    BY <1>2
<1>4. IsFiniteSet(times)
    <2> DEFINE f == [j \in dated |-> Timestamp(receipts[j].measured_at)]
    <2>1. IsFiniteSet(dated)
        <3>1. IsFiniteSet(1..N) /\ dated \in SUBSET (1..N)
            BY <1>1, FS_Interval
        <3>2. QED
            BY <3>1, FS_Subset
    <2>2. f \in Surjection(dated, times)
        BY DEF Surjection
    <2> HIDE DEF f, dated, times
    <2>3. QED
        BY <2>1, <2>2, FS_Surjection
<1>5. Timestamp(receipts[i].measured_at) \in times /\ times # {}
    OBVIOUS
<1>6. window = << first, last >>
    BY <1>5 DEF Table
<1> HIDE DEF times, window
<1>7. /\ \E t \in times : \A u \in times : ~ Before(u, t)
      /\ \E t \in times : \A u \in times : ~ Before(t, u)
    <2>1. 6 \in Nat
        OBVIOUS
    <2>2. QED
        BY <1>3, <1>4, <1>5, <2>1, FirstAndLast
<1>8. (\A u \in times : ~ Before(u, first)) /\ (\A u \in times : ~ Before(last, u))
    BY <1>7
<1>9. window[1] = first /\ window[2] = last
    BY <1>6
<1> HIDE DEF first, last
<1>10. QED
    BY <1>5, <1>8, <1>9 DEF window

-----------------------------------------------------------------------------
(* The invariant. *)

TableChecks(receipts) ==
    << Check("unreadable", \E r \in ToSet(receipts) : r.kind # "I6-B1"),
       Check("metadata", \E r \in ToSet(receipts) : ~ Valid(r)) >>

\* A decision is pending, or is the judgement on the request as it was given.
AdmissionInvariant ==
    /\ request \in Requests
    /\ \/ decision = "pending"
       \/ /\ request.command # "render-table"
          /\ decision = Judge(request.command, Baseline, Candidate)
       \/ /\ request.command = "render-table"
          /\ decision = Decided(TableChecks(request.receipts))
          /\ decision = "pass" => table = Table(request.receipts)

LEMMA AdmissionInductive ==
    /\ AdmissionInit => AdmissionInvariant
    /\ AdmissionInvariant /\ [AdmissionStep]_admissionVars => AdmissionInvariant'
<1>1. AdmissionInit => AdmissionInvariant
    BY DEF AdmissionInit, AdmissionInvariant
<1>2. ASSUME AdmissionInvariant, Compare PROVE AdmissionInvariant'
    BY <1>2 DEF AdmissionInvariant, Compare, Baseline, Candidate
<1>3. ASSUME AdmissionInvariant, RenderTable PROVE AdmissionInvariant'
    <2>1. request' = request /\ request.command = "render-table"
        BY <1>3 DEF RenderTable
    <2>2. decision' = Decided(TableChecks(request.receipts))
        BY <1>3 DEF RenderTable, TableChecks
    <2>3. decision' = "pass" => table' = Table(request.receipts)
        BY <1>3 DEF RenderTable
    <2>4. QED
        BY <1>3, <2>1, <2>2, <2>3 DEF AdmissionInvariant
<1>4. ASSUME AdmissionInvariant, UNCHANGED admissionVars PROVE AdmissionInvariant'
    BY <1>4 DEF AdmissionInvariant, admissionVars, Baseline, Candidate
<1>5. QED
    BY <1>1, <1>2, <1>3, <1>4 DEF AdmissionStep

LEMMA GivenAre ==
    ASSUME request \in Requests
    PROVE  /\ request.receipts \in Seq(Receipts)
           /\ request.command \in ComparisonCommands \cup { "render-table" }
           /\ request.command # "render-table" =>
                 /\ Baseline \in Receipts /\ Candidate \in Receipts
                 /\ request.command \in ComparisonCommands
<1>1. /\ request.receipts \in Seq(Receipts)
      /\ request.command \in ComparisonCommands \cup { "render-table" }
      /\ request.command \in ComparisonCommands => Len(request.receipts) = 2
    BY AdmissionAssumption
<1>2. ASSUME Len(request.receipts) = 2 PROVE Baseline \in Receipts /\ Candidate \in Receipts
    <2>1. 1 \in 1..Len(request.receipts) /\ 2 \in 1..Len(request.receipts)
        BY <1>2
    <2>2. QED
        BY <1>1, <2>1, ElementOfSeq DEF Baseline, Candidate
<1>3. QED
    BY <1>1, <1>2

\* What a table is refused for.
LEMMA TableDecides ==
    ASSUME NEW receipts
    PROVE  Decided(TableChecks(receipts)) \in { "pass", "unreadable", "metadata" }
<1> DEFINE x1 == \E r \in ToSet(receipts) : r.kind # "I6-B1"
           x2 == \E r \in ToSet(receipts) : ~ Valid(r)
           k1 == Check("unreadable", x1)
           k2 == Check("metadata", x2)
           t == TableChecks(receipts)
<1>1. t = << k1, k2 >>
    BY Zenon DEF TableChecks
<1>2. x1 \in BOOLEAN /\ x2 \in BOOLEAN
    BY DEF x1, x2
<1> HIDE DEF x1, x2
<1>3. /\ k1 \in Checks /\ k2 \in Checks /\ k1.reason = "unreadable" /\ k2.reason = "metadata"
    <2>1. "unreadable" \in Reasons /\ "metadata" \in Reasons
        BY DEF Reasons
    <2>2. k1 \in Checks /\ k1.reason = "unreadable"
        BY <1>2, <2>1, CheckIs, Zenon
    <2>3. k2 \in Checks /\ k2.reason = "metadata"
        BY <1>2, <2>1, CheckIs, Zenon
    <2>4. QED
        BY <2>2, <2>3
<1> HIDE DEF t, k1, k2
<1>4. t \in Seq(Checks) /\ \A i \in DOMAIN t : t[i].reason \in { "unreadable", "metadata" }
    <2>1. DOMAIN t = 1..2 /\ t \in Seq(Checks) /\ t[1] = k1 /\ t[2] = k2
        BY <1>1, <1>3
    <2>2. \A i \in 1..2 : i = 1 \/ i = 2
        OBVIOUS
    <2>3. QED
        BY <1>3, <2>1, <2>2
<1>5. Decided(t) = "pass" \/ Refuses(t, Decided(t))
    BY <1>4, DecidedAlone
<1>6. Decided(t) \in { "pass", "unreadable", "metadata" }
    BY <1>4, <1>5 DEF Refuses
<1>7. QED
    BY <1>6 DEF t

LEMMA PassesFollows ==
    ASSUME AdmissionInvariant
    PROVE  PassesWithinLimits
<1> SUFFICES ASSUME decision = "pass", request.command # "render-table"
             PROVE  PassesWithinLimits
    BY DEF PassesWithinLimits
<1>1. /\ Baseline \in Receipts /\ Candidate \in Receipts
      /\ request.command \in ComparisonCommands
      /\ Judge(request.command, Baseline, Candidate) = "pass"
    BY GivenAre DEF AdmissionInvariant
<1>2. Campaign = CampaignOf(request.command, Baseline)
    BY DEF Campaign, CampaignOf
<1> DEFINE b == Baseline
           c == Candidate
<1>3. /\ FasterBy(5) <=> Quicker(5, b.scan, c.scan)
      /\ FasterBy(10) <=> Quicker(10, b.scan, c.scan)
      /\ SlowerByMoreThanRounding(3) <=> Slower(3, b.scan, c.scan)
      /\ SlowerByMoreThanRounding(50) <=> Slower(50, b.scan, c.scan)
      /\ SlowerByMoreThanRounding(100) <=> Slower(100, b.scan, c.scan)
    BY SMT DEF FasterBy, SlowerByMoreThanRounding, Quicker, Slower
<1> HIDE DEF b, c
<1>4. /\ Identity(b) = Identity(c) /\ b.runner = c.runner
      /\ Campaign \in Gate6 \cup Gate7 \cup
            { "compare-i7-wuthering", "compare-tripwire", "compare-wuthering-tripwire" }
      /\ Campaign = "improvement-5-percent" => Quicker(5, b.scan, c.scan)
      /\ Campaign = "non-regression-3-percent" => ~ Slower(3, b.scan, c.scan)
      /\ Campaign \in { "positive-10-percent-and-2-ms", "compare-i7-wuthering" } =>
            Quicker(10, b.scan, c.scan) /\ b.scan - c.scan >= 200
      /\ Campaign = "guard-3-percent-and-1-ms" =>
            ~ Slower(3, b.scan, c.scan) \/ c.scan - b.scan <= 100
      /\ Campaign = "compare-tripwire" =>
            ~ Slower(50, b.scan, c.scan) \/ c.scan - b.scan < 10000
      /\ Campaign = "compare-wuthering-tripwire" =>
            ~ Slower(100, b.scan, c.scan) \/ c.scan - b.scan < 5000
    BY <1>1, <1>2, AdmittedIsWithin DEF b, c
<1> SUFFICES WithinLimits
    BY <1>4 DEF PassesWithinLimits, b, c
<1>5. CASE Campaign = "improvement-5-percent"
    BY <1>3, <1>4, <1>5, SMT DEF WithinLimits, b, c
<1>6. CASE Campaign = "non-regression-3-percent"
    BY <1>3, <1>4, <1>6, SMT DEF WithinLimits, b, c
<1>7. CASE Campaign = "positive-10-percent-and-2-ms"
    BY <1>3, <1>4, <1>7, SMT DEF WithinLimits, b, c
<1>11. CASE Campaign = "compare-i7-wuthering"
    BY <1>3, <1>4, <1>11, SMT DEF WithinLimits, b, c
<1>8. CASE Campaign = "guard-3-percent-and-1-ms"
    BY <1>3, <1>4, <1>8, SMT DEF WithinLimits, b, c
<1>9. CASE Campaign = "compare-tripwire"
    BY <1>3, <1>4, <1>9, SMT DEF WithinLimits, b, c
<1>10. CASE Campaign = "compare-wuthering-tripwire"
    BY <1>3, <1>4, <1>10, SMT DEF WithinLimits, b, c
<1>12. QED
    BY <1>4, <1>5, <1>6, <1>7, <1>8, <1>9, <1>10, <1>11 DEF Gate6, Gate7

LEMMA RefusesFollows ==
    ASSUME AdmissionInvariant
    PROVE  RefusesBeyondLimits
<1>1. SUFFICES ASSUME decision \in { "improvement", "regression" }
               PROVE  RefusesBeyondLimits
    BY DEF RefusesBeyondLimits
<1>2. request.command # "render-table"
    BY <1>1, TableDecides DEF AdmissionInvariant
<1>3. /\ Baseline \in Receipts /\ Candidate \in Receipts
      /\ request.command \in ComparisonCommands
      /\ decision = Judge(request.command, Baseline, Candidate)
    BY <1>1, <1>2, GivenAre DEF AdmissionInvariant
<1>4. Campaign = CampaignOf(request.command, Baseline)
    BY DEF Campaign, CampaignOf
<1> DEFINE b == Baseline
           c == Candidate
<1>5. /\ FasterBy(5) <=> Quicker(5, b.scan, c.scan)
      /\ FasterBy(10) <=> Quicker(10, b.scan, c.scan)
    BY SMT DEF FasterBy, Quicker
<1>6. decision = "regression" => b.scan \in Nat \ {0} /\ c.scan \in Nat
    BY <1>3, JudgeIs, TimedIs
<1>7. decision = "regression" =>
      /\ Slower(3, b.scan, c.scan) => SlowerBy(3)
      /\ Slower(50, b.scan, c.scan) => SlowerBy(50)
      /\ Slower(100, b.scan, c.scan) => SlowerBy(100)
    BY <1>6, SMT DEF SlowerBy, Slower
<1> HIDE DEF b, c
<1>8. /\ decision = "improvement" =>
            IF Campaign = "improvement-5-percent" THEN ~ Quicker(5, b.scan, c.scan)
            ELSE ~ Quicker(10, b.scan, c.scan) \/ b.scan - c.scan < 200
      /\ decision = "regression" =>
            IF Campaign = "compare-tripwire" THEN Slower(50, b.scan, c.scan)
            ELSE IF Campaign = "compare-wuthering-tripwire" THEN Slower(100, b.scan, c.scan)
            ELSE Slower(3, b.scan, c.scan)
    BY <1>3, <1>4, RefusedIsBeyond DEF b, c
<1>9. QED
    BY <1>5, <1>7, <1>8, SMT DEF RefusesBeyondLimits, b, c

LEMMA StillPassesFollows ==
    ASSUME AdmissionInvariant
    PROVE  FasterStillPasses
<1> DEFINE b == Baseline
           c == Candidate
           command == request.command
<1> SUFFICES ASSUME decision = "pass", command # "render-table",
                    NEW by \in { 1, c.scan \div 2 }
             PROVE  /\ by < c.scan => Judge(command, b, [c EXCEPT !.scan = @ - by]) = "pass"
                    /\ Judge(command, [b EXCEPT !.scan = @ + by], c) = "pass"
    BY DEF FasterStillPasses
<1>1. b \in Receipts /\ c \in Receipts /\ command \in ComparisonCommands
      /\ Judge(command, b, c) = "pass"
    BY GivenAre DEF AdmissionInvariant
<1> HIDE DEF b, c, command
<1>2. b.scan \in Nat /\ c.scan \in Nat \ {0}
    BY <1>1, JudgeIs, TimedIs
<1>3. by \in Nat
    BY <1>2, SMT
<1>4. b = [b EXCEPT !.scan = b.scan] /\ c = [c EXCEPT !.scan = c.scan]
    BY <1>1 DEF Receipts
<1>5. ASSUME by < c.scan PROVE Judge(command, b, [c EXCEPT !.scan = @ - by]) = "pass"
    <2> DEFINE n == c.scan - by
    <2>1. n \in Nat /\ n <= c.scan /\ n # 0 /\ b.scan >= b.scan
        BY <1>2, <1>3, <1>5
    <2> HIDE DEF n
    <2>2. Judge(command, [b EXCEPT !.scan = b.scan], [c EXCEPT !.scan = n]) = "pass"
        BY <1>1, <1>2, <2>1, FasterIsAdmitted
    <2>3. QED
        BY <1>4, <2>2 DEF n
<1>6. Judge(command, [b EXCEPT !.scan = @ + by], c) = "pass"
    <2> DEFINE m == b.scan + by
    <2>1. m \in Nat /\ m >= b.scan /\ c.scan <= c.scan /\ c.scan # 0
        BY <1>2, <1>3
    <2> HIDE DEF m
    <2>2. Judge(command, [b EXCEPT !.scan = m], [c EXCEPT !.scan = c.scan]) = "pass"
        BY <1>1, <1>2, <2>1, FasterIsAdmitted
    <2>3. QED
        BY <1>4, <2>2 DEF m
<1>7. QED
    BY <1>5, <1>6

LEMMA OneWayFollows ==
    ASSUME AdmissionInvariant
    PROVE  ImprovementIsOneWay
<1> SUFFICES ASSUME decision = "pass", request.command = "compare-i6",
                    Campaign = "improvement-5-percent"
             PROVE  Judge("compare-i6", Candidate, Baseline) # "pass"
    BY DEF ImprovementIsOneWay
<1>1. /\ Baseline \in Receipts /\ Candidate \in Receipts
      /\ Judge("compare-i6", Baseline, Candidate) = "pass"
    BY GivenAre DEF AdmissionInvariant
<1>2. "compare-i6" \in ComparisonCommands
    BY DEF ComparisonCommands
<1>3. Baseline.gate = "improvement-5-percent"
    <2>1. Timed("compare-i6", Baseline, Candidate)
        BY <1>1, <1>2, JudgeIs
    <2>2. CampaignOf("compare-i6", Baseline) = Baseline.gate
        BY <1>2, <2>1, CampaignIs
    <2>3. Campaign = CampaignOf("compare-i6", Baseline)
        BY DEF Campaign, CampaignOf
    <2>4. QED
        BY <2>2, <2>3
<1>4. QED
    BY <1>1, <1>3, OnlyOneImproves

LEMMA TableFollows ==
    ASSUME AdmissionInvariant
    PROVE  TableIsTrue
<1> SUFFICES ASSUME request.command = "render-table", decision = "pass"
             PROVE  TableIsTrue
    BY DEF TableIsTrue
<1> DEFINE receipts == request.receipts
           window == table.window
<1>1. receipts \in Seq(Receipts) /\ table = Table(receipts)
    BY GivenAre DEF AdmissionInvariant
<1>2. Kept(table.rows, request.receipts) /\ InOrder(table.rows)
    BY <1>1, RowsAre
<1>3. ASSUME NEW r \in ToSet(receipts), r.measured_at # << >>
      PROVE  /\ ~ Before(Timestamp(r.measured_at), window[1])
             /\ ~ Before(window[2], Timestamp(r.measured_at))
             /\ r.measured_at[1] = 0 => CivilDate(0) = << 1970, 1, 1 >>
             /\ CivilDate(r.measured_at[1] + 1) = Tomorrow(CivilDate(r.measured_at[1]))
    <2>1. PICK i \in DOMAIN receipts : r = receipts[i]
        BY DEF ToSet
    <2>2. /\ ~ Before(Timestamp(r.measured_at), window[1])
          /\ ~ Before(window[2], Timestamp(r.measured_at))
        BY <1>1, <1>3, <2>1, WindowIs
    <2>3. r \in Receipts
        BY <1>1, <2>1, ElementOfSeq
    <2>4. r.measured_at[1] \in Nat
        BY <1>3, <2>3 DEF Receipts
    <2>5. CivilDate(r.measured_at[1] + 1) = Tomorrow(CivilDate(r.measured_at[1]))
        BY <2>4, DatesFollow
    <2>6. QED
        BY <2>2, <2>5, EpochIs
<1>4. RowsAreTrue
    BY <1>2, Zenon DEF RowsAreTrue, Kept, InOrder
<1>5. DatesAreTrue
    BY <1>3, SMT DEF DatesAreTrue
<1>6. QED
    BY <1>4, <1>5 DEF TableIsTrue

\* A comparison admits what is within the limits of its campaign, refuses for its time
\* only what is beyond them, and admits all the more what is faster; a table is true.
THEOREM AdmissionExact == AdmissionSpec => []AdmissionIsExact
<1>1. AdmissionInvariant => AdmissionIsExact
    BY PassesFollows, RefusesFollows, StillPassesFollows, OneWayFollows, TableFollows
       DEF AdmissionIsExact
<1>2. QED
    BY AdmissionInductive, <1>1, PTL DEF AdmissionSpec

-----------------------------------------------------------------------------
(* The publication of the ledger. *)

PublicationSpec == PublicationInit /\ [][PublicationStep]_publicationVars

-----------------------------------------------------------------------------
(* The progress series. *)

Point == [id : STRING, starred : BOOLEAN, incremental : Nat \X Nat, cumulative : Nat \X Nat]
Series == [product : Nat \X Nat, points : Seq(Point)]
NoPoints == [product |-> << 1, 1 >>, points |-> <<>>]

\* What an attempt with a measured progress adds.
LEMMA ExtendedIs ==
    ASSUME NEW x \in Series, NEW attempt \in Attempts
    PROVE  /\ Extended(x, attempt) \in Series
           /\ attempt.progress = <<>> => Extended(x, attempt) = x
           /\ attempt.progress # <<>> =>
                /\ attempt.progress \in Nat \X Nat
                /\ Extended(x, attempt).product =
                      << x.product[1] * attempt.progress[1], x.product[2] * attempt.progress[2] >>
                /\ Len(Extended(x, attempt).points) = Len(x.points) + 1
                /\ \A k \in 1..Len(x.points) : Extended(x, attempt).points[k] = x.points[k]
                /\ Extended(x, attempt).points[Len(x.points) + 1] =
                      [id |-> attempt.id, starred |-> attempt.exception,
                       incremental |-> attempt.progress,
                       cumulative |-> Extended(x, attempt).product]
<1>1. CASE attempt.progress = <<>>
    BY <1>1 DEF Extended
<1>2. CASE attempt.progress # <<>>
    <2> DEFINE product == << x.product[1] * attempt.progress[1], x.product[2] * attempt.progress[2] >>
               point == [id |-> attempt.id, starred |-> attempt.exception,
                         incremental |-> attempt.progress, cumulative |-> product]
               y == Extended(x, attempt)
    <2>1. attempt.progress \in Nat \X Nat /\ attempt.id \in STRING /\ attempt.exception \in BOOLEAN
        BY <1>2 DEF Attempts
    <2>2. x.product \in Nat \X Nat /\ x.points \in Seq(Point)
        BY DEF Series
    <2>3. product \in Nat \X Nat
        BY <2>1, <2>2
    <2>4. y = [product |-> product, points |-> Append(x.points, point)]
        BY <1>2 DEF Extended
    <2> HIDE DEF product
    <2>5. point \in Point
        BY <2>1, <2>3 DEF Point
    <2>6. y.product = product /\ y.points = Append(x.points, point)
        BY <2>4
    <2> HIDE DEF point, y
    <2>7. /\ y.points \in Seq(Point) /\ Len(y.points) = Len(x.points) + 1
          /\ \A k \in 1..Len(x.points) : y.points[k] = x.points[k]
          /\ y.points[Len(x.points) + 1] = point
        BY <2>2, <2>5, <2>6, AppendProperties
    <2>8. y \in Series
        BY <2>3, <2>4, <2>6, <2>7 DEF Series
    <2>9. QED
        BY <1>2, <2>1, <2>6, <2>7, <2>8 DEF y, point, product
<1>3. QED
    BY <1>1, <1>2

\* The series, attempt by attempt.
Grown(given, s) ==
    /\ s \in [0..Len(given.attempts) -> Series]
    /\ s[0] = NoPoints
    /\ \A i \in 1..Len(given.attempts) : s[i] = Extended(s[i - 1], given.attempts[i])

LEMMA ProgressGrows ==
    ASSUME NEW given \in Ledgers
    PROVE  \E s : Grown(given, s) /\ ProgressPoints(given) = s[Len(given.attempts)].points
<1> DEFINE n == Len(given.attempts)
           a == given.attempts
           series[i \in 0..n] ==
             IF i = 0 THEN [product |-> << 1, 1 >>, points |-> <<>>]
             ELSE Extended(series[i - 1], given.attempts[i])
           Body(f) == [i \in 0..n |->
             IF i = 0 THEN [product |-> << 1, 1 >>, points |-> <<>>]
             ELSE Extended(f[i - 1], given.attempts[i])]
           g == [x \in (1..n) \X Series |-> Extended(x[2], a[x[1]])]
<1>1. n \in Nat /\ \A i \in 1..n : a[i] \in Attempts
    <2>1. a \in Seq(Attempts)
        BY PublicationAssumption
    <2>2. QED
        BY <2>1, LenProperties, ElementOfSeq
<1>2. ProgressPoints(given) = series[n].points
    BY Zenon DEF ProgressPoints
<1>3. series = CHOOSE f : f = Body(f)
    BY Zenon
<1>4. NoPoints \in Series
    <2>1. <<>> \in Seq(Point) /\ << 1, 1 >> \in Nat \X Nat
        OBVIOUS
    <2>2. QED
        BY <2>1 DEF NoPoints, Series
<1>5. PICK s \in [0..n -> Series] : s[0] = NoPoints /\ \A i \in 1..n : s[i] = g[<< i, s[i - 1] >>]
    <2>1. ASSUME NEW x \in (1..n) \X Series PROVE g[x] \in Series
        <3>1. x[1] \in 1..n /\ x[2] \in Series
            OBVIOUS
        <3>2. Extended(x[2], a[x[1]]) \in Series
            BY <1>1, <3>1, ExtendedIs
        <3>3. QED
            BY <3>2
    <2>2. g \in [(1..n) \X Series -> Series]
        BY <2>1
    <2> HIDE DEF g
    <2>3. Along(Series, n, NoPoints, g) # {}
        BY <1>1, <1>4, <2>2, Recursion
    <2>4. QED
        BY <2>3 DEF Along
<1>6. \A i \in 1..n : s[i] = Extended(s[i - 1], a[i])
    <2>1. ASSUME NEW i \in 1..n PROVE s[i] = Extended(s[i - 1], a[i])
        <3>1. i - 1 \in 0..n
            BY <1>1
        <3>2. << i, s[i - 1] >> \in (1..n) \X Series
            BY <3>1
        <3>3. g[<< i, s[i - 1] >>] = Extended(s[i - 1], a[i])
            BY <3>2
        <3>4. QED
            BY <1>5, <3>3
    <2>2. QED
        BY <2>1
<1>7. Body(s) = s
    <2>1. \A i \in 0..n : s[i] = IF i = 0 THEN [product |-> << 1, 1 >>, points |-> <<>>]
                                ELSE Extended(s[i - 1], given.attempts[i])
        BY <1>1, <1>5, <1>6 DEF NoPoints
    <2>2. s = [i \in 0..n |-> s[i]]
        OBVIOUS
    <2>3. QED
        BY <2>1, <2>2, Zenon
<1> HIDE DEF series, Body, g
<1>8. series = Body(series)
    BY <1>3, <1>7, Zenon
<1>9. /\ DOMAIN series = 0..n /\ series = [i \in 0..n |-> series[i]]
      /\ \A i \in 0..n : series[i] = IF i = 0 THEN NoPoints ELSE Extended(series[i - 1], a[i])
    <2>1. series = [i \in 0..n |-> IF i = 0 THEN NoPoints ELSE Extended(series[i - 1], a[i])]
        BY <1>8, Zenon DEF Body, NoPoints
    <2>2. QED
        BY <2>1
<1> DEFINE Typed == { i \in 0..n : series[i] \in Series }
<1>10. 0..n \subseteq Typed
    <2>1. 0 \in Typed
        BY <1>1, <1>4, <1>9
    <2>2. ASSUME NEW i \in 1..n, i - 1 \in Typed PROVE i \in Typed
        <3>1. i \in 0..n /\ i # 0 /\ series[i - 1] \in Series
            BY <1>1, <2>2
        <3>2. Extended(series[i - 1], a[i]) \in Series
            BY <1>1, <3>1, ExtendedIs
        <3>3. QED
            BY <1>9, <3>1, <3>2
    <2> HIDE DEF Typed
    <2>3. QED
        BY <1>1, <2>1, <2>2, Induction
<1>11. Grown(given, series)
    <2>1. series \in [0..n -> Series]
        BY <1>9, <1>10
    <2>2. 0 \in 0..n /\ \A i \in 1..n : i \in 0..n /\ i # 0
        BY <1>1
    <2>3. QED
        BY <1>9, <2>1, <2>2 DEF Grown
<1>12. QED
    BY <1>2, <1>11

\* How many merged attempts there are up to one.
Rank(given, i) == Cardinality({ j \in Merged(given) : j <= i })

LEMMA RankIs ==
    ASSUME NEW given, Len(given.attempts) \in Nat,
           DOMAIN given.attempts = 1..Len(given.attempts)
    PROVE  /\ Rank(given, 0) = 0 /\ Rank(given, Len(given.attempts)) = Cardinality(Merged(given))
           /\ \A i \in 0..Len(given.attempts) : Rank(given, i) \in Nat
           /\ \A i \in 1..Len(given.attempts) :
                 Rank(given, i) = Rank(given, i - 1) + (IF i \in Merged(given) THEN 1 ELSE 0)
<1> DEFINE n == Len(given.attempts)
           M == Merged(given)
           Upto(i) == { j \in M : j <= i }
<1>1. n \in Nat /\ \A j \in M : j \in Int /\ 1 <= j /\ j <= n
    BY DEF Merged
<1> HIDE DEF M, n
<1>2. \A i \in 0..n : IsFiniteSet(Upto(i)) /\ Cardinality(Upto(i)) \in Nat
    <2>1. IsFiniteSet(1..n)
        <3>1. 1 \in Int /\ n \in Int
            BY <1>1
        <3>2. QED
            BY <3>1, FS_Interval, Zenon
    <2>2. \A i \in 0..n : Upto(i) \subseteq 1..n
        BY <1>1
    <2> HIDE DEF Upto
    <2>3. QED
        BY <2>1, <2>2, FS_Subset, FS_CardinalityType
<1>3. Cardinality(Upto(0)) = 0
    <2>1. Upto(0) = {}
        BY <1>1
    <2>2. QED
        BY <2>1, FS_EmptySet
<1>4. Upto(n) = M
    BY <1>1
<1>5. ASSUME NEW i \in 1..n
      PROVE  Cardinality(Upto(i)) = Cardinality(Upto(i - 1)) + (IF i \in M THEN 1 ELSE 0)
    <2>1. i - 1 \in 0..n /\ i \notin Upto(i - 1)
        BY <1>1
    <2>2. CASE i \in M
        <3>1. Upto(i) = Upto(i - 1) \cup { i }
            <4>1. \A j \in M : j <= i <=> j <= i - 1 \/ j = i
                BY <1>1
            <4>2. QED
                BY <2>2, <4>1
        <3> HIDE DEF Upto
        <3>2. Cardinality(Upto(i)) = Cardinality(Upto(i - 1)) + 1
            BY <1>2, <2>1, <3>1, FS_AddElement
        <3>3. QED
            BY <2>2, <3>2
    <2>3. CASE i \notin M
        <3>1. Upto(i) = Upto(i - 1)
            <4>1. \A j \in M : j <= i <=> j <= i - 1
                BY <1>1, <2>3
            <4>2. QED
                BY <4>1
        <3> HIDE DEF Upto
        <3>2. QED
            BY <1>2, <2>1, <2>3, <3>1
    <2>4. QED
        BY <2>2, <2>3
<1>6. \A i : Rank(given, i) = Cardinality(Upto(i))
    BY DEF Rank, M
<1> HIDE DEF Upto
<1>7. QED
    BY <1>2, <1>3, <1>4, <1>5, <1>6 DEF n, M

\* A product of speedups grows with a speedup.
LEMMA ProductGrows ==
    ASSUME NEW x \in Nat \ {0}, NEW y \in Nat \ {0}, NEW p \in Nat \ {0}, NEW q \in Nat \ {0}, q < p
    PROVE  x * p \in Nat \ {0} /\ y * q \in Nat \ {0} /\ (x * p) * y > x * (y * q)
<1> DEFINE z == x * y
<1>1. z \in Int /\ z >= 1
    BY SMT
<1>2. z * p >= z * q + z
    BY <1>1, SMT
<1>3. (x * p) * y = z * p /\ x * (y * q) = z * q
    BY SMT
<1>4. x * p \in Nat \ {0} /\ y * q \in Nat \ {0}
    BY SMT
<1> HIDE DEF z
<1>5. QED
    BY <1>1, <1>2, <1>3, <1>4

\* The value of the series after i attempts of an accepted ledger.
SeriesIs(given, x, i) ==
    /\ x.product \in (Nat \ {0}) \X (Nat \ {0})
    /\ Len(x.points) = Rank(given, i)
    /\ x.product = IF Len(x.points) = 0 THEN << 1, 1 >> ELSE x.points[Len(x.points)].cumulative
    /\ \A j \in Merged(given) : j <= i =>
          /\ Rank(given, j) \in 1..Len(x.points)
          /\ x.points[Rank(given, j)].id = given.attempts[j].id
          /\ x.points[Rank(given, j)].starred = given.attempts[j].exception
    /\ \A k \in 1..Len(x.points) :
          /\ \E j \in Merged(given) : j <= i /\ Rank(given, j) = k
          /\ Faster(x.points[k].cumulative, IF k = 1 THEN << 1, 1 >> ELSE x.points[k - 1].cumulative)

LEMMA SeriesGrows ==
    ASSUME NEW given \in Ledgers, Accepted(given), NEW s, Grown(given, s)
    PROVE  \A i \in 0..Len(given.attempts) : SeriesIs(given, s[i], i)
<1> DEFINE n == Len(given.attempts)
           a == given.attempts
           M == Merged(given)
<1>1. /\ n \in Nat /\ DOMAIN a = 1..n /\ M \subseteq 1..n /\ \A i \in 1..n : a[i] \in Attempts
    <2>1. a \in Seq(Attempts)
        BY PublicationAssumption
    <2>2. n \in Nat /\ DOMAIN a = 1..n /\ \A i \in 1..n : a[i] \in Attempts
        BY <2>1, LenProperties, ElementOfSeq
    <2>3. QED
        BY <2>2 DEF Merged
<1>2. /\ Rank(given, 0) = 0 /\ \A i \in 0..n : Rank(given, i) \in Nat
      /\ \A i \in 1..n : Rank(given, i) = Rank(given, i - 1) + (IF i \in M THEN 1 ELSE 0)
    BY <1>1, RankIs
<1>3. \A i \in 1..n : /\ i \in M <=> a[i].status = "merged"
                      /\ i \in M => /\ a[i].progress # <<>>
                                    /\ 0 < a[i].progress[2] /\ a[i].progress[2] < a[i].progress[1]
                      /\ i \notin M => a[i].progress = <<>>
    BY <1>1 DEF Accepted, AcceptedAttempt, Merged
<1>4. /\ \A i \in 0..n : s[i] \in Series
      /\ s[0] = NoPoints
      /\ \A i \in 1..n : s[i] = Extended(s[i - 1], a[i])
    BY DEF Grown
<1> DEFINE Good == { i \in 0..n : SeriesIs(given, s[i], i) }
<1>5. 0 \in Good
    <2>1. s[0].product = << 1, 1 >> /\ s[0].points = <<>> /\ Len(s[0].points) = 0
        BY <1>4 DEF NoPoints
    <2>2. \A j \in M : ~ (j <= 0)
        BY <1>1
    <2>3. SeriesIs(given, s[0], 0)
        BY <1>2, <2>1, <2>2 DEF SeriesIs
    <2>4. QED
        BY <1>1, <2>3
<1>6. ASSUME NEW i \in 1..n, i - 1 \in Good PROVE i \in Good
    <2> DEFINE x == s[i - 1]
               y == s[i]
               m == Len(x.points)
    <2>1. /\ i - 1 \in 0..n /\ i \in 0..n /\ x \in Series /\ a[i] \in Attempts
          /\ y = Extended(x, a[i]) /\ SeriesIs(given, x, i - 1)
        BY <1>1, <1>4, <1>6
    <2>2. x.points \in Seq(Point) /\ m \in Nat
        BY <2>1, LenProperties DEF Series
    <2>3. CASE i \notin M
        <3>1. y = x
            BY <1>3, <2>1, <2>3, ExtendedIs
        <3>2. Rank(given, i) = Rank(given, i - 1)
            BY <1>2, <2>1, <2>3
        <3>3. \A j \in M : j <= i <=> j <= i - 1
            BY <1>1, <2>3
        <3> HIDE DEF M, x, y
        <3>4. SeriesIs(given, y, i)
            BY <2>1, <3>1, <3>2, <3>3 DEF SeriesIs, M
        <3>5. QED
            BY <2>1, <3>4 DEF y
    <2>4. CASE i \in M
        <3> DEFINE p == a[i].progress[1]
                   q == a[i].progress[2]
                   X == x.product[1]
                   Y == x.product[2]
        <3>1. /\ a[i].progress # <<>> /\ a[i].progress \in Nat \X Nat
              /\ 0 < q /\ q < p /\ p \in Nat \ {0} /\ q \in Nat \ {0}
            <4>1. a[i].progress # <<>> /\ 0 < q /\ q < p
                BY <1>3, <2>4
            <4>2. a[i].progress \in Nat \X Nat
                <5>1. a[i].progress \in { <<>> } \cup (Nat \X Nat)
                    BY <2>1, Zenon DEF Attempts
                <5>2. QED
                    BY <4>1, <5>1, Zenon
            <4>3. QED
                BY <4>1, <4>2
        <3>2. X \in Nat \ {0} /\ Y \in Nat \ {0} /\ x.product = << X, Y >>
            BY <2>1 DEF SeriesIs
        <3>3. /\ y.product = << X * p, Y * q >>
              /\ Len(y.points) = m + 1
              /\ \A k \in 1..m : y.points[k] = x.points[k]
              /\ y.points[m + 1] = [id |-> a[i].id, starred |-> a[i].exception,
                                    incremental |-> a[i].progress, cumulative |-> y.product]
            <4> HIDE DEF y
            <4>1. LET e == Extended(x, a[i]) IN
                    /\ e.product = << X * p, Y * q >>
                    /\ Len(e.points) = m + 1
                    /\ \A k \in 1..m : e.points[k] = x.points[k]
                    /\ e.points[m + 1] = [id |-> a[i].id, starred |-> a[i].exception,
                                          incremental |-> a[i].progress, cumulative |-> e.product]
                <5>1. x \in Series /\ a[i] \in Attempts /\ a[i].progress # <<>>
                    BY <2>1, <3>1
                <5> HIDE DEF x, a
                <5>2. QED
                    BY <5>1, ExtendedIs, Zenon
            <4>2. QED
                BY <2>1, <4>1, Zenon
        <3> HIDE DEF p, q, X, Y
        <3>4. X * p \in Nat \ {0} /\ Y * q \in Nat \ {0} /\ (X * p) * Y > X * (Y * q)
            BY <3>1, <3>2, ProductGrows
        <3>5. /\ y.points[m + 1].id = a[i].id /\ y.points[m + 1].starred = a[i].exception
              /\ y.points[m + 1].cumulative = y.product
            BY <3>3
        <3>15. Len(y.points) = m + 1 /\ \A k \in 1..m : k \in 1..Len(y.points) /\ y.points[k] = x.points[k]
            BY <2>2, <3>3
        <3>6. Faster(y.product, x.product)
            BY <3>2, <3>3, <3>4 DEF Faster
        <3>7. /\ m = Rank(given, i - 1) /\ Rank(given, i) = m + 1
            BY <1>2, <2>1, <2>4 DEF SeriesIs
        <3>8. \A j \in M : j <= i <=> (j <= i - 1 \/ j = i)
            BY <1>1
        <3>9. ASSUME NEW j \in M, j <= i
              PROVE  /\ Rank(given, j) \in 1..Len(y.points)
                     /\ y.points[Rank(given, j)].id = a[j].id
                     /\ y.points[Rank(given, j)].starred = a[j].exception
            <4>1. CASE j = i
                <5>1. Rank(given, j) = m + 1
                    BY <3>7, <4>1, Zenon
                <5>2. m + 1 \in 1..Len(y.points)
                    BY ONLY <2>2, <3>3
                <5>3. QED
                    BY <3>5, <4>1, <5>1, <5>2, Zenon
            <4>2. CASE j <= i - 1
                <5>1. /\ Rank(given, j) \in 1..m
                      /\ x.points[Rank(given, j)].id = a[j].id
                      /\ x.points[Rank(given, j)].starred = a[j].exception
                    BY <2>1, <3>9, <4>2 DEF SeriesIs
                <5>2. QED
                    <6> DEFINE r == Rank(given, j)
                    <6> HIDE DEF x, y, m, r
                    <6>1. r \in 1..m /\ x.points[r].id = a[j].id /\ x.points[r].starred = a[j].exception
                        BY <5>1 DEF r
                    <6>2. r \in 1..Len(y.points) /\ y.points[r] = x.points[r]
                        BY <3>15, <6>1
                    <6>3. QED
                        BY <6>1, <6>2 DEF r
            <4>3. QED
                BY <3>8, <3>9, <4>1, <4>2
        <3>10. ASSUME NEW k \in 1..Len(y.points)
               PROVE  /\ \E j \in M : j <= i /\ Rank(given, j) = k
                      /\ Faster(y.points[k].cumulative,
                                IF k = 1 THEN << 1, 1 >> ELSE y.points[k - 1].cumulative)
            <4>1. CASE k = m + 1
                <5>1. x.product = IF k = 1 THEN << 1, 1 >> ELSE x.points[m].cumulative
                    BY <2>1, <2>2, <4>1 DEF SeriesIs
                <5>2. k # 1 => x.points[m] = y.points[k - 1]
                    <6> HIDE DEF x, y, m
                    <6>1. k # 1 => m \in 1..m /\ k - 1 = m
                        BY <2>2, <4>1
                    <6>2. QED
                        BY <3>15, <6>1
                <5>3. x.product = IF k = 1 THEN << 1, 1 >> ELSE y.points[k - 1].cumulative
                    BY <5>1, <5>2
                <5>4. i <= i /\ Rank(given, i) = k
                    BY <3>7, <4>1
                <5>5. y.points[k].cumulative = y.product
                    BY <3>5, <4>1, Zenon
                <5>6. QED
                    BY <2>4, <3>6, <5>3, <5>4, <5>5, Zenon
            <4>2. CASE k # m + 1
                <5>1. k \in 1..m
                    <6>1. m \in Nat /\ k \in 1..(m + 1)
                        BY <2>2, <3>10, <3>15, Zenon
                    <6> HIDE DEF m
                    <6>2. QED
                        BY ONLY <4>2, <6>1
                <5>2. /\ \E j \in M : j <= i - 1 /\ Rank(given, j) = k
                      /\ Faster(x.points[k].cumulative,
                                IF k = 1 THEN << 1, 1 >> ELSE x.points[k - 1].cumulative)
                    BY <2>1, <5>1 DEF SeriesIs
                <5>3. y.points[k] = x.points[k] /\ (k # 1 => y.points[k - 1] = x.points[k - 1])
                    <6> HIDE DEF x, y, m
                    <6>1. k # 1 => k - 1 \in 1..m
                        BY <2>2, <5>1
                    <6>2. QED
                        BY <3>15, <5>1, <6>1
                <5>4. \E j \in M : j <= i /\ Rank(given, j) = k
                    BY <3>8, <5>2
                <5>5. QED
                    BY <5>2, <5>3, <5>4
            <4>3. QED
                BY <4>1, <4>2, Zenon
        <3>11. y.product \in (Nat \ {0}) \X (Nat \ {0})
            BY <3>3, <3>4
        <3>12. y.product = IF Len(y.points) = 0 THEN << 1, 1 >> ELSE y.points[Len(y.points)].cumulative
            BY <2>2, <3>3, <3>5
        <3> HIDE DEF M, x, y, m
        <3>13. SeriesIs(given, y, i)
            BY <3>3, <3>7, <3>9, <3>10, <3>11, <3>12 DEF SeriesIs, M
        <3>14. QED
            BY <2>1, <3>13 DEF y
    <2>5. QED
        BY <2>3, <2>4
<1> HIDE DEF Good
<1>7. 0..n \subseteq Good
    BY <1>1, <1>5, <1>6, Induction
<1>8. QED
    BY <1>7 DEF Good

\* A set of numbers up to n that is not empty has a greatest.
LEMMA MaxIsMember ==
    ASSUME NEW n \in Nat, NEW S \in SUBSET (1..n), S # {}
    PROVE  Max(S) \in S /\ \A x \in S : x <= Max(S)
<1> DEFINE T == { n - x : x \in S }
<1>1. T \in SUBSET Nat /\ T # {}
    <2>1. \A x \in S : n - x \in Nat
        OBVIOUS
    <2>2. QED
        BY <2>1
<1> HIDE DEF T
<1>2. PICK y \in T : \A z \in T : y <= z
    BY <1>1, LeastOf
<1> USE DEF T
<1>3. PICK x \in S : y = n - x
    BY <1>2
<1>4. \A z \in S : n - x <= n - z
    BY <1>2, <1>3
<1>5. \A z \in S : x >= z
    BY <1>4
<1>6. \E w \in S : \A z \in S : w >= z
    BY <1>5
<1>7. Max(S) \in S /\ \A z \in S : Max(S) >= z
    BY <1>6, Zenon DEF Max
<1>8. QED
    BY <1>7

LEMMA ProgressFollows ==
    ASSUME NEW given \in Ledgers
    PROVE  ProgressIsTrue(given)
<1> DEFINE n == Len(given.attempts)
           a == given.attempts
           M == Merged(given)
           points == ProgressPoints(given)
<1> SUFFICES ASSUME Accepted(given) PROVE ProgressIsTrue(given)
    BY DEF ProgressIsTrue
<1>1. PICK s : Grown(given, s) /\ points = s[n].points
    BY ProgressGrows
<1>2. n \in Nat /\ DOMAIN a = 1..n /\ M \subseteq 1..n
    <2>1. a \in Seq(Attempts)
        BY PublicationAssumption
    <2>2. n \in Nat /\ DOMAIN a = 1..n
        BY <2>1, LenProperties
    <2>3. QED
        BY <2>2 DEF Merged
<1>3. SeriesIs(given, s[n], n) /\ s[n] \in Series
    <2>1. n \in 0..n
        BY <1>2
    <2>2. SeriesIs(given, s[n], n)
        BY <1>1, <2>1, SeriesGrows
    <2>3. s[n] \in Series
        BY <1>1, <2>1, Zenon DEF Grown
    <2>4. QED
        BY <2>2, <2>3
<1>4. points \in Seq(Point) /\ Len(points) \in Nat /\ DOMAIN points = 1..Len(points)
    BY <1>1, <1>3, LenProperties DEF Series
<1>5. Len(points) = Cardinality(M) /\ \A i \in 0..n : Rank(given, i) \in Nat
    BY <1>1, <1>2, <1>3, RankIs DEF SeriesIs
<1>6. \A j \in M : /\ Rank(given, j) \in 1..Len(points)
                   /\ points[Rank(given, j)].id = a[j].id
                   /\ points[Rank(given, j)].starred = a[j].exception
    BY <1>1, <1>2, <1>3 DEF SeriesIs
<1>7. \A k \in 1..Len(points) :
         /\ \E j \in M : Rank(given, j) = k
         /\ Faster(points[k].cumulative, IF k = 1 THEN << 1, 1 >> ELSE points[k - 1].cumulative)
    BY <1>1, <1>2, <1>3 DEF SeriesIs
<1>8. \A i, j \in 1..n : a[i].id = a[j].id => i = j
    BY <1>2 DEF Accepted
<1>9. \A k, l \in DOMAIN points : points[k].id = points[l].id => k = l
    <2> SUFFICES ASSUME NEW k \in 1..Len(points), NEW l \in 1..Len(points),
                        points[k].id = points[l].id
                 PROVE  k = l
        BY <1>4
    <2>1. PICK i \in M : Rank(given, i) = k
        BY <1>7
    <2>2. PICK j \in M : Rank(given, j) = l
        BY <1>7
    <2>3. a[i].id = a[j].id
        BY <1>6, <2>1, <2>2
    <2>4. i = j
        BY <1>2, <1>8, <2>3
    <2>5. QED
        BY <2>1, <2>2, <2>4
<1>10. Max(M) \in M /\ \A j \in M : j <= Max(M)
    <2>1. M # {}
        BY DEF Accepted
    <2> HIDE DEF M, n
    <2>2. QED
        BY <1>2, <2>1, MaxIsMember
<1>11. Rank(given, Max(M)) = Len(points)
    <2>1. { j \in M : j <= Max(M) } = M
        BY <1>10
    <2>2. QED
        BY <1>5, <2>1 DEF Rank
<1>12. Len(points) # 0 /\ points # <<>>
    <2>1. Len(points) # 0
        BY <1>4, <1>6, <1>10, <1>11
    <2>2. QED
        BY <2>1
<1>13. Last(points).id = LatestMerged(given).id
    BY <1>6, <1>10, <1>11, Zenon DEF Last, LatestMerged
<1>14. \E x \in ToSet(given.snapshots) : x.current /\ x.revision = LatestMerged(given).candidate
    <2>1. given.snapshots[1].current /\ given.snapshots[1].revision = LatestMerged(given).candidate
        BY DEF Accepted
    <2>2. DOMAIN given.snapshots = 1..Len(given.snapshots) /\ Len(given.snapshots) \in Nat
        BY PublicationAssumption, LenProperties
    <2>3. given.snapshots # <<>> /\ Len(given.snapshots) # 0
        <3> SUFFICES ASSUME Len(given.snapshots) = 0 PROVE FALSE
            BY <2>2
        <3>1. { i \in DOMAIN given.snapshots : given.snapshots[i].current } = {}
            <4>1. DOMAIN given.snapshots = {}
                BY <2>2
            <4>2. QED
                BY <4>1
        <3>2. Cardinality({ i \in DOMAIN given.snapshots : given.snapshots[i].current }) = 1
            BY Zenon DEF Accepted
        <3>3. Cardinality({}) = 1
            BY <3>1, <3>2, Zenon
        <3>4. QED
            BY <3>3, FS_EmptySet
    <2>4. 1 \in DOMAIN given.snapshots
        BY <2>2, <2>3
    <2>5. given.snapshots[1] \in ToSet(given.snapshots)
        BY <2>4 DEF ToSet
    <2>6. QED
        BY <2>1, <2>5
<1> HIDE DEF M, points, a, n
<1>15. Drawable(given)
    BY <1>12 DEF Drawable, points
<1>16. \A i \in M : Cardinality({ j \in M : j <= i }) = Rank(given, i)
    BY DEF Rank, M
<1>17. \A i \in M : /\ points[Cardinality({ j \in M : j <= i })].id = a[i].id
                    /\ points[Cardinality({ j \in M : j <= i })].starred = a[i].exception
    BY <1>6, <1>16
<1>18. \A k \in DOMAIN points :
          Faster(points[k].cumulative, IF k = 1 THEN << 1, 1 >> ELSE points[k - 1].cumulative)
    BY <1>4, <1>7
<1>19. QED
    BY <1>5, <1>9, <1>13, <1>14, <1>15, <1>17, <1>18, Zenon DEF ProgressIsTrue, points, M, a

-----------------------------------------------------------------------------
(* Paths. *)

OutputPaths == { Markdown, Html, Svg }
UniverseOf(files) == { p \in DOMAIN files : InUniverse(p) }
UniversePaths(files) == Pages(files) \cup { Index } \cup Assets(files)

\* What a path is of shows in its first part.
LEMMA PathsAreApart ==
    /\ Markdown[1] = "source" /\ Html[1] = "docs" /\ Svg[1] = "docs"
    /\ Markdown # Html /\ Markdown # Svg /\ Html # Svg
    /\ \A p \in OutputPaths : ~ InUniverse(p) /\ p = << p[1], p[2] >>
    /\ \A s : Mirror(s) = << "universe page", s[2] >> /\ Mirror(s)[1] = "universe page"
              /\ Mirror(s)[2] = s[2]
    /\ \A d : Asset(d) = << "universe drawing", d >> /\ Asset(d)[1] = "universe drawing"
              /\ Asset(d)[2] = d
    /\ Index[1] = "universe" /\ Index = << Index[1], Index[2] >>
    /\ \A p : InUniverse(p) <=> p[1] \in { "universe", "universe page", "universe drawing" }
BY DEF Markdown, Html, Svg, Source, Mirror, Asset, Index, InUniverse, OutputPaths

\* Of a tree's sources.
LEMMA SourcesAre ==
    ASSUME NEW files, IsTree(files)
    PROVE  /\ MarkdownSources(files) \subseteq DOMAIN files
           /\ \A s \in MarkdownSources(files) :
                 /\ s[1] = "source" /\ s = Source(s[2]) /\ ~ InUniverse(s)
                 /\ Source(Mirror(s)[2]) = s
<1>1. \A s \in MarkdownSources(files) :
         s \in DOMAIN files /\ s[1] = "source" /\ s = << s[1], s[2] >>
    BY DEF MarkdownSources, IsTree
<1>2. QED
    BY <1>1, PathsAreApart, Zenon DEF Source

\* The pages of the universe lie in it, and are different from its index and its drawings.
LEMMA UniversePathsAre ==
    ASSUME NEW files
    PROVE  /\ \A p \in UniversePaths(files) : InUniverse(p) /\ p = << p[1], p[2] >>
           /\ \A p \in Assets(files) : p # Index /\ \A s : p # Mirror(s)
           /\ \A s : Mirror(s) # Index
           /\ \A p \in UniversePaths(files) : p \in Assets(files) <=> p[1] = "universe drawing"
<1>1. ASSUME NEW p \in Assets(files)
      PROVE  InUniverse(p) /\ p = << p[1], p[2] >> /\ p[1] = "universe drawing"
    <2>1. PICK d : p = Asset(d)
        BY DEF Assets
    <2>2. QED
        BY <2>1, PathsAreApart, Zenon
<1>2. ASSUME NEW s PROVE InUniverse(Mirror(s)) /\ Mirror(s) = << Mirror(s)[1], Mirror(s)[2] >>
    BY PathsAreApart, Zenon
<1>3. InUniverse(Index) /\ Index = << Index[1], Index[2] >>
    BY PathsAreApart, Zenon
<1>4. ASSUME NEW p \in UniversePaths(files) PROVE InUniverse(p) /\ p = << p[1], p[2] >>
    BY <1>1, <1>2, <1>3, Zenon DEF UniversePaths, Pages
<1>5. \A s : Mirror(s) # Index
    BY PathsAreApart, Zenon
<1>6. \A p \in Assets(files) : p # Index /\ \A s : p # Mirror(s)
    BY <1>1, PathsAreApart, Zenon
<1>7. ASSUME NEW p \in UniversePaths(files) PROVE p \in Assets(files) <=> p[1] = "universe drawing"
    <2>1. p \in Assets(files) \/ p = Index \/ \E s : p = Mirror(s)
        BY DEF UniversePaths, Pages
    <2>2. Index[1] # "universe drawing" /\ \A s : Mirror(s)[1] # "universe drawing"
        BY PathsAreApart
    <2>3. QED
        BY <1>1, <2>1, <2>2
<1>8. QED
    BY <1>4, <1>5, <1>6, <1>7

\* What a universe holds at each of its paths.
LEMMA UniverseIs ==
    ASSUME NEW files, IsTree(files), NEW drawings, DOMAIN drawings = Assets(files)
    PROVE  /\ DOMAIN Universe(files, drawings) = UniversePaths(files)
           /\ Universe(files, drawings)[Index] = RenderIndex(files)
           /\ \A p \in Assets(files) : Universe(files, drawings)[p] = drawings[p]
           /\ \A s \in MarkdownSources(files) :
                 Universe(files, drawings)[Mirror(s)] = RenderDocument(s, files)
<1> DEFINE u == Universe(files, drawings)
<1>1. /\ DOMAIN u = UniversePaths(files)
      /\ \A p \in UniversePaths(files) :
            u[p] = IF p = Index THEN RenderIndex(files)
                   ELSE IF p \in Assets(files) THEN drawings[p] ELSE RenderDocument(Source(p[2]), files)
    BY DEF Universe, UniversePaths
<1> HIDE DEF u
<1>2. /\ Index \in UniversePaths(files) /\ Assets(files) \subseteq UniversePaths(files)
      /\ \A s \in MarkdownSources(files) : Mirror(s) \in UniversePaths(files)
    BY DEF UniversePaths, Pages
<1>3. u[Index] = RenderIndex(files)
    BY <1>1, <1>2
<1>4. \A p \in Assets(files) : u[p] = drawings[p]
    BY <1>1, <1>2, UniversePathsAre
<1>5. ASSUME NEW s \in MarkdownSources(files) PROVE u[Mirror(s)] = RenderDocument(s, files)
    <2>1. /\ Mirror(s) \in UniversePaths(files) /\ Mirror(s) # Index /\ Mirror(s) \notin Assets(files)
        BY <1>2, UniversePathsAre
    <2>2. Source(Mirror(s)[2]) = s
        BY SourcesAre
    <2>3. u[Mirror(s)] = RenderDocument(Source(Mirror(s)[2]), files)
        BY <1>1, <2>1
    <2>4. QED
        BY <2>2, <2>3
<1>6. QED
    BY <1>1, <1>3, <1>4, <1>5 DEF u

\* A universe is finite.
LEMMA UniverseIsFinite ==
    ASSUME NEW files, IsTree(files)
    PROVE  IsFiniteSet(UniversePaths(files))
<1> DEFINE M == MarkdownSources(files)
           D == { files[s].diagrams : s \in M }
<1>1. IsFiniteSet(M) /\ \A s \in M : IsFiniteSet(files[s].diagrams)
    <2>1. IsFiniteSet(DOMAIN files) /\ M \subseteq DOMAIN files
        BY SourcesAre DEF IsTree
    <2>2. \A s \in M : IsFiniteSet(files[s].diagrams)
        BY <2>1, SourcesAre DEF IsTree
    <2>3. QED
        BY <2>1, <2>2, FS_Subset
<1> HIDE DEF M
<1>2. IsFiniteSet({ Mirror(s) : s \in M })
    <2> DEFINE f == [s \in M |-> Mirror(s)]
               T == { Mirror(s) : s \in M }
    <2>1. f \in Surjection(M, T)
        BY DEF Surjection
    <2> HIDE DEF f, T
    <2>2. IsFiniteSet(T)
        BY <1>1, <2>1, FS_Surjection
    <2>3. QED
        BY <2>2 DEF T
<1>3. IsFiniteSet(D)
    <2> DEFINE f == [s \in M |-> files[s].diagrams]
    <2>1. f \in Surjection(M, D)
        BY DEF Surjection
    <2> HIDE DEF f, D
    <2>2. QED
        BY <1>1, <2>1, FS_Surjection
<1>4. IsFiniteSet(UNION D)
    <2>1. \A x \in D : IsFiniteSet(x)
        BY <1>1
    <2> HIDE DEF D
    <2>2. QED
        BY <1>3, <2>1, FS_UNION
<1>5. MermaidDiagrams(files) = UNION D
    BY DEF MermaidDiagrams, M
<1>6. IsFiniteSet({ Asset(d) : d \in UNION D })
    <2> DEFINE E == UNION D
               T == { Asset(d) : d \in E }
               f == [d \in E |-> Asset(d)]
    <2>1. f \in Surjection(E, T)
        BY DEF Surjection
    <2> HIDE DEF E, T, f
    <2>2. IsFiniteSet(E)
        BY <1>4 DEF E
    <2>3. IsFiniteSet(T)
        BY <2>1, <2>2, FS_Surjection
    <2>4. QED
        BY <2>3 DEF T, E
<1>7. Assets(files) = { Asset(d) : d \in UNION D }
    BY <1>5 DEF Assets
<1>8. IsFiniteSet({ Index })
    BY FS_Singleton
<1>9. UniversePaths(files) = ({ Mirror(s) : s \in M } \cup { Index }) \cup Assets(files)
    BY DEF UniversePaths, Pages, M
<1> HIDE DEF D
<1>10. IsFiniteSet(Assets(files))
    BY <1>6, <1>7, Zenon
<1>11. IsFiniteSet({ Mirror(s) : s \in M } \cup { Index })
    BY <1>2, <1>8, FS_Union
<1> DEFINE U == { Mirror(s) : s \in M } \cup { Index }
<1>12. IsFiniteSet(U \cup Assets(files))
    <2> HIDE DEF U
    <2>1. IsFiniteSet(U)
        BY <1>11 DEF U
    <2>2. QED
        BY <1>10, <2>1, FS_Union
<1>13. QED
    BY <1>9, <1>12, Zenon

-----------------------------------------------------------------------------
(* Trees that hold the same. *)

SameSources(f, g) ==
    \A p : p[1] = "source" =>
        /\ p \in DOMAIN f <=> p \in DOMAIN g
        /\ p \in DOMAIN f => f[p] = g[p]

SameOutside(f, g) ==
    \A p : ~ InUniverse(p) =>
        /\ p \in DOMAIN f <=> p \in DOMAIN g
        /\ p \in DOMAIN f => f[p] = g[p]

\* What is generated from the sources is the same where the sources are.
LEMMA SourcesDecide ==
    ASSUME NEW f, NEW g, SameSources(f, g)
    PROVE  /\ MarkdownSources(f) = MarkdownSources(g)
           /\ \A s \in MarkdownSources(f) : f[s] = g[s]
           /\ Assets(f) = Assets(g) /\ UniversePaths(f) = UniversePaths(g)
           /\ Terminated(f) <=> Terminated(g)
           /\ RenderIndex(f) = RenderIndex(g)
           /\ \A given : LedgerHtml(given, f) = LedgerHtml(given, g)
           /\ \A given : LooksIntoUniverse(given, f) <=> LooksIntoUniverse(given, g)
<1>1. MarkdownSources(f) = MarkdownSources(g)
    BY DEF SameSources, MarkdownSources
<1>2. \A s \in MarkdownSources(f) : f[s] = g[s]
    BY DEF SameSources, MarkdownSources
<1>3. Assets(f) = Assets(g) /\ (Terminated(f) <=> Terminated(g))
    <2>1. { f[s].diagrams : s \in MarkdownSources(f) } = { g[s].diagrams : s \in MarkdownSources(g) }
        BY <1>1, <1>2
    <2>2. MermaidDiagrams(f) = MermaidDiagrams(g)
        BY <2>1, Zenon DEF MermaidDiagrams
    <2>3. QED
        BY <2>2 DEF Assets, Terminated
<1>4. UniversePaths(f) = UniversePaths(g)
    BY <1>1, <1>3 DEF UniversePaths, Pages
<1>5. RenderIndex(f) = RenderIndex(g)
    <2>1. [p \in MarkdownSources(f) |-> f[p].text] = [p \in MarkdownSources(g) |-> g[p].text]
        BY <1>1, <1>2
    <2>2. QED
        BY <2>1, Zenon DEF RenderIndex
<1>6. ASSUME NEW given PROVE LedgerHtml(given, f) = LedgerHtml(given, g)
    BY <1>1, Zenon DEF LedgerHtml
<1>7. ASSUME NEW given PROVE LooksIntoUniverse(given, f) <=> LooksIntoUniverse(given, g)
    BY <1>1, <1>2 DEF LooksIntoUniverse
<1>8. QED
    BY <1>1, <1>2, <1>3, <1>4, <1>5, <1>6, <1>7

\* The files there will be once the universe is written, and a page with its links to them.
Final(files) == { p \in DOMAIN files : ~ InUniverse(p) } \cup UniversePaths(files)

LastingUrl(link, files) ==
    IF link \in MarkdownSources(files) THEN Mirror(link)
    ELSE IF link \in Final(files) THEN link ELSE << "as written" >>

LastingPage(source, files) ==
    [document |-> files[source],
     targets |-> [link \in files[source].links |-> LastingUrl(link, files)]]

\* A drawing with its mark and its end.
WholeDrawing(c, p) == BoundTo(c, p[2]) /\ ~ CutShort(c)

\* What a path of the universe may hold while it is written.
PageFits(steady, files, p, c) ==
    /\ p = Index => c = RenderIndex(files)
    /\ p \in Assets(files) => WholeDrawing(c, p)
    /\ \A s \in MarkdownSources(files) : p = Mirror(s) /\ steady => c = LastingPage(s, files)

LEMMA OutsideDecides ==
    ASSUME NEW f, NEW g, SameOutside(f, g)
    PROVE  /\ SameSources(f, g)
           /\ \A steady, p, c : PageFits(steady, f, p, c) => PageFits(steady, g, p, c)
<1>1. SameSources(f, g)
    BY PathsAreApart, Zenon DEF SameOutside, SameSources
<1>2. Final(f) = Final(g)
    <2>1. UniversePaths(f) = UniversePaths(g)
        BY <1>1, SourcesDecide
    <2>2. { p \in DOMAIN f : ~ InUniverse(p) } = { p \in DOMAIN g : ~ InUniverse(p) }
        BY DEF SameOutside
    <2>3. QED
        BY <2>1, <2>2, Zenon DEF Final
<1>3. /\ MarkdownSources(f) = MarkdownSources(g) /\ Assets(f) = Assets(g)
      /\ RenderIndex(f) = RenderIndex(g)
      /\ \A s \in MarkdownSources(f) : f[s] = g[s]
    BY <1>1, SourcesDecide
<1>4. \A link : LastingUrl(link, f) = LastingUrl(link, g)
    BY <1>2, <1>3, Zenon DEF LastingUrl
<1>5. ASSUME NEW s \in MarkdownSources(f) PROVE LastingPage(s, f) = LastingPage(s, g)
    <2>1. f[s] = g[s]
        BY <1>3
    <2>2. [link \in f[s].links |-> LastingUrl(link, f)] = [link \in g[s].links |-> LastingUrl(link, g)]
        BY <1>4, <2>1
    <2>3. QED
        BY <2>1, <2>2, Zenon DEF LastingPage
<1>6. ASSUME NEW steady, NEW p, NEW c, PageFits(steady, f, p, c) PROVE PageFits(steady, g, p, c)
    BY <1>3, <1>5, <1>6, Zenon DEF PageFits
<1>7. QED
    BY <1>1, <1>6

-----------------------------------------------------------------------------
(* Queues, and single writes. *)

\* A listing of a finite set goes through all of it.
LEMMA ListingIs ==
    ASSUME NEW S, IsFiniteSet(S)
    PROVE  /\ Cardinality(S) \in Nat
           /\ SetToSeq(S) \in [1..Cardinality(S) -> S]
           /\ \A x \in S : \E i \in 1..Cardinality(S) : SetToSeq(S)[i] = x
<1>1. PICK n \in Nat : ExistsBijection(1..n, S)
    BY FS_NatBijection
<1>2. Cardinality(S) = n
    BY <1>1, FS_CountingElements
<1>3. PICK f : f \in Bijection(1..n, S)
    BY <1>1 DEF ExistsBijection
<1>4. f \in [1..n -> S] /\ IsInjective(f)
    BY <1>3 DEF Bijection, Injection, IsInjective
<1>5. SetToSeq(S) \in [1..n -> S] /\ IsInjective(SetToSeq(S))
    BY <1>2, <1>4, Zenon DEF SetToSeq
<1> DEFINE g == SetToSeq(S)
<1>6. g \in Injection(1..n, S)
    BY <1>5 DEF Injection, IsInjective
<1> HIDE DEF g
<1>7. IsFiniteSet(1..n) /\ Cardinality(1..n) = n
    BY FS_Interval
<1>8. g \in Surjection(1..n, S)
    BY <1>2, <1>6, <1>7, FS_Injection
<1>9. QED
    BY <1>2, <1>5, <1>8 DEF Surjection, g

\* A sequence, whatever it is of.
IsQueue(q) == q \in Seq(Range(q))

LEMMA QueueIs ==
    ASSUME NEW n \in Nat, NEW q, q = [i \in 1..n |-> q[i]]
    PROVE  IsQueue(q) /\ Range(q) = { q[i] : i \in 1..n }
<1>1. DOMAIN q = 1..n
    OBVIOUS
<1>2. q \in [1..n -> Range(q)] /\ Range(q) = { q[i] : i \in 1..n }
    BY <1>1 DEF Range
<1>3. QED
    BY <1>2 DEF IsQueue

\* What is taken from a queue, and what stays.
LEMMA TakenFromQueue ==
    ASSUME NEW q, IsQueue(q), q # <<>>
    PROVE  /\ IsQueue(Tail(q)) /\ Head(q) \in Range(q) /\ Range(Tail(q)) \subseteq Range(q)
           /\ \A x \in Range(q) : x = Head(q) \/ x \in Range(Tail(q))
<1> DEFINE S == Range(q)
           t == Tail(q)
<1>1. q \in Seq(S)
    BY DEF IsQueue
<1> HIDE DEF S
<1>2. Len(q) \in Nat /\ Len(q) # 0 /\ DOMAIN q = 1..Len(q)
    BY <1>1, LenProperties, EmptySeq
<1>3. Head(q) = q[1] /\ t \in Seq(S) /\ Len(t) = Len(q) - 1
      /\ \A i \in 1..(Len(q) - 1) : t[i] = q[i + 1]
    BY <1>1, <1>2, HeadTailProperties
<1>4. DOMAIN t = 1..(Len(q) - 1) /\ t = [i \in 1..(Len(q) - 1) |-> t[i]]
    BY <1>2, <1>3, LenProperties
<1> HIDE DEF t
<1>5. Len(q) - 1 \in Nat
    BY <1>2
<1>6. IsQueue(t) /\ Range(t) = { t[i] : i \in 1..(Len(q) - 1) }
    BY <1>4, <1>5, QueueIs
<1>7. S = { q[i] : i \in 1..Len(q) }
    BY <1>2 DEF Range, S
<1>8. Head(q) \in S
    BY <1>2, <1>3, <1>7
<1>9. Range(t) \subseteq S
    BY <1>2, <1>3, <1>6, <1>7
<1>10. ASSUME NEW x \in S, x # Head(q) PROVE x \in Range(t)
    <2>1. PICK i \in 1..Len(q) : x = q[i]
        BY <1>7
    <2>2. i - 1 \in 1..(Len(q) - 1) /\ (i - 1) + 1 = i
        BY <1>2, <1>3, <1>10, <2>1
    <2>3. t[i - 1] = x
        BY <1>3, <2>1, <2>2
    <2>4. QED
        BY <1>6, <2>2, <2>3
<1>11. QED
    BY <1>6, <1>8, <1>9, <1>10 DEF S, t

\* One file is written.
LEMMA WrittenIs ==
    ASSUME NEW f, NEW path, NEW c
    PROVE  /\ DOMAIN Written(f, path, c) = DOMAIN f \cup { path }
           /\ Written(f, path, c)[path] = c
           /\ \A p \in DOMAIN f : p # path => Written(f, path, c)[p] = f[p]
BY DEF Written

LEMMA WrittenTree ==
    ASSUME NEW f, IsTree(f), NEW path, path = << path[1], path[2] >>, NEW c,
           path[1] = "source" => IsFiniteSet(c.diagrams),
           InUniverse(path) \/ path \in OutputPaths \/ c # Torn
    PROVE  IsTree(Written(f, path, c))
<1> DEFINE g == Written(f, path, c)
<1>1. /\ DOMAIN g = DOMAIN f \cup { path } /\ g[path] = c
      /\ \A p \in DOMAIN f : p # path => g[p] = f[p]
    BY DEF Written
<1> HIDE DEF g
<1>2. IsFiniteSet(DOMAIN g)
    <2> DEFINE D == DOMAIN f
               P == { path }
    <2>1. IsFiniteSet(D) /\ IsFiniteSet(P)
        BY FS_Singleton DEF IsTree
    <2>2. DOMAIN g = D \cup P
        BY <1>1
    <2> HIDE DEF D, P
    <2>3. IsFiniteSet(D \cup P)
        BY <2>1, FS_Union
    <2>4. QED
        BY <2>2, <2>3
<1>3. ASSUME NEW p \in DOMAIN g
      PROVE  /\ p = << p[1], p[2] >>
             /\ p[1] = "source" => IsFiniteSet(g[p].diagrams)
             /\ ~ InUniverse(p) /\ p \notin OutputPaths => g[p] # Torn
    <2>1. CASE p = path
        BY <1>1, <2>1
    <2>2. CASE p # path
        <3>1. p \in DOMAIN f /\ g[p] = f[p]
            BY <1>1, <1>3, <2>2
        <3>2. QED
            BY <3>1 DEF IsTree, OutputPaths
    <2>3. QED
        BY <2>1, <2>2
<1>4. QED
    BY <1>2, <1>3 DEF IsTree, OutputPaths, g

LEMMA WithoutTree ==
    ASSUME NEW f, IsTree(f), NEW gone
    PROVE  IsTree(Without(f, gone))
<1> DEFINE g == Without(f, gone)
<1>1. DOMAIN g = DOMAIN f \ gone /\ \A p \in DOMAIN g : p \in DOMAIN f /\ g[p] = f[p]
    BY DEF Without
<1> HIDE DEF g
<1>2. IsFiniteSet(DOMAIN g)
    <2>1. IsFiniteSet(DOMAIN f) /\ DOMAIN g \subseteq DOMAIN f
        BY <1>1 DEF IsTree
    <2>2. QED
        BY <2>1, FS_Subset
<1>3. QED
    BY <1>1, <1>2 DEF IsTree, g

\* Writing or removing what lies in the universe leaves the rest.
LEMMA WrittenInside ==
    ASSUME NEW f, NEW path, InUniverse(path), NEW c
    PROVE  SameOutside(f, Written(f, path, c))
BY DEF SameOutside, Written

LEMMA WithoutInside ==
    ASSUME NEW f, NEW gone, \A p \in gone : InUniverse(p)
    PROVE  SameOutside(f, Without(f, gone))
BY DEF SameOutside, Without

-----------------------------------------------------------------------------
(* The phases of a render of the ledger l, after r renders, over the files f, with the *)
(* queue q. *)

OutputFits(l, r, f, p, c) ==
    /\ p = Markdown => c = LedgerMarkdown(l)
    /\ p = Svg => c = [points |-> ProgressPoints(l)]
    /\ p = Html /\ (r >= 1 \/ Markdown \notin l.evidence) => c = LedgerHtml(l, f)

\* An earlier render is complete.
Settled(l, r, f) ==
    r >= 1 =>
        /\ Markdown \in DOMAIN f /\ f[Markdown] = LedgerMarkdown(l)
        /\ UniverseOf(f) = UniversePaths(f)

\* Each output is written, or waits to be.
OutputsWait(l, r, f, q) ==
    /\ \A x \in Range(q) : x[1] \in OutputPaths /\ OutputFits(l, r, f, x[1], x[2])
    /\ \A p \in OutputPaths : \/ \E x \in Range(q) : x[1] = p
                             \/ (p \in DOMAIN f /\ OutputFits(l, r, f, p, f[p]))

OutputsWritten(l, r, f) == \A p \in OutputPaths : p \in DOMAIN f /\ OutputFits(l, r, f, p, f[p])

\* The links of the universe do not depend on what this render replaces.
Steady(l, r, f) == r >= 1 \/ ~ LooksIntoUniverse(l, f)

\* Each file of the universe waits to be written, or is.
UniverseWaits(l, r, f, q, paths) ==
    /\ Terminated(f)
    /\ \A x \in Range(q) :
          x[1] \in UniversePaths(f) /\ PageFits(Steady(l, r, f), f, x[1], x[2])
    /\ \A p \in paths :
          p \in UniversePaths(f) /\ p \in DOMAIN f /\ PageFits(Steady(l, r, f), f, p, f[p])
    /\ \A p \in UniversePaths(f) : p \in paths \/ \E x \in Range(q) : x[1] = p

\* A render begins with the outputs generated from the files as they are.
LEMMA OutputsGenerated ==
    ASSUME NEW l, NEW r, NEW f
    PROVE  IsQueue(Outputs(l, f)) /\ OutputsWait(l, r, f, Outputs(l, f))
<1> DEFINE q == Outputs(l, f)
<1>1. /\ q = [i \in 1..3 |-> q[i]]
      /\ q[1] = << Markdown, LedgerMarkdown(l) >> /\ q[2] = << Html, LedgerHtml(l, f) >>
      /\ q[3] = << Svg, [points |-> ProgressPoints(l)] >>
    BY DEF Outputs
<1> HIDE DEF q
<1>2. IsQueue(q) /\ Range(q) = { q[i] : i \in 1..3 }
    <2>1. 3 \in Nat /\ q = [i \in 1..3 |-> q[i]]
        BY <1>1
    <2>2. QED
        BY ONLY <2>1, QueueIs, Zenon
<1>3. Range(q) = { q[1], q[2], q[3] }
    <2>1. 1..3 = { 1, 2, 3 }
        OBVIOUS
    <2>2. QED
        BY <1>2, <2>1
<1>4. /\ q[1][1] = Markdown /\ q[1][2] = LedgerMarkdown(l)
      /\ q[2][1] = Html /\ q[2][2] = LedgerHtml(l, f)
      /\ q[3][1] = Svg /\ q[3][2] = [points |-> ProgressPoints(l)]
    BY <1>1
<1>5. /\ OutputFits(l, r, f, q[1][1], q[1][2]) /\ OutputFits(l, r, f, q[2][1], q[2][2])
      /\ OutputFits(l, r, f, q[3][1], q[3][2])
    BY <1>4, PathsAreApart, Zenon DEF OutputFits
<1>6. \A x \in Range(q) : x[1] \in OutputPaths /\ OutputFits(l, r, f, x[1], x[2])
    BY <1>3, <1>4, <1>5 DEF OutputPaths
<1>7. \A p \in OutputPaths : \E x \in Range(q) : x[1] = p
    BY <1>3, <1>4 DEF OutputPaths
<1>8. QED
    BY <1>2, <1>6, <1>7 DEF OutputsWait, q

\* Writing an output again changes nothing; writing it anew changes no link of the evidence
\* but one to the ledger itself.
LEMMA OutputWritten ==
    ASSUME NEW l, NEW r \in Nat, NEW f, Settled(l, r, f), NEW path \in OutputPaths,
           NEW c, OutputFits(l, r, f, path, c), NEW g, g = Written(f, path, c)
    PROVE  /\ r >= 1 => SameSources(f, g)
           /\ UniverseOf(g) = UniverseOf(f)
           /\ \A p, x : OutputFits(l, r, f, p, x) => OutputFits(l, r, g, p, x)
<1>1. /\ DOMAIN g = DOMAIN f \cup { path } /\ g[path] = c
      /\ \A p \in DOMAIN f : p # path => g[p] = f[p]
    BY DEF Written
<1>2. ~ InUniverse(path) /\ (path # Markdown => path[1] # "source")
    BY PathsAreApart, Zenon DEF OutputPaths
<1>3. UniverseOf(g) = UniverseOf(f)
    BY <1>1, <1>2 DEF UniverseOf
<1>4. CASE path # Markdown
    <2>1. SameSources(f, g)
        BY <1>1, <1>2, <1>4 DEF SameSources
    <2>2. \A p, x : OutputFits(l, r, f, p, x) => OutputFits(l, r, g, p, x)
        BY <2>1, SourcesDecide DEF OutputFits
    <2>3. QED
        BY <1>3, <2>1, <2>2
<1>5. CASE path = Markdown
    <2>1. c = LedgerMarkdown(l)
        BY <1>5 DEF OutputFits
    <2>2. CASE r >= 1
        <3>1. Markdown \in DOMAIN f /\ f[Markdown] = c
            BY <2>1, <2>2 DEF Settled
        <3>2. SameSources(f, g)
            BY <1>1, <1>5, <3>1 DEF SameSources
        <3>3. \A p, x : OutputFits(l, r, f, p, x) => OutputFits(l, r, g, p, x)
            BY <3>2, SourcesDecide DEF OutputFits
        <3>4. QED
            BY <1>3, <3>2, <3>3
    <2>3. CASE ~ (r >= 1)
        <3>1. ASSUME Markdown \notin l.evidence PROVE LedgerHtml(l, f) = LedgerHtml(l, g)
            <4>1. \A link \in l.evidence : link \in MarkdownSources(f) <=> link \in MarkdownSources(g)
                BY <1>1, <1>5, <3>1 DEF MarkdownSources
            <4>2. [link \in l.evidence |->
                      IF link \in MarkdownSources(f) THEN Mirror(link) ELSE << "as written" >>]
                    = [link \in l.evidence |->
                      IF link \in MarkdownSources(g) THEN Mirror(link) ELSE << "as written" >>]
                BY <4>1, Zenon
            <4>3. QED
                BY <4>2, Zenon DEF LedgerHtml
        <3>2. \A p, x : OutputFits(l, r, f, p, x) => OutputFits(l, r, g, p, x)
            BY <2>3, <3>1 DEF OutputFits
        <3>3. QED
            BY <1>3, <2>3, <3>2
    <2>4. QED
        BY <2>2, <2>3
<1>6. QED
    BY <1>4, <1>5

LEMMA WriteOutputKeeps ==
    ASSUME NEW l, NEW r \in Nat, NEW f, IsTree(f), NEW q, IsQueue(q), q # <<>>,
           OutputsWait(l, r, f, q), Settled(l, r, f),
           NEW g, g = Written(f, Head(q)[1], Head(q)[2])
    PROVE  IsQueue(Tail(q)) /\ IsTree(g) /\ OutputsWait(l, r, g, Tail(q)) /\ Settled(l, r, g)
<1> DEFINE path == Head(q)[1]
           c == Head(q)[2]
           t == Tail(q)
<1>1. /\ IsQueue(t) /\ Head(q) \in Range(q) /\ Range(t) \subseteq Range(q)
      /\ \A x \in Range(q) : x = Head(q) \/ x \in Range(t)
    BY TakenFromQueue
<1>2. path \in OutputPaths /\ OutputFits(l, r, f, path, c)
    BY <1>1 DEF OutputsWait
<1> HIDE DEF t
<1>3. \A x \in Range(q) : x[1] # path => x \in Range(t)
    BY <1>1
<1>4. /\ r >= 1 => SameSources(f, g)
      /\ UniverseOf(g) = UniverseOf(f)
      /\ \A p, x : OutputFits(l, r, f, p, x) => OutputFits(l, r, g, p, x)
    <2> HIDE DEF path, c
    <2>1. g = Written(f, path, c)
        BY DEF path, c
    <2>2. QED
        BY <1>2, <2>1, OutputWritten
<1>5. /\ DOMAIN g = DOMAIN f \cup { path } /\ g[path] = c
      /\ \A p \in DOMAIN f : p # path => g[p] = f[p]
    BY DEF Written
<1>6. IsTree(g)
    <2>1. path = << path[1], path[2] >>
        BY <1>2, PathsAreApart, Zenon
    <2>2. path[1] = "source" => IsFiniteSet(c.diagrams)
        <3>1. path[1] = "source" => path = Markdown
            BY <1>2, PathsAreApart, Zenon DEF OutputPaths
        <3>2. path = Markdown => c.diagrams = {}
            BY <1>2 DEF OutputFits, LedgerMarkdown
        <3>3. QED
            BY <3>1, <3>2, FS_EmptySet
    <2>3. g = Written(f, path, c)
        OBVIOUS
    <2> HIDE DEF path, c
    <2>4. QED
        BY <1>2, <2>1, <2>2, <2>3, WrittenTree
<1> HIDE DEF path, c
<1>7. OutputsWait(l, r, g, t)
    <2>1. \A x \in Range(t) : x[1] \in OutputPaths /\ OutputFits(l, r, g, x[1], x[2])
        BY <1>1, <1>4 DEF OutputsWait
    <2>2. ASSUME NEW p \in OutputPaths
          PROVE  \/ \E x \in Range(t) : x[1] = p
                 \/ (p \in DOMAIN g /\ OutputFits(l, r, g, p, g[p]))
        <3>1. CASE p = path
            BY <1>2, <1>4, <1>5, <3>1
        <3>2. CASE p # path
            <4>1. CASE \E x \in Range(q) : x[1] = p
                BY <1>3, <3>2, <4>1
            <4>2. CASE p \in DOMAIN f /\ OutputFits(l, r, f, p, f[p])
                <5>1. p \in DOMAIN g /\ g[p] = f[p]
                    BY <1>5, <3>2, <4>2
                <5>2. QED
                    BY <1>4, <4>2, <5>1
            <4>3. QED
                BY <4>1, <4>2 DEF OutputsWait
        <3>3. QED
            BY <3>1, <3>2
    <2>3. QED
        BY <2>1, <2>2 DEF OutputsWait
<1>8. Settled(l, r, g)
    <2> SUFFICES ASSUME r >= 1
                 PROVE  /\ Markdown \in DOMAIN g /\ g[Markdown] = LedgerMarkdown(l)
                        /\ UniverseOf(g) = UniversePaths(g)
        BY DEF Settled
    <2>1. /\ Markdown \in DOMAIN f /\ f[Markdown] = LedgerMarkdown(l)
          /\ UniverseOf(f) = UniversePaths(f)
        BY DEF Settled
    <2>2. UniversePaths(f) = UniversePaths(g)
        BY <1>4, SourcesDecide
    <2>3. path = Markdown => c = LedgerMarkdown(l)
        BY <1>2 DEF OutputFits
    <2>4. QED
        BY <1>4, <1>5, <2>1, <2>2, <2>3
<1>9. QED
    BY <1>1, <1>6, <1>7, <1>8 DEF t

\* Where links do not lead into the universe, or it is there already, it may be written
\* from the files before it.
LEMMA LinksLast ==
    ASSUME NEW l, NEW r, NEW f, Settled(l, r, f), Steady(l, r, f), NEW s \in MarkdownSources(f)
    PROVE  RenderDocument(s, f) = LastingPage(s, f)
<1>1. ASSUME NEW link \in f[s].links PROVE link \in DOMAIN f <=> link \in Final(f)
    <2>1. CASE r >= 1
        <3>1. UniversePaths(f) = { p \in DOMAIN f : InUniverse(p) }
            BY <2>1 DEF Settled, UniverseOf
        <3>2. QED
            BY <3>1 DEF Final
    <2>2. CASE ~ LooksIntoUniverse(l, f)
        <3>1. ~ InUniverse(link)
            BY <2>2 DEF LooksIntoUniverse
        <3>2. link \notin UniversePaths(f)
            BY <3>1, UniversePathsAre
        <3>3. QED
            BY <3>1, <3>2 DEF Final
    <2>3. QED
        BY <2>1, <2>2 DEF Steady
<1>2. \A link \in f[s].links : RewriteUrl(link, f) = LastingUrl(link, f)
    BY <1>1, Zenon DEF RewriteUrl, LastingUrl
<1>3. [link \in f[s].links |-> RewriteUrl(link, f)] = [link \in f[s].links |-> LastingUrl(link, f)]
    BY <1>2
<1>4. QED
    BY <1>3, Zenon DEF RenderDocument, LastingPage

\* A file that bears a mark is not torn, and a torn one is no drawing cut short.
LEMMA MarkedNotTorn ==
    /\ \A c, d : BoundTo(c, d) => c # Torn
    /\ ~ CutShort(Torn)
<1>1. DOMAIN Torn = { "text", "links", "diagrams" }
    BY DEF Torn
<1>2. "source" \notin DOMAIN Torn /\ "drawing" \notin DOMAIN Torn
    BY <1>1
<1>3. QED
    BY <1>2 DEF BoundTo, CutShort

\* In the order of writing, each path of the universe comes, and the drawings first.
LEMMA WritingOrderIs ==
    ASSUME NEW f, IsTree(f), NEW paths, paths = WritingOrder(f)
    PROVE  \E n \in Nat :
              /\ paths \in [1..n -> UniversePaths(f)]
              /\ \A x \in UniversePaths(f) : \E i \in 1..n : paths[i] = x
              /\ \A i, j \in 1..n : i < j /\ paths[i] = Index => paths[j] \notin Assets(f)
<1> DEFINE A == Assets(f)
           P == Pages(f)
           U == UniversePaths(f)
           k == Cardinality(A)
           m == Cardinality(P)
           a == SetToSeq(A)
           b == SetToSeq(P)
           n == k + 1 + m
<1>1. U = P \cup { Index } \cup A
    BY DEF UniversePaths
<1>2. IsFiniteSet(A) /\ IsFiniteSet(P)
    <2>1. IsFiniteSet(U)
        BY UniverseIsFinite
    <2> HIDE DEF A, P, U
    <2>2. A \subseteq U /\ P \subseteq U
        BY <1>1
    <2>3. QED
        BY <2>1, <2>2, FS_Subset
<1>3. Index \notin A /\ \A p \in P : p \notin A
    BY UniversePathsAre, Zenon DEF Pages
<1>4. paths = a \o << Index >> \o b
    BY DEF WritingOrder
<1>5. k \in Nat /\ a \in [1..k -> A] /\ \A x \in A : \E i \in 1..k : a[i] = x
    <2> HIDE DEF A
    <2>1. QED
        BY <1>2, ListingIs
<1>6. m \in Nat /\ b \in [1..m -> P] /\ \A x \in P : \E i \in 1..m : b[i] = x
    <2> HIDE DEF P
    <2>1. QED
        BY <1>2, ListingIs
<1> HIDE DEF A, P, U, k, m, a, b
<1>7. a \in Seq(A) /\ Len(a) = k /\ b \in Seq(P) /\ Len(b) = m
    <2>1. a \in Seq(A) /\ b \in Seq(P)
        BY <1>5, <1>6, SeqDef
    <2>2. DOMAIN a = 1..Len(a) /\ DOMAIN a = 1..k /\ Len(a) \in Nat
        BY <1>5, <2>1, LenProperties
    <2>3. DOMAIN b = 1..Len(b) /\ DOMAIN b = 1..m /\ Len(b) \in Nat
        BY <1>6, <2>1, LenProperties
    <2>4. \A i, j \in Nat : 1..i = 1..j => i = j
        <3>1. SUFFICES ASSUME NEW i \in Nat, NEW j \in Nat, 1..i = 1..j PROVE i = j
            OBVIOUS
        <3>2. (i > 0 => i \in 1..j) /\ (j > 0 => j \in 1..i)
            BY <3>1
        <3>3. QED
            BY <3>2
    <2>5. QED
        BY <1>5, <1>6, <2>1, <2>2, <2>3, <2>4
<1>8. /\ n \in Nat /\ DOMAIN paths = 1..n /\ paths \in Seq(U)
      /\ \A i \in 1..n : paths[i] = IF i <= k THEN a[i]
                                    ELSE IF i = k + 1 THEN Index ELSE b[i - (k + 1)]
    <2> DEFINE front == a \o << Index >>
    <2>1. << Index >> \in Seq(U) /\ Len(<< Index >>) = 1 /\ << Index >>[1] = Index
        BY <1>1
    <2>2. a \in Seq(U) /\ b \in Seq(U)
        BY <1>1, <1>7
    <2>3. /\ front \in Seq(U) /\ Len(front) = k + 1
          /\ \A i \in 1..(k + 1) : front[i] = IF i <= k THEN a[i] ELSE Index
        <3>1. \A i \in 1..(k + 1) : ~ (i <= k) => i - k = 1
            BY <1>5
        <3>2. QED
            BY <1>5, <1>7, <2>1, <2>2, <3>1, ConcatProperties
    <2>4. paths = front \o b
        BY <1>4
    <2> HIDE DEF front
    <2>5. /\ paths \in Seq(U) /\ Len(paths) = (k + 1) + m
          /\ \A i \in 1..((k + 1) + m) :
                paths[i] = IF i <= k + 1 THEN front[i] ELSE b[i - (k + 1)]
        <3>1. /\ front \o b \in Seq(U) /\ Len(front \o b) = Len(front) + Len(b)
              /\ \A i \in 1..(Len(front) + Len(b)) :
                    (front \o b)[i] = IF i <= Len(front) THEN front[i] ELSE b[i - Len(front)]
            BY <2>2, <2>3, ConcatProperties
        <3>2. QED
            BY <1>7, <2>3, <2>4, <3>1
    <2>6. n \in Nat /\ n = (k + 1) + m
        BY <1>5, <1>6
    <2>7. DOMAIN paths = 1..n
        BY <2>5, <2>6, LenProperties
    <2>8. ASSUME NEW i \in 1..n
          PROVE  paths[i] = IF i <= k THEN a[i] ELSE IF i = k + 1 THEN Index ELSE b[i - (k + 1)]
        <3>1. CASE i <= k + 1
            <4>1. i \in 1..(k + 1) /\ paths[i] = front[i]
                BY <1>5, <2>5, <2>6, <3>1
            <4>2. i <= k \/ i = k + 1
                BY <1>5, <3>1
            <4>3. ~ (k + 1 <= k)
                BY <1>5
            <4>4. QED
                BY <2>3, <4>1, <4>2, <4>3
        <3>2. CASE ~ (i <= k + 1)
            <4>1. paths[i] = b[i - (k + 1)]
                BY <2>5, <2>6, <3>2
            <4>2. ~ (i <= k) /\ i # k + 1
                BY <1>5, <3>2
            <4>3. QED
                BY <4>1, <4>2
        <3>3. QED
            BY <3>1, <3>2
    <2>9. QED
        BY <2>5, <2>6, <2>7, <2>8
<1>9. n \in Nat /\ n = k + 1 + m
    BY <1>5, <1>6
<1> HIDE DEF n
<1>10. \A i \in 1..n : i <= k => i \in 1..k /\ paths[i] = a[i] /\ paths[i] \in A
    BY <1>5, <1>8, <1>9
<1>11. \A i \in 1..n : i > k + 1 =>
          i - (k + 1) \in 1..m /\ paths[i] = b[i - (k + 1)] /\ paths[i] \in P
    <2> SUFFICES ASSUME NEW i \in 1..n, i > k + 1
                 PROVE  i - (k + 1) \in 1..m /\ paths[i] = b[i - (k + 1)] /\ paths[i] \in P
        OBVIOUS
    <2>1. i - (k + 1) \in 1..m /\ ~ (i <= k) /\ i # k + 1
        BY <1>5, <1>6, <1>9
    <2>2. paths[i] = b[i - (k + 1)]
        BY <1>8, <2>1
    <2>3. QED
        BY <1>6, <2>1, <2>2
<1>12. k + 1 \in 1..n /\ paths[k + 1] = Index
    <2>1. k + 1 \in 1..n /\ ~ (k + 1 <= k)
        BY <1>5, <1>6, <1>9
    <2>2. QED
        BY <1>8, <2>1
<1>13. paths \in [1..n -> U]
    <2>1. paths = [i \in 1..n |-> paths[i]]
        BY <1>8
    <2>2. ASSUME NEW i \in 1..n PROVE paths[i] \in U
        <3>1. i <= k \/ i = k + 1 \/ i > k + 1
            BY <1>5
        <3>2. QED
            BY <1>1, <1>10, <1>11, <1>12, <3>1
    <2>3. QED
        BY <2>1, <2>2
<1>14. ASSUME NEW x \in U PROVE \E i \in 1..n : paths[i] = x
    <2>1. CASE x \in A
        <3>1. PICK i \in 1..k : a[i] = x
            BY <1>5, <2>1
        <3>2. i \in 1..n /\ i <= k
            BY <1>5, <1>6, <1>9
        <3>3. QED
            BY <1>10, <3>1, <3>2
    <2>2. CASE x \in P
        <3>1. PICK i \in 1..m : b[i] = x
            BY <1>6, <2>2
        <3>2. /\ i + (k + 1) \in 1..n /\ i + (k + 1) > k + 1
              /\ (i + (k + 1)) - (k + 1) = i
            BY <1>5, <1>6, <1>9
        <3>3. paths[i + (k + 1)] = b[i]
            BY <1>11, <3>2
        <3>4. QED
            BY <3>1, <3>2, <3>3
    <2>3. CASE x = Index
        BY <1>12, <2>3
    <2>4. QED
        BY <1>1, <2>1, <2>2, <2>3
<1>15. ASSUME NEW i \in 1..n, NEW j \in 1..n, i < j, paths[i] = Index
       PROVE  paths[j] \notin A
    <2>1. ~ (i <= k)
        BY <1>3, <1>10, <1>15
    <2>2. j > k + 1
        BY <1>5, <1>15, <2>1
    <2>3. QED
        BY <1>3, <1>11, <2>2
<1>16. QED
    BY <1>9, <1>13, <1>14, <1>15 DEF A, U

\* No drawing waits behind the index, and none at all once the index is written.
DrawingsFirst(q) ==
    \A i, j \in DOMAIN q : i < j /\ q[i][1] = Index => q[j][1][1] # "universe drawing"

DrawingWaits(q) == \E x \in Range(q) : x[1][1] = "universe drawing"

\* The next of the queue is taken.
LEMMA DrawingsStayFirst ==
    ASSUME NEW q, IsQueue(q), q # <<>>, DrawingsFirst(q)
    PROVE  /\ DrawingsFirst(Tail(q))
           /\ DrawingWaits(Tail(q)) => Head(q)[1] # Index /\ DrawingWaits(q)
<1> DEFINE S == Range(q)
           t == Tail(q)
           n == Len(q)
<1>1. q \in Seq(S)
    BY DEF IsQueue
<1> HIDE DEF S
<1>2. n \in Nat /\ n # 0 /\ DOMAIN q = 1..n
    BY <1>1, LenProperties, EmptySeq
<1>3. Head(q) = q[1] /\ t \in Seq(S) /\ Len(t) = n - 1
      /\ \A i \in 1..(n - 1) : t[i] = q[i + 1]
    BY <1>1, <1>2, HeadTailProperties
<1>4. DOMAIN t = 1..(n - 1)
    BY <1>3, LenProperties
<1>5. ASSUME NEW i \in DOMAIN t, NEW j \in DOMAIN t, i < j, t[i][1] = Index
      PROVE  t[j][1][1] # "universe drawing"
    <2>1. i + 1 \in DOMAIN q /\ j + 1 \in DOMAIN q /\ i + 1 < j + 1
        BY <1>2, <1>4, <1>5
    <2>2. t[i] = q[i + 1] /\ t[j] = q[j + 1]
        BY <1>3, <1>4
    <2>3. QED
        BY <1>5, <2>1, <2>2 DEF DrawingsFirst
<1>6. ASSUME DrawingWaits(t) PROVE Head(q)[1] # Index /\ DrawingWaits(q)
    <2>1. PICK x \in Range(t) : x[1][1] = "universe drawing"
        BY <1>6 DEF DrawingWaits
    <2>2. PICK j \in 1..(n - 1) : x = t[j]
        BY <1>4, <2>1 DEF Range
    <2>3. 1 \in DOMAIN q /\ j + 1 \in DOMAIN q /\ 1 < j + 1 /\ x = q[j + 1]
        BY <1>2, <1>3, <2>2
    <2>4. q[1][1] # Index
        BY <2>1, <2>3 DEF DrawingsFirst
    <2>5. x \in Range(q)
        BY <2>3 DEF Range
    <2>6. QED
        BY <1>3, <2>1, <2>4, <2>5 DEF DrawingWaits
<1>7. QED
    BY <1>5, <1>6 DEF DrawingsFirst, t

\* What is generated fits.
LEMMA UniverseGenerated ==
    ASSUME NEW l, NEW r, NEW f, IsTree(f), Settled(l, r, f), Terminated(f),
           NEW drawing \in [Assets(f) -> Drawings],
           NEW u, u = Universe(f, Drawn(f, drawing)),
           NEW paths, paths = WritingOrder(f),
           NEW q, q = [i \in DOMAIN paths |-> << paths[i], u[paths[i]] >>]
    PROVE  IsQueue(q) /\ UniverseWaits(l, r, f, q, {}) /\ DrawingsFirst(q)
<1> DEFINE U == UniversePaths(f)
           steady == Steady(l, r, f)
<1>1. DOMAIN Drawn(f, drawing) = Assets(f)
      /\ \A p \in Assets(f) : Drawn(f, drawing)[p] = [source |-> p[2], drawing |-> drawing[p]]
    BY DEF Drawn
<1>2. /\ DOMAIN u = U /\ u[Index] = RenderIndex(f)
      /\ \A p \in Assets(f) : u[p] = [source |-> p[2], drawing |-> drawing[p]]
      /\ \A s \in MarkdownSources(f) : u[Mirror(s)] = RenderDocument(s, f)
    BY <1>1, UniverseIs
<1>3. PICK n \in Nat :
         /\ paths \in [1..n -> U]
         /\ \A x \in U : \E i \in 1..n : paths[i] = x
         /\ \A i, j \in 1..n : i < j /\ paths[i] = Index => paths[j] \notin Assets(f)
    <2>1. \E n \in Nat :
             /\ WritingOrder(f) \in [1..n -> UniversePaths(f)]
             /\ \A x \in UniversePaths(f) : \E i \in 1..n : WritingOrder(f)[i] = x
             /\ \A i, j \in 1..n :
                   i < j /\ WritingOrder(f)[i] = Index => WritingOrder(f)[j] \notin Assets(f)
        BY WritingOrderIs
    <2>2. QED
        BY ONLY <2>1, paths = WritingOrder(f) DEF U
<1> HIDE DEF U
<1>4. /\ q = [i \in 1..n |-> q[i]]
      /\ \A i \in 1..n : q[i] = << paths[i], u[paths[i]] >>
    BY <1>3
<1>5. IsQueue(q) /\ Range(q) = { q[i] : i \in 1..n }
    <2>1. n \in Nat
        BY <1>3
    <2>2. q = [i \in 1..n |-> q[i]]
        BY <1>4
    <2>3. QED
        BY ONLY <2>1, <2>2, QueueIs, Zenon
<1>6. ASSUME NEW p \in U PROVE PageFits(steady, f, p, u[p])
    <2>1. p = Index => u[p] = RenderIndex(f)
        BY <1>2
    <2>2. ASSUME p \in Assets(f) PROVE WholeDrawing(u[p], p)
        <3>1. u[p] = [source |-> p[2], drawing |-> drawing[p]] /\ drawing[p] \in Drawings
            BY <1>2, <2>2
        <3>2. u[p].source = p[2] /\ u[p].drawing = drawing[p] /\ "source" \in DOMAIN u[p]
            BY <3>1
        <3>3. drawing[p] # CutOff
            BY <3>1, PublicationAssumption
        <3>4. QED
            BY <3>2, <3>3 DEF WholeDrawing, BoundTo, CutShort
    <2>3. ASSUME NEW s \in MarkdownSources(f), p = Mirror(s), steady PROVE u[p] = LastingPage(s, f)
        BY <1>2, <2>3, LinksLast
    <2>4. QED
        BY <2>1, <2>2, <2>3 DEF PageFits
<1>7. ASSUME NEW x \in Range(q) PROVE x[1] \in U /\ PageFits(steady, f, x[1], x[2])
    <2>1. PICK i \in 1..n : x = q[i]
        BY <1>5
    <2>2. x = << paths[i], u[paths[i]] >> /\ paths[i] \in U
        BY <1>3, <1>4, <2>1
    <2>3. x[1] \in U /\ x[2] = u[x[1]]
        BY <2>2
    <2>4. QED
        BY <1>6, <2>3
<1>8. ASSUME NEW p \in U PROVE \E x \in Range(q) : x[1] = p
    <2>1. PICK i \in 1..n : paths[i] = p
        BY <1>3
    <2>2. q[i] \in Range(q) /\ q[i][1] = p
        BY <1>4, <1>5, <2>1
    <2>3. QED
        BY <2>2
<1>9. ASSUME NEW i \in DOMAIN q, NEW j \in DOMAIN q, i < j, q[i][1] = Index
      PROVE  q[j][1][1] # "universe drawing"
    <2>1. i \in 1..n /\ j \in 1..n
        BY <1>4
    <2>2. q[i][1] = paths[i] /\ q[j][1] = paths[j] /\ paths[j] \in U
        BY <1>3, <1>4, <2>1
    <2>3. paths[j] \notin Assets(f)
        BY <1>3, <1>9, <2>1, <2>2
    <2>4. QED
        BY <2>2, <2>3, UniversePathsAre DEF U
<1>10. UniverseWaits(l, r, f, q, {})
    BY <1>7, <1>8 DEF UniverseWaits, U
<1>11. DrawingsFirst(q)
    <2>1. \A i \in DOMAIN q : \A j \in DOMAIN q :
             i < j /\ q[i][1] = Index => q[j][1][1] # "universe drawing"
        BY ONLY <1>9, Zenon
    <2>2. QED
        BY ONLY <2>1 DEF DrawingsFirst
<1>12. QED
    BY <1>5, <1>10, <1>11

-----------------------------------------------------------------------------
(* Clearing and writing the universe. *)

LEMMA WaitsOutside ==
    ASSUME NEW l, NEW r, NEW f, NEW g, SameOutside(f, g)
    PROVE  /\ OutputsWritten(l, r, f) => OutputsWritten(l, r, g)
           /\ Steady(l, r, f) <=> Steady(l, r, g)
           /\ \A q, paths :
                 UniverseWaits(l, r, f, q, paths) /\ (\A p \in paths : p \in DOMAIN g /\ g[p] = f[p])
                 => UniverseWaits(l, r, g, q, paths)
<1>1. SameSources(f, g)
    BY OutsideDecides
<1>2. /\ UniversePaths(f) = UniversePaths(g) /\ LedgerHtml(l, f) = LedgerHtml(l, g)
      /\ Terminated(f) <=> Terminated(g)
      /\ LooksIntoUniverse(l, f) <=> LooksIntoUniverse(l, g)
    BY <1>1, SourcesDecide
<1>3. \A steady, p, c : PageFits(steady, f, p, c) => PageFits(steady, g, p, c)
    BY OutsideDecides
<1>4. Steady(l, r, f) <=> Steady(l, r, g)
    BY <1>2 DEF Steady
<1>5. ASSUME OutputsWritten(l, r, f) PROVE OutputsWritten(l, r, g)
    <2> SUFFICES ASSUME NEW p \in OutputPaths PROVE p \in DOMAIN g /\ OutputFits(l, r, g, p, g[p])
        BY DEF OutputsWritten
    <2>1. p \in DOMAIN f /\ OutputFits(l, r, f, p, f[p])
        BY <1>5 DEF OutputsWritten
    <2>2. p \in DOMAIN g /\ f[p] = g[p]
        BY <2>1, PathsAreApart, Zenon DEF SameOutside
    <2>3. QED
        BY <1>2, <2>1, <2>2 DEF OutputFits
<1>6. ASSUME NEW q, NEW paths, UniverseWaits(l, r, f, q, paths),
             \A p \in paths : p \in DOMAIN g /\ g[p] = f[p]
      PROVE  UniverseWaits(l, r, g, q, paths)
    <2> DEFINE sf == Steady(l, r, f)
               sg == Steady(l, r, g)
    <2>1. sf \in BOOLEAN /\ sg \in BOOLEAN
        BY DEF Steady
    <2>2. sf = sg
        BY <1>4, <2>1
    <2>3. \A p, c : PageFits(sf, f, p, c) => PageFits(sg, g, p, c)
        <3> HIDE DEF sf, sg
        <3>1. QED
            BY <1>3, <2>2
    <2>4. /\ \A x \in Range(q) : x[1] \in UniversePaths(f) /\ PageFits(sf, f, x[1], x[2])
          /\ \A p \in paths :
                p \in UniversePaths(f) /\ p \in DOMAIN f /\ PageFits(sf, f, p, f[p])
          /\ \A p \in UniversePaths(f) : p \in paths \/ \E x \in Range(q) : x[1] = p
        BY <1>6 DEF UniverseWaits
    <2>5. /\ \A x \in Range(q) : x[1] \in UniversePaths(g) /\ PageFits(sg, g, x[1], x[2])
          /\ \A p \in paths :
                p \in UniversePaths(g) /\ p \in DOMAIN g /\ PageFits(sg, g, p, g[p])
          /\ \A p \in UniversePaths(g) : p \in paths \/ \E x \in Range(q) : x[1] = p
        <3> HIDE DEF sf, sg
        <3>1. QED
            BY <1>2, <1>6, <2>3, <2>4
    <2>6. Terminated(g)
        BY <1>2, <1>6 DEF UniverseWaits
    <2>7. QED
        BY <2>5, <2>6 DEF UniverseWaits
<1>7. QED
    BY <1>4, <1>5, <1>6

LEMMA ClearKeeps ==
    ASSUME NEW l, NEW r, NEW f, IsTree(f), NEW q, OutputsWritten(l, r, f),
           UniverseWaits(l, r, f, q, {}), NEW g, g = Without(f, { p \in DOMAIN f : InUniverse(p) })
    PROVE  /\ IsTree(g) /\ OutputsWritten(l, r, g) /\ UniverseOf(g) = {}
           /\ UniverseWaits(l, r, g, q, {})
<1> DEFINE gone == { p \in DOMAIN f : InUniverse(p) }
<1>1. IsTree(g)
    BY WithoutTree
<1>2. SameOutside(f, g)
    BY WithoutInside
<1>3. UniverseOf(g) = {}
    BY DEF UniverseOf, Without
<1>4. OutputsWritten(l, r, g) /\ UniverseWaits(l, r, g, q, {})
    BY <1>2, WaitsOutside
<1>5. QED
    BY <1>1, <1>3, <1>4

LEMMA WriteFileKeeps ==
    ASSUME NEW l, NEW r, NEW f, IsTree(f), NEW q, IsQueue(q), q # <<>>, OutputsWritten(l, r, f),
           UniverseWaits(l, r, f, q, UniverseOf(f)),
           NEW g, g = Written(f, Head(q)[1], Head(q)[2])
    PROVE  /\ IsQueue(Tail(q)) /\ IsTree(g) /\ OutputsWritten(l, r, g)
           /\ UniverseWaits(l, r, g, Tail(q), UniverseOf(g))
<1> DEFINE path == Head(q)[1]
           c == Head(q)[2]
           t == Tail(q)
           st == Steady(l, r, f)
<1>1. /\ IsQueue(t) /\ Head(q) \in Range(q) /\ Range(t) \subseteq Range(q)
      /\ \A x \in Range(q) : x = Head(q) \/ x \in Range(t)
    BY TakenFromQueue
<1> HIDE DEF t
<1>2. path \in UniversePaths(f) /\ PageFits(st, f, path, c)
    BY <1>1 DEF UniverseWaits
<1>3. InUniverse(path) /\ path = << path[1], path[2] >>
    BY <1>2, UniversePathsAre
<1>4. g = Written(f, path, c)
    OBVIOUS
<1>5. \A x \in Range(q) : x[1] # path => x \in Range(t)
    BY <1>1
<1> HIDE DEF path, c
<1>6. /\ DOMAIN g = DOMAIN f \cup { path } /\ g[path] = c
      /\ \A p \in DOMAIN f : p # path => g[p] = f[p]
    BY <1>4 DEF Written
<1>7. SameOutside(f, g)
    BY <1>3, <1>4, WrittenInside
<1>8. IsTree(g)
    <2>1. path[1] # "source"
        BY <1>3, PathsAreApart, Zenon
    <2>2. QED
        BY <1>3, <1>4, <2>1, WrittenTree
<1>9. UniverseOf(g) = UniverseOf(f) \cup { path }
    BY <1>3, <1>6 DEF UniverseOf
<1>10. /\ OutputsWritten(l, r, g)
       /\ UniversePaths(f) = UniversePaths(g) /\ (Terminated(f) <=> Terminated(g))
       /\ \A p, x : PageFits(st, f, p, x) => PageFits(Steady(l, r, g), g, p, x)
    <2> DEFINE sg == Steady(l, r, g)
    <2>1. OutputsWritten(l, r, g) /\ (st <=> sg)
        BY <1>7, WaitsOutside
    <2>2. st \in BOOLEAN /\ sg \in BOOLEAN
        BY DEF Steady
    <2>3. st = sg
        BY <2>1, <2>2
    <2>4. SameSources(f, g) /\ \A steady, p, x : PageFits(steady, f, p, x) => PageFits(steady, g, p, x)
        BY <1>7, OutsideDecides
    <2>5. \A p, x : PageFits(st, f, p, x) => PageFits(sg, g, p, x)
        <3> HIDE DEF st, sg
        <3>1. QED
            BY <2>3, <2>4
    <2>6. QED
        BY <2>1, <2>4, <2>5, SourcesDecide
<1>11. /\ \A x \in Range(q) : x[1] \in UniversePaths(f) /\ PageFits(st, f, x[1], x[2])
       /\ \A p \in UniverseOf(f) : p \in UniversePaths(f) /\ p \in DOMAIN f /\ PageFits(st, f, p, f[p])
       /\ \A p \in UniversePaths(f) : p \in UniverseOf(f) \/ \E x \in Range(q) : x[1] = p
    BY DEF UniverseWaits
<1> DEFINE sg == Steady(l, r, g)
<1>12. \A p, x : PageFits(st, f, p, x) => PageFits(sg, g, p, x)
    BY <1>10
<1> HIDE DEF st, sg
<1>13. \A x \in Range(t) : x[1] \in UniversePaths(g) /\ PageFits(sg, g, x[1], x[2])
    BY <1>1, <1>10, <1>11, <1>12
<1>14. ASSUME NEW p \in UniverseOf(g)
       PROVE  p \in UniversePaths(g) /\ p \in DOMAIN g /\ PageFits(sg, g, p, g[p])
    <2>1. CASE p = path
        BY <1>2, <1>6, <1>10, <1>12, <2>1
    <2>2. CASE p # path
        <3>1. p \in UniverseOf(f)
            BY <1>9, <2>2
        <3>2. p \in UniversePaths(f) /\ p \in DOMAIN f /\ PageFits(st, f, p, f[p])
            BY <1>11, <3>1
        <3>3. p \in DOMAIN g /\ g[p] = f[p]
            BY <1>6, <2>2, <3>2
        <3>4. QED
            BY <1>10, <1>12, <3>2, <3>3
    <2>3. QED
        BY <2>1, <2>2
<1>15. \A p \in UniversePaths(g) : p \in UniverseOf(g) \/ \E x \in Range(t) : x[1] = p
    BY <1>5, <1>9, <1>10, <1>11
<1>16. UniverseWaits(l, r, g, t, UniverseOf(g))
    <2>1. Terminated(g)
        BY <1>10 DEF UniverseWaits
    <2>2. QED
        BY <1>13, <1>14, <1>15, <2>1 DEF UniverseWaits, sg
<1>17. QED
    BY <1>1, <1>8, <1>10, <1>16 DEF t

\* Nothing waits in an empty queue.
LEMMA NothingWaits ==
    ASSUME NEW l, NEW r, NEW f
    PROVE  /\ IsQueue(<<>>) /\ Range(<<>>) = {}
           /\ OutputsWait(l, r, f, <<>>) => OutputsWritten(l, r, f)
<1>1. Range(<<>>) = {}
    BY DEF Range
<1>2. IsQueue(<<>>)
    BY EmptySeq DEF IsQueue
<1>3. QED
    BY <1>1, <1>2 DEF OutputsWait, OutputsWritten

\* While the universe is written, no drawing in it is cut short.
LEMMA WholeSoFar ==
    ASSUME NEW l, NEW r, NEW f, NEW q, UniverseWaits(l, r, f, q, UniverseOf(f))
    PROVE  WholeDrawings(f)
<1> SUFFICES ASSUME NEW p \in DOMAIN f, p[1] = "universe drawing" PROVE ~ CutShort(f[p])
    BY DEF WholeDrawings
<1>1. p \in UniverseOf(f)
    BY DEF UniverseOf, InUniverse
<1>2. p \in UniversePaths(f) /\ PageFits(Steady(l, r, f), f, p, f[p])
    BY <1>1 DEF UniverseWaits
<1>3. p \in Assets(f)
    BY <1>2, UniversePathsAre
<1>4. QED
    BY <1>2, <1>3 DEF PageFits, WholeDrawing

\* A file is written, and files are removed, without breaking the seal.
LEMMA WrittenSeals ==
    ASSUME NEW f, Sealed(f), NEW path, path # Index, NEW c,
           path[1] = "universe drawing" => ~ CutShort(c)
    PROVE  Sealed(Written(f, path, c))
<1> DEFINE g == Written(f, path, c)
<1>1. /\ DOMAIN g = DOMAIN f \cup { path } /\ g[path] = c
      /\ \A p \in DOMAIN f : p # path => g[p] = f[p]
    BY DEF Written
<1> HIDE DEF g
<1>2. QED
    BY <1>1 DEF Sealed, WholeDrawings, g

LEMMA WithoutSeals ==
    ASSUME NEW f, Sealed(f), NEW gone
    PROVE  Sealed(Without(f, gone))
BY DEF Sealed, WholeDrawings, Without

\* An output is no part of the universe.
LEMMA OutputsApart ==
    ASSUME NEW path \in OutputPaths
    PROVE  /\ path # Index /\ path[1] # "universe drawing" /\ ~ InUniverse(path)
           /\ path = << path[1], path[2] >>
BY PathsAreApart

-----------------------------------------------------------------------------
(* What is verified. *)

OutputsThere(l, f) ==
    /\ Markdown \in DOMAIN f /\ f[Markdown] = LedgerMarkdown(l)
    /\ Html \in DOMAIN f /\ f[Html] = LedgerHtml(l, f)
    /\ Svg \in DOMAIN f /\ f[Svg] = [points |-> ProgressPoints(l)]

UniverseThere(f) ==
    /\ UniverseOf(f) = UniversePaths(f)
    /\ f[Index] = RenderIndex(f)
    /\ \A p \in Assets(f) : p \in DOMAIN f /\ BoundTo(f[p], p[2])
    /\ \A s \in MarkdownSources(f) : f[Mirror(s)] = RenderDocument(s, f)

LEMMA VerifiesIs ==
    ASSUME NEW l, NEW f, IsTree(f)
    PROVE  Verifies(l, f) <=>
              /\ Accepted(l) /\ Drawable(l) /\ Terminated(f)
              /\ OutputsThere(l, f) /\ UniverseThere(f)
<1> DEFINE d == [p \in Assets(f) |-> f[p]]
           u == Universe(f, d)
           o == Outputs(l, f)
           Given == \A i \in 1..3 : o[i][1] \in DOMAIN f /\ f[o[i][1]] = o[i][2]
           Bound == \A p \in Assets(f) : p \in DOMAIN f /\ BoundTo(f[p], p[2])
           Same == UniverseOf(f) = DOMAIN u /\ \A p \in DOMAIN u : f[p] = u[p]
<1>1. DOMAIN d = Assets(f) /\ \A p \in Assets(f) : d[p] = f[p]
    OBVIOUS
<1>2. Verifies(l, f) <=> Accepted(l) /\ Drawable(l) /\ Given /\ Terminated(f) /\ Bound /\ Same
    BY Zenon DEF Verifies, UniverseOf
<1>3. /\ o[1][1] = Markdown /\ o[1][2] = LedgerMarkdown(l)
      /\ o[2][1] = Html /\ o[2][2] = LedgerHtml(l, f)
      /\ o[3][1] = Svg /\ o[3][2] = [points |-> ProgressPoints(l)]
    BY DEF Outputs
<1> HIDE DEF d, o
<1>4. /\ DOMAIN u = UniversePaths(f) /\ u[Index] = RenderIndex(f)
      /\ \A p \in Assets(f) : u[p] = d[p]
      /\ \A s \in MarkdownSources(f) : u[Mirror(s)] = RenderDocument(s, f)
    BY <1>1, UniverseIs
<1> HIDE DEF u
<1>5. Given <=> OutputsThere(l, f)
    <2>1. 1..3 = { 1, 2, 3 }
        OBVIOUS
    <2>2. QED
        BY <1>3, <2>1 DEF OutputsThere
<1>6. Bound /\ Same <=> UniverseThere(f)
    <2>1. \A p : p \in UniversePaths(f) <=>
             p = Index \/ p \in Assets(f) \/ \E s \in MarkdownSources(f) : p = Mirror(s)
        BY DEF UniversePaths, Pages
    <2>2. (\A p \in UniversePaths(f) : f[p] = u[p]) <=>
             /\ f[Index] = RenderIndex(f)
             /\ \A s \in MarkdownSources(f) : f[Mirror(s)] = RenderDocument(s, f)
        BY <1>1, <1>4, <2>1
    <2>3. QED
        BY <1>4, <2>2 DEF UniverseThere
<1>7. QED
    BY <1>2, <1>5, <1>6

\* A render that ends is settled, and verifies where the links were steady.
LEMMA RenderEnds ==
    ASSUME NEW l, NEW r \in Nat, NEW f, IsTree(f), OutputsWritten(l, r, f),
           UniverseWaits(l, r, f, <<>>, UniverseOf(f)), Accepted(l), Drawable(l)
    PROVE  /\ \A more : Settled(l, more, f)
           /\ Steady(l, r, f) => Verifies(l, f)
<1>1. UniverseOf(f) = UniversePaths(f)
    BY NothingWaits DEF UniverseWaits
<1>2. \A p \in UniversePaths(f) : p \in DOMAIN f /\ PageFits(Steady(l, r, f), f, p, f[p])
    BY <1>1 DEF UniverseWaits
<1>3. \A p \in OutputPaths : p \in DOMAIN f /\ OutputFits(l, r, f, p, f[p])
    BY DEF OutputsWritten
<1>4. \A more : Settled(l, more, f)
    BY <1>1, <1>3 DEF Settled, OutputPaths, OutputFits
<1>5. ASSUME Steady(l, r, f) PROVE Verifies(l, f)
    <2> DEFINE st == Steady(l, r, f)
    <2>1. r >= 1 \/ Markdown \notin l.evidence
        BY <1>5 DEF Steady, LooksIntoUniverse
    <2>2. OutputsThere(l, f)
        BY <1>3, <2>1 DEF OutputsThere, OutputPaths, OutputFits
    <2>3. /\ Index \in UniversePaths(f) /\ Assets(f) \subseteq UniversePaths(f)
          /\ \A s \in MarkdownSources(f) : Mirror(s) \in UniversePaths(f)
        BY DEF UniversePaths, Pages
    <2>4. f[Index] = RenderIndex(f)
        BY <1>2, <2>3 DEF PageFits
    <2>5. \A p \in Assets(f) : p \in DOMAIN f /\ BoundTo(f[p], p[2])
        BY <1>2, <2>3 DEF PageFits, WholeDrawing
    <2>6. ASSUME NEW s \in MarkdownSources(f) PROVE f[Mirror(s)] = RenderDocument(s, f)
        <3>1. f[Mirror(s)] = LastingPage(s, f)
            BY <1>2, <1>5, <2>3 DEF PageFits
        <3>2. Settled(l, 1, f)
            BY <1>4
        <3>3. Steady(l, 1, f)
            BY DEF Steady
        <3>4. RenderDocument(s, f) = LastingPage(s, f)
            BY <3>2, <3>3, LinksLast
        <3>5. QED
            BY <3>1, <3>4
    <2>7. UniverseThere(f)
        BY <1>1, <2>4, <2>5, <2>6 DEF UniverseThere
    <2>8. Terminated(f)
        BY DEF UniverseWaits
    <2>9. QED
        BY <2>2, <2>7, <2>8, VerifiesIs
<1>6. QED
    BY <1>4, <1>5

\* What is verified shows what the sources say.
Shows(l, f) ==
    /\ \A p \in DOMAIN f : f[p] # Torn
    /\ WholeDrawings(f)
    /\ \A p \in MarkdownSources(f) :
          /\ f[Mirror(p)].document = f[p]
          /\ \A link \in f[p].links :
                LET target == f[Mirror(p)].targets[link]
                IN  target # << "as written" >> => target \in DOMAIN f
          /\ \A d \in f[p].diagrams : f[Asset(d)].source = d
    /\ ProgressIsTrue(l)

LEMMA VerifiedShows ==
    ASSUME NEW l \in Ledgers, NEW f, IsTree(f), Sealed(f), Verifies(l, f)
    PROVE  Shows(l, f)
<1>1. OutputsThere(l, f) /\ UniverseThere(f)
    BY VerifiesIs
<1>2. /\ UniverseOf(f) = UniversePaths(f) /\ f[Index] = RenderIndex(f)
      /\ \A p \in Assets(f) : BoundTo(f[p], p[2])
      /\ \A s \in MarkdownSources(f) : f[Mirror(s)] = RenderDocument(s, f)
    BY <1>1 DEF UniverseThere
<1>3. ASSUME NEW p \in DOMAIN f PROVE f[p] # Torn
    <2>1. CASE InUniverse(p)
        <3>1. p \in UniversePaths(f)
            BY <1>2, <2>1 DEF UniverseOf
        <3>2. RenderIndex(f) # Torn /\ \A s : RenderDocument(s, f) # Torn
            BY DEF RenderIndex, RenderDocument, Torn
        <3>3. QED
            BY <1>2, <3>1, <3>2, MarkedNotTorn DEF UniversePaths, Pages
    <2>2. CASE p \in OutputPaths
        <3>1. LedgerMarkdown(l) # Torn
            <4>1. LedgerMarkdown(l).links # {} /\ Torn.links = {}
                BY DEF LedgerMarkdown, Torn
            <4>2. QED
                BY <4>1
        <3>2. LedgerHtml(l, f) # Torn
            BY Zenon DEF LedgerHtml, Torn
        <3>3. [points |-> ProgressPoints(l)] # Torn
            BY DEF Torn
        <3>4. QED
            BY <1>1, <2>2, <3>1, <3>2, <3>3 DEF OutputsThere, OutputPaths
    <2>3. CASE ~ InUniverse(p) /\ p \notin OutputPaths
        BY <2>3 DEF IsTree, OutputPaths
    <2>4. QED
        BY <2>1, <2>2, <2>3
<1>4. ASSUME NEW p \in MarkdownSources(f), NEW link \in f[p].links,
             f[Mirror(p)].targets[link] # << "as written" >>
      PROVE  f[Mirror(p)].targets[link] \in DOMAIN f
    <2>1. f[Mirror(p)].targets[link] = RewriteUrl(link, f)
        <3>1. RenderDocument(p, f).targets = [other \in f[p].links |-> RewriteUrl(other, f)]
            BY DEF RenderDocument
        <3>2. RenderDocument(p, f).targets[link] = RewriteUrl(link, f)
            BY <3>1
        <3>3. f[Mirror(p)] = RenderDocument(p, f)
            BY <1>2
        <3>4. QED
            BY <3>2, <3>3, Zenon
    <2>2. CASE link \in MarkdownSources(f)
        <3>1. Mirror(link) \in UniverseOf(f)
            BY <1>2, <2>2 DEF UniversePaths, Pages
        <3>2. QED
            BY <2>1, <2>2, <3>1 DEF RewriteUrl, UniverseOf
    <2>3. CASE link \notin MarkdownSources(f)
        BY <1>4, <2>1, <2>3, Zenon DEF RewriteUrl
    <2>4. QED
        BY <2>2, <2>3
<1>5. ASSUME NEW p \in MarkdownSources(f) PROVE f[Mirror(p)].document = f[p]
    <2>1. RenderDocument(p, f).document = f[p]
        BY DEF RenderDocument
    <2>2. QED
        BY <1>2, <2>1, Zenon
<1>6. ASSUME NEW p \in MarkdownSources(f), NEW d \in f[p].diagrams PROVE f[Asset(d)].source = d
    <2>1. Asset(d) \in Assets(f)
        BY DEF Assets, MermaidDiagrams
    <2>2. QED
        <3>1. f[Asset(d)].source = Asset(d)[2]
            BY <1>2, <2>1 DEF BoundTo
        <3>2. QED
            BY <3>1, PathsAreApart, Zenon
<1>7. ProgressIsTrue(l)
    BY ProgressFollows
<1>8. WholeDrawings(f)
    <2>1. Index \in UniverseOf(f)
        BY <1>2 DEF UniversePaths
    <2>2. QED
        BY <2>1 DEF UniverseOf, Sealed
<1>9. QED
    BY <1>3, <1>4, <1>5, <1>6, <1>7, <1>8, Zenon DEF Shows

-----------------------------------------------------------------------------
(* The inductive invariant. *)

PublicationInv ==
    /\ IsTree(tree) /\ Sealed(tree) /\ ledger \in Ledgers /\ renders \in Nat /\ IsQueue(queue)
    /\ task \in { "idle", "outputs", "clear", "universe" }
    /\ task # "idle" =>
          Accepted(ledger) /\ Drawable(ledger) /\ published \notin { "current", "rendered" }
    /\ task \in { "idle", "outputs" } => Settled(ledger, renders, tree)
    /\ task = "outputs" => OutputsWait(ledger, renders, tree, queue)
    /\ task \in { "clear", "universe" } => OutputsWritten(ledger, renders, tree)
    /\ task \in { "clear", "universe" } => DrawingsFirst(queue)
    /\ task = "clear" => UniverseWaits(ledger, renders, tree, queue, {})
    /\ task = "universe" => /\ UniverseWaits(ledger, renders, tree, queue, UniverseOf(tree))
                            /\ DrawingWaits(queue) => Index \notin DOMAIN tree
    /\ published = "current" => Verifies(ledger, tree)
    /\ published = "rendered" =>
          (renders >= 2 \/ ~ LooksIntoUniverse(ledger, tree) => Verifies(ledger, tree))

LEMMA PublicationInitially == PublicationInit => PublicationInv
<1> SUFFICES ASSUME PublicationInit PROVE PublicationInv
    OBVIOUS
<1>1. /\ tree \in Repositories /\ ledger \in Ledgers /\ task = "idle" /\ queue = <<>>
      /\ published = "none" /\ renders = 0
    BY DEF PublicationInit
<1>2. IsTree(tree) /\ Sealed(tree)
    BY <1>1, PublicationAssumption
<1>3. IsQueue(queue)
    BY <1>1, NothingWaits
<1>4. Settled(ledger, renders, tree)
    BY <1>1 DEF Settled
<1>5. QED
    BY <1>1, <1>2, <1>3, <1>4 DEF PublicationInv

\* A repository after an edit or a killed command: nothing is asked of it but that it is one,
\* and sealed.
LEMMA PublicationRestarts ==
    ASSUME IsTree(tree'), Sealed(tree'), ledger' \in Ledgers, task' = "idle", IsQueue(queue'),
           published' \notin { "current", "rendered" }, renders' = 0
    PROVE  PublicationInv'
<1>1. Settled(ledger', renders', tree')
    BY DEF Settled
<1>2. QED
    BY <1>1 DEF PublicationInv

LEMMA EditKeeps == PublicationInv /\ Edit => PublicationInv'
<1> SUFFICES ASSUME PublicationInv, Edit PROVE PublicationInv'
    OBVIOUS
<1>1. /\ task = "idle" /\ renders' = 0 /\ published' = "none" /\ task' = task /\ queue' = queue
    BY DEF Edit
<1>2. IsTree(tree) /\ Sealed(tree) /\ IsQueue(queue) /\ ledger \in Ledgers
    BY DEF PublicationInv
<1>3. IsTree(tree') /\ Sealed(tree') /\ ledger' \in Ledgers
    <2>1. ASSUME NEW e \in Edits, e.document = <<>>,
                 tree' = [p \in DOMAIN tree \ { e.path } |-> tree[p]]
          PROVE  IsTree(tree') /\ Sealed(tree')
        <3>1. tree' = Without(tree, { e.path })
            BY <2>1 DEF Without
        <3>2. QED
            BY <1>2, <3>1, WithoutTree, WithoutSeals
    <2>2. ASSUME NEW e \in Edits, e.document # <<>>, tree' = Written(tree, e.path, e.document)
          PROVE  IsTree(tree') /\ Sealed(tree')
        <3>1. /\ e.path = Source(e.path[2])
              /\ e.document # Torn /\ IsFiniteSet(e.document.diagrams)
            BY <2>2, PublicationAssumption
        <3> DEFINE path == e.path
                   c == e.document
        <3>2. path = << path[1], path[2] >> /\ path[1] = "source" /\ path # Index
            BY <3>1 DEF Source, Index
        <3>3. c # Torn /\ IsFiniteSet(c.diagrams) /\ tree' = Written(tree, path, c)
            BY <2>2, <3>1
        <3> HIDE DEF path, c
        <3>4. QED
            BY <1>2, <3>2, <3>3, WrittenTree, WrittenSeals
    <2>3. CASE ledger' \in Ledgers \ { ledger } /\ tree' = tree
        BY <1>2, <2>3
    <2>4. CASE (\E e \in Edits :
                  /\ tree' = IF e.document = <<>> THEN [p \in DOMAIN tree \ { e.path } |-> tree[p]]
                             ELSE Written(tree, e.path, e.document)
                  /\ ledger' = ledger)
        <3>1. PICK e \in Edits :
                  /\ tree' = IF e.document = <<>> THEN [p \in DOMAIN tree \ { e.path } |-> tree[p]]
                             ELSE Written(tree, e.path, e.document)
                  /\ ledger' = ledger
            BY <2>4
        <3>2. CASE e.document = <<>>
            BY <1>2, <2>1, <3>1, <3>2
        <3>3. CASE e.document # <<>>
            BY <1>2, <2>2, <3>1, <3>3
        <3>4. QED
            BY <3>2, <3>3
    <2>5. QED
        BY <2>3, <2>4 DEF Edit
<1>4. QED
    BY <1>1, <1>2, <1>3, PublicationRestarts

\* What a killed write leaves: torn outputs, or a part of the universe, of which a drawing is
\* cut short only before the index is there.
LEMMA CutWriteSeals ==
    ASSUME PublicationInv, task \in { "outputs", "universe" }, queue # <<>>,
           NEW left \in Remains(Head(queue)[1], Head(queue)[2]),
           NEW path, path = Head(queue)[1], NEW g, g = Written(tree, path, left)
    PROVE  IsTree(g) /\ Sealed(g)
<1>1. IsTree(tree) /\ Sealed(tree) /\ IsQueue(queue)
    BY DEF PublicationInv
<1>2. Head(queue) \in Range(queue)
    BY <1>1, TakenFromQueue
<1>3. left = Torn \/ path[1] = "universe drawing"
    BY DEF Remains
<1>4. ~ CutShort(Torn) /\ IsFiniteSet(Torn.diagrams)
    BY FS_EmptySet, MarkedNotTorn DEF Torn
<1>5. CASE task = "outputs"
    <2>1. path \in OutputPaths
        BY <1>2, <1>5 DEF PublicationInv, OutputsWait
    <2>2. path # Index /\ path[1] # "universe drawing" /\ path = << path[1], path[2] >>
        BY <2>1, OutputsApart
    <2>3. left = Torn
        BY <1>3, <2>2
    <2>4. QED
        BY <1>1, <1>4, <2>1, <2>2, <2>3, WrittenTree, WrittenSeals
<1>6. CASE task = "universe"
    <2>1. /\ UniverseWaits(ledger, renders, tree, queue, UniverseOf(tree))
          /\ DrawingWaits(queue) => Index \notin DOMAIN tree
        BY <1>6 DEF PublicationInv
    <2>2. path \in UniversePaths(tree)
        BY <1>2, <2>1 DEF UniverseWaits
    <2>3. InUniverse(path) /\ path = << path[1], path[2] >>
        BY <2>2, UniversePathsAre
    <2>4. path[1] # "source" /\ Index[1] # "universe drawing"
        BY <2>3, PathsAreApart
    <2>5. IsTree(g)
        BY <1>1, <2>3, <2>4, WrittenTree
    <2>6. /\ DOMAIN g = DOMAIN tree \cup { path } /\ g[path] = left
          /\ \A p \in DOMAIN tree : p # path => g[p] = tree[p]
        BY DEF Written
    <2>7. CASE path[1] = "universe drawing"
        <3>1. DrawingWaits(queue)
            BY <1>2, <2>7 DEF DrawingWaits
        <3>2. Index \notin DOMAIN g
            BY <2>1, <2>4, <2>6, <2>7, <3>1
        <3>3. QED
            BY <2>5, <3>2 DEF Sealed
    <2>8. CASE path[1] # "universe drawing"
        <3>1. WholeDrawings(tree)
            BY <2>1, WholeSoFar
        <3>2. WholeDrawings(g)
            BY <2>6, <2>8, <3>1 DEF WholeDrawings
        <3>3. QED
            BY <2>5, <3>2 DEF Sealed
    <2>9. QED
        BY <2>7, <2>8
<1>7. QED
    BY <1>5, <1>6

LEMMA CrashKeeps == PublicationInv /\ Crash => PublicationInv'
<1> SUFFICES ASSUME PublicationInv, Crash PROVE PublicationInv'
    OBVIOUS
<1>1. /\ task' = "idle" /\ queue' = <<>> /\ published' = "crashed" /\ renders' = 0
      /\ ledger' = ledger
    BY DEF Crash, Conclude
<1>2. IsTree(tree) /\ Sealed(tree) /\ ledger \in Ledgers
    BY DEF PublicationInv
<1>3. IsTree(tree') /\ Sealed(tree')
    <2>1. CASE tree' = tree
        BY <1>2, <2>1
    <2>2. CASE /\ task \in { "outputs", "universe" } /\ queue # <<>>
               /\ \E left \in Remains(Head(queue)[1], Head(queue)[2]) :
                     tree' = Written(tree, Head(queue)[1], left)
        BY <2>2, CutWriteSeals
    <2>3. CASE task = "clear"
               /\ \E gone \in SUBSET { p \in DOMAIN tree : InUniverse(p) } : tree' = Without(tree, gone)
        BY <1>2, <2>3, WithoutTree, WithoutSeals
    <2>4. QED
        BY <2>1, <2>2, <2>3 DEF Crash
<1>4. QED
    BY <1>1, <1>2, <1>3, NothingWaits, PublicationRestarts

LEMMA RenderKeeps == PublicationInv /\ Render => PublicationInv'
<1> SUFFICES ASSUME PublicationInv, Render PROVE PublicationInv'
    OBVIOUS
<1>1. task = "idle" /\ ledger' = ledger /\ tree' = tree /\ renders' = renders
    BY DEF Render
<1>2. Settled(ledger, renders, tree)
    BY <1>1 DEF PublicationInv
<1>3. CASE Accepted(ledger) /\ Drawable(ledger)
    <2>1. task' = "outputs" /\ queue' = Outputs(ledger, tree) /\ published' = "none"
        BY <1>3 DEF Render
    <2>2. IsQueue(queue') /\ OutputsWait(ledger, renders, tree, queue')
        BY <2>1, OutputsGenerated
    <2>3. QED
        BY <1>1, <1>2, <1>3, <2>1, <2>2 DEF PublicationInv
<1>4. CASE ~ (Accepted(ledger) /\ Drawable(ledger))
    <2>1. task' = "idle" /\ queue' = <<>> /\ published' = "rejected"
        BY <1>4 DEF Render, Conclude
    <2>2. QED
        BY <1>1, <1>2, <2>1, NothingWaits DEF PublicationInv
<1>5. QED
    BY <1>3, <1>4

LEMMA WriteOutputKeepsInv == PublicationInv /\ WriteOutput => PublicationInv'
<1> SUFFICES ASSUME PublicationInv, WriteOutput PROVE PublicationInv'
    OBVIOUS
<1>1. /\ task = "outputs" /\ queue # <<>> /\ queue' = Tail(queue)
      /\ tree' = Written(tree, Head(queue)[1], Head(queue)[2])
      /\ ledger' = ledger /\ task' = task /\ published' = published /\ renders' = renders
    BY DEF WriteOutput, Write
<1>2. /\ IsTree(tree) /\ IsQueue(queue) /\ renders \in Nat
      /\ Settled(ledger, renders, tree) /\ OutputsWait(ledger, renders, tree, queue)
      /\ Accepted(ledger) /\ Drawable(ledger) /\ published \notin { "current", "rendered" }
      /\ ledger \in Ledgers /\ Sealed(tree)
    BY <1>1 DEF PublicationInv
<1>3. /\ IsQueue(Tail(queue)) /\ IsTree(tree') /\ OutputsWait(ledger, renders, tree', Tail(queue))
      /\ Settled(ledger, renders, tree')
    BY <1>1, <1>2, WriteOutputKeeps
<1>4. Sealed(tree')
    <2>1. Head(queue)[1] \in OutputPaths
        BY <1>1, <1>2, TakenFromQueue DEF OutputsWait
    <2>2. Head(queue)[1] # Index /\ Head(queue)[1][1] # "universe drawing"
        BY <2>1, OutputsApart
    <2>3. QED
        BY <1>1, <1>2, <2>2, WrittenSeals
<1>5. QED
    BY <1>1, <1>2, <1>3, <1>4 DEF PublicationInv

LEMMA GenerateUniverseKeeps == PublicationInv /\ GenerateUniverse => PublicationInv'
<1> SUFFICES ASSUME PublicationInv, GenerateUniverse PROVE PublicationInv'
    OBVIOUS
<1>1. /\ task = "outputs" /\ queue = <<>> /\ ledger' = ledger /\ tree' = tree
      /\ renders' = renders
    BY DEF GenerateUniverse
<1>2. /\ IsTree(tree) /\ renders \in Nat /\ ledger \in Ledgers
      /\ Settled(ledger, renders, tree) /\ OutputsWait(ledger, renders, tree, queue)
      /\ Accepted(ledger) /\ Drawable(ledger) /\ published \notin { "current", "rendered" }
      /\ Sealed(tree)
    BY <1>1 DEF PublicationInv
<1>3. OutputsWritten(ledger, renders, tree)
    BY <1>1, <1>2, NothingWaits
<1>4. ASSUME NEW drawing \in [Assets(tree) -> Drawings],
             NEW u, u = Universe(tree, Drawn(tree, drawing)),
             NEW paths, paths = WritingOrder(tree), Terminated(tree),
             queue' = [i \in DOMAIN paths |-> << paths[i], u[paths[i]] >>],
             task' = "clear", published' = published
      PROVE  PublicationInv'
    <2>1. /\ IsQueue(queue') /\ UniverseWaits(ledger, renders, tree, queue', {})
          /\ DrawingsFirst(queue')
        BY <1>2, <1>4, UniverseGenerated
    <2>2. QED
        BY <1>1, <1>2, <1>3, <1>4, <2>1 DEF PublicationInv
<1>5. CASE task' = "idle" /\ queue' = <<>> /\ published' = "undrawn"
    BY <1>1, <1>2, <1>5, NothingWaits DEF PublicationInv
<1>6. \/ /\ Terminated(tree)
         /\ \E drawing \in [Assets(tree) -> Drawings] :
               LET universe == Universe(tree, Drawn(tree, drawing))
                   paths == WritingOrder(tree)
               IN  queue' = [i \in DOMAIN paths |-> << paths[i], universe[paths[i]] >>]
         /\ task' = "clear" /\ published' = published
      \/ task' = "idle" /\ queue' = <<>> /\ published' = "undrawn"
    BY Zenon DEF GenerateUniverse, Conclude
<1>7. CASE /\ Terminated(tree)
           /\ \E drawing \in [Assets(tree) -> Drawings] :
                 LET universe == Universe(tree, Drawn(tree, drawing))
                     paths == WritingOrder(tree)
                 IN  queue' = [i \in DOMAIN paths |-> << paths[i], universe[paths[i]] >>]
           /\ task' = "clear" /\ published' = published
    <2>1. PICK drawing \in [Assets(tree) -> Drawings] :
             LET universe == Universe(tree, Drawn(tree, drawing))
                 paths == WritingOrder(tree)
             IN  queue' = [i \in DOMAIN paths |-> << paths[i], universe[paths[i]] >>]
        BY <1>7, Zenon
    <2>2. QED
        BY <1>4, <1>7, <2>1, Zenon
<1>8. QED
    BY <1>5, <1>6, <1>7, Zenon

LEMMA ClearKeepsInv == PublicationInv /\ Clear => PublicationInv'
<1> SUFFICES ASSUME PublicationInv, Clear PROVE PublicationInv'
    OBVIOUS
<1>1. /\ task = "clear" /\ task' = "universe" /\ ledger' = ledger /\ queue' = queue
      /\ published' = published /\ renders' = renders
      /\ tree' = Without(tree, { p \in DOMAIN tree : InUniverse(p) })
    BY DEF Clear
<1>2. /\ IsTree(tree) /\ IsQueue(queue) /\ renders \in Nat /\ ledger \in Ledgers
      /\ OutputsWritten(ledger, renders, tree) /\ UniverseWaits(ledger, renders, tree, queue, {})
      /\ Accepted(ledger) /\ Drawable(ledger) /\ published \notin { "current", "rendered" }
    BY <1>1 DEF PublicationInv
<1>3. /\ IsTree(tree') /\ OutputsWritten(ledger, renders, tree') /\ UniverseOf(tree') = {}
      /\ UniverseWaits(ledger, renders, tree', queue, {})
    BY <1>1, <1>2, ClearKeeps
<1>4. UniverseWaits(ledger', renders', tree', queue', UniverseOf(tree'))
    BY <1>1, <1>3
<1>5. Index \notin DOMAIN tree'
    BY <1>3, PathsAreApart DEF UniverseOf
<1>6. Sealed(tree') /\ DrawingsFirst(queue)
    BY <1>1, <1>5 DEF PublicationInv, Sealed
<1>7. QED
    BY <1>1, <1>2, <1>3, <1>4, <1>5, <1>6 DEF PublicationInv

LEMMA WriteFileKeepsInv == PublicationInv /\ WriteFile => PublicationInv'
<1> SUFFICES ASSUME PublicationInv, WriteFile PROVE PublicationInv'
    OBVIOUS
<1>1. /\ task = "universe" /\ queue # <<>> /\ queue' = Tail(queue)
      /\ tree' = Written(tree, Head(queue)[1], Head(queue)[2])
      /\ ledger' = ledger /\ task' = task /\ published' = published /\ renders' = renders
    BY DEF WriteFile, Write
<1>2. /\ IsTree(tree) /\ IsQueue(queue) /\ renders \in Nat /\ ledger \in Ledgers
      /\ OutputsWritten(ledger, renders, tree)
      /\ UniverseWaits(ledger, renders, tree, queue, UniverseOf(tree))
      /\ Accepted(ledger) /\ Drawable(ledger) /\ published \notin { "current", "rendered" }
    BY <1>1 DEF PublicationInv
<1>3. /\ IsQueue(Tail(queue)) /\ IsTree(tree') /\ OutputsWritten(ledger, renders, tree')
      /\ UniverseWaits(ledger, renders, tree', Tail(queue), UniverseOf(tree'))
    BY <1>1, <1>2, WriteFileKeeps
<1>4. Sealed(tree')
    BY <1>3, WholeSoFar DEF Sealed
<1>5. /\ DrawingsFirst(Tail(queue))
      /\ DrawingWaits(Tail(queue)) => Index \notin DOMAIN tree'
    <2>1. /\ DrawingsFirst(queue)
          /\ DrawingWaits(queue) => Index \notin DOMAIN tree
        BY <1>1 DEF PublicationInv
    <2>2. /\ DrawingsFirst(Tail(queue))
          /\ DrawingWaits(Tail(queue)) => Head(queue)[1] # Index /\ DrawingWaits(queue)
        BY <1>1, <1>2, <2>1, DrawingsStayFirst
    <2>3. DOMAIN tree' = DOMAIN tree \cup { Head(queue)[1] }
        BY <1>1 DEF Written
    <2>4. QED
        BY <2>1, <2>2, <2>3
<1>6. QED
    BY <1>1, <1>2, <1>3, <1>4, <1>5 DEF PublicationInv

LEMMA RenderedKeeps == PublicationInv /\ Rendered => PublicationInv'
<1> SUFFICES ASSUME PublicationInv, Rendered PROVE PublicationInv'
    OBVIOUS
<1>1. /\ task = "universe" /\ queue = <<>> /\ task' = "idle" /\ queue' = <<>>
      /\ published' = "rendered" /\ renders' = IF renders < 2 THEN renders + 1 ELSE 2
      /\ ledger' = ledger /\ tree' = tree
    BY DEF Rendered, Conclude
<1>2. /\ IsTree(tree) /\ renders \in Nat /\ ledger \in Ledgers
      /\ OutputsWritten(ledger, renders, tree)
      /\ UniverseWaits(ledger, renders, tree, queue, UniverseOf(tree))
      /\ Accepted(ledger) /\ Drawable(ledger) /\ Sealed(tree)
    BY <1>1 DEF PublicationInv
<1>3. /\ \A more : Settled(ledger, more, tree)
      /\ Steady(ledger, renders, tree) => Verifies(ledger, tree)
    BY <1>1, <1>2, RenderEnds
<1>4. renders' \in Nat /\ (renders' >= 2 => renders >= 1)
    BY <1>1, <1>2
<1>5. renders' >= 2 \/ ~ LooksIntoUniverse(ledger, tree) => Verifies(ledger, tree)
    BY <1>3, <1>4 DEF Steady
<1>6. QED
    BY <1>1, <1>2, <1>3, <1>4, <1>5, NothingWaits DEF PublicationInv

LEMMA VerifyKeeps == PublicationInv /\ Verify => PublicationInv'
<1> SUFFICES ASSUME PublicationInv, Verify PROVE PublicationInv'
    OBVIOUS
<1>1. /\ task = "idle" /\ published' = IF Verifies(ledger, tree) THEN "current" ELSE "stale"
      /\ ledger' = ledger /\ tree' = tree /\ task' = task /\ queue' = queue /\ renders' = renders
    BY DEF Verify
<1>2. /\ published' = "current" => Verifies(ledger, tree)
      /\ published' # "rendered"
    BY <1>1
<1>3. QED
    BY <1>1, <1>2 DEF PublicationInv

LEMMA PublicationInvHolds == PublicationSpec => []PublicationInv
<1>1. PublicationInit => PublicationInv
    BY PublicationInitially
<1>2. PublicationInv /\ [PublicationStep]_publicationVars => PublicationInv'
    <2>1. PublicationInv /\ UNCHANGED publicationVars => PublicationInv'
        BY DEF PublicationInv, publicationVars
    <2>2. QED
        BY <2>1, EditKeeps, RenderKeeps, WriteOutputKeepsInv, GenerateUniverseKeeps, ClearKeepsInv,
           WriteFileKeepsInv, RenderedKeeps, CrashKeeps, VerifyKeeps DEF PublicationStep
<1>3. QED
    BY <1>1, <1>2, PTL DEF PublicationSpec

(***************************************************************************)
(* A render that completes repairs whatever edits and killed renders left,  *)
(* in one go where no link looks into the universe and in two otherwise;    *)
(* a publication that verifies shows what the sources say, with no torn     *)
(* file, no link to a missing page and no drawing cut short, although only  *)
(* a drawing's beginning is looked at: the drawings are written before the  *)
(* index; and the series of an accepted ledger is that of its merged        *)
(* attempts: for all repositories, ledgers, edits, drawings and numbers of  *)
(* edits and crashes.                                                       *)
(***************************************************************************)
THEOREM PublicationSound == PublicationSpec => []PublicationIsSound
<1>1. PublicationInv => PublicationIsSound
    <2> SUFFICES ASSUME PublicationInv PROVE PublicationIsSound
        OBVIOUS
    <2>1. IsTree(tree) /\ Sealed(tree) /\ ledger \in Ledgers /\ renders \in Nat
        BY DEF PublicationInv
    <2>2. RenderRepairs
        BY DEF PublicationInv, RenderRepairs
    <2>3. published = "current" => Shows(ledger, tree)
        BY <2>1, VerifiedShows DEF PublicationInv
    <2>4. VerifiedIsTrue
        BY <2>3, Zenon DEF VerifiedIsTrue, Shows
    <2>5. ProgressIsTrue(ledger)
        BY <2>1, ProgressFollows
    <2>6. QED
        BY <2>2, <2>4, <2>5 DEF PublicationIsSound
<1>2. QED
    BY <1>1, PublicationInvHolds, PTL

-----------------------------------------------------------------------------
(* Event summaries. *)

Summary == [count : Nat, sum : HashWords, xor : HashWords, sum_of_squares : HashWords]

\* What is left over is found after each addition or once at the end.
LEMMA RemaindersAdd ==
    ASSUME NEW M \in Nat \ {0}, NEW a \in Nat, NEW b \in Nat
    PROVE  ((a % M) + b) % M = (a + b) % M
<1> DEFINE q == a \div M
           r == a % M
           p == (r + b) \div M
           t == (r + b) % M
<1>1. a = M * q + r /\ q \in Nat /\ r \in 0..(M - 1)
    OBVIOUS
<1> HIDE DEF q, r
<1>2. r + b = M * p + t /\ p \in Nat /\ t \in 0..(M - 1)
    BY <1>1
<1> HIDE DEF p, t
<1>3. a + b = M * (q + p) + t
    BY <1>1, <1>2
<1> DEFINE k == q + p
<1>4. ASSUME NEW m \in Nat, m = M * k + t PROVE m % M = t
    <2>1. k \in Nat
        BY <1>1, <1>2
    <2> HIDE DEF k
    <2>2. QED
        BY <1>2, <1>4, <2>1
<1>5. (a + b) % M = t
    BY <1>3, <1>4
<1>6. QED
    BY <1>5 DEF t, r

LEMMA WordFacts ==
    /\ 2^WordBits \in Nat \ {0}
    /\ EmptySummary \in Summary
    /\ \A n \in Nat : HashWord(n) \in HashWords
    /\ \A e \in Event : Hash(e) \in HashWords /\ Rotated(Hash(e), PatternOf(e)) \in HashWords
<1> DEFINE M == 2^WordBits
<1>1. WordBits \in Nat \ {0} /\ WordBits \in 0..WordBits /\ \A k \in 0..WordBits : 2^k \in Nat \ {0}
    BY MeasurementAssumption
<1>2. M \in Nat \ {0}
    BY <1>1
<1>3. HashWords = 0..(M - 1) /\ \A n : HashWord(n) = n % M
    BY DEF HashWords, HashWord
<1> HIDE DEF M
<1>4. \A n \in Nat : HashWord(n) \in HashWords
    BY <1>2, <1>3
<1>5. 0 \in HashWords
    BY <1>2, <1>3
<1>6. ASSUME NEW e \in Event
      PROVE  Hash(e) \in HashWords /\ Rotated(Hash(e), PatternOf(e)) \in HashWords
    <2> DEFINE n == Hash(e)
               k == PatternOf(e) % WordBits
               low == 2^k
               high == 2^(WordBits - k)
    <2>1. n \in HashWords /\ PatternOf(e) \in Nat
        BY MeasurementAssumption
    <2>2. n \in Nat
        BY <1>2, <1>3, <2>1
    <2>3. k \in 0..WordBits /\ WordBits - k \in 0..WordBits
        BY <1>1, <2>1
    <2>4. low \in Nat \ {0} /\ high \in Nat \ {0}
        BY <1>1, <2>3
    <2>5. Rotated(n, PatternOf(e)) = HashWord(n * low + n \div high)
        BY DEF Rotated
    <2> HIDE DEF n, k, low, high
    <2>6. n * low + n \div high \in Nat
        BY <2>2, <2>4
    <2>7. QED
        BY <1>4, <2>1, <2>5, <2>6 DEF n
<1>7. QED
    BY <1>2, <1>4, <1>5, <1>6 DEF EmptySummary, Summary, M

\* Two events are added in either order.
LEMMA AddCommutes ==
    ASSUME NEW s \in Summary, NEW x \in Event, NEW y \in Event
    PROVE  /\ AddEvent(s, x) \in Summary
           /\ AddEvent(AddEvent(s, x), y) = AddEvent(AddEvent(s, y), x)
<1> DEFINE M == 2^WordBits
           rot(e) == Rotated(Hash(e), PatternOf(e))
           sq(e) == Hash(e) * Hash(e)
<1>1. M \in Nat \ {0} /\ HashWords = 0..(M - 1) /\ \A n : HashWord(n) = n % M
    BY WordFacts DEF HashWords, HashWord
<1>2. \A n \in Nat : HashWord(n) \in HashWords
    BY WordFacts
<1>3. HashWords \subseteq Nat
    BY <1>1
<1>4. \A e \in Event : Hash(e) \in HashWords /\ rot(e) \in HashWords /\ Hash(e) \in Nat
    BY <1>3, WordFacts
<1> HIDE DEF rot, sq, M
<1>5. \A e \in Event : sq(e) \in Nat
    BY <1>4 DEF sq
<1>6. /\ s.count \in Nat /\ s.sum \in HashWords /\ s.xor \in HashWords
      /\ s.sum_of_squares \in HashWords
    BY DEF Summary
<1>7. ASSUME NEW a \in HashWords, NEW m \in Nat, NEW n \in Nat
      PROVE  /\ HashWord(a + m) \in HashWords
             /\ HashWord(HashWord(a + m) + n) = HashWord(HashWord(a + n) + m)
    <2>1. a \in Nat /\ a + m \in Nat /\ a + n \in Nat
        BY <1>3
    <2>2. HashWord(HashWord(a + m) + n) = ((a + m) + n) % M
        BY <1>1, <2>1, RemaindersAdd
    <2>3. HashWord(HashWord(a + n) + m) = ((a + n) + m) % M
        BY <1>1, <2>1, RemaindersAdd
    <2>4. (a + m) + n = (a + n) + m
        BY <2>1
    <2>5. QED
        BY <1>2, <2>1, <2>2, <2>3, <2>4
<1>8. ASSUME NEW a \in HashWords, NEW m \in HashWords, NEW n \in HashWords
      PROVE  /\ ExclusiveOr(a, m) \in HashWords
             /\ ExclusiveOr(ExclusiveOr(a, m), n) = ExclusiveOr(ExclusiveOr(a, n), m)
    <2>1. /\ ExclusiveOr(a, m) \in HashWords
          /\ ExclusiveOr(m, n) = ExclusiveOr(n, m)
          /\ ExclusiveOr(ExclusiveOr(a, m), n) = ExclusiveOr(a, ExclusiveOr(m, n))
          /\ ExclusiveOr(ExclusiveOr(a, n), m) = ExclusiveOr(a, ExclusiveOr(n, m))
        BY MeasurementAssumption
    <2>2. QED
        BY <2>1
<1>9. \A u, e : AddEvent(u, e) = [count |-> u.count + 1,
                                  sum |-> HashWord(u.sum + Hash(e)),
                                  xor |-> ExclusiveOr(u.xor, rot(e)),
                                  sum_of_squares |-> HashWord(u.sum_of_squares + sq(e))]
    BY DEF AddEvent, rot, sq
<1>10. AddEvent(s, x) \in Summary
    <2>1. /\ HashWord(s.sum + Hash(x)) \in HashWords
          /\ HashWord(s.sum_of_squares + sq(x)) \in HashWords
        BY <1>4, <1>5, <1>6, <1>7
    <2>2. ExclusiveOr(s.xor, rot(x)) \in HashWords
        BY <1>4, <1>6, <1>8
    <2>3. s.count + 1 \in Nat
        BY <1>6
    <2>4. QED
        BY <1>9, <2>1, <2>2, <2>3 DEF Summary
<1>11. AddEvent(AddEvent(s, x), y) = AddEvent(AddEvent(s, y), x)
    <2>1. \A e, f : AddEvent(AddEvent(s, e), f)
            = [count |-> (s.count + 1) + 1,
               sum |-> HashWord(HashWord(s.sum + Hash(e)) + Hash(f)),
               xor |-> ExclusiveOr(ExclusiveOr(s.xor, rot(e)), rot(f)),
               sum_of_squares |-> HashWord(HashWord(s.sum_of_squares + sq(e)) + sq(f))]
        BY <1>9
    <2>2. /\ HashWord(HashWord(s.sum + Hash(x)) + Hash(y)) = HashWord(HashWord(s.sum + Hash(y)) + Hash(x))
          /\ HashWord(HashWord(s.sum_of_squares + sq(x)) + sq(y))
                = HashWord(HashWord(s.sum_of_squares + sq(y)) + sq(x))
        BY <1>4, <1>5, <1>6, <1>7
    <2>3. ExclusiveOr(ExclusiveOr(s.xor, rot(x)), rot(y)) = ExclusiveOr(ExclusiveOr(s.xor, rot(y)), rot(x))
        BY <1>4, <1>6, <1>8
    <2>4. QED
        BY <2>1, <2>2, <2>3
<1>12. QED
    BY <1>10, <1>11

\* The summaries along a delivery.
Adding(s) ==
    { F \in [0..Len(s) -> Summary] :
        F[0] = EmptySummary /\ \A i \in 1..Len(s) : F[i] = AddEvent(F[i - 1], s[i]) }

LEMMA SummaryIs ==
    ASSUME NEW s \in Seq(Event)
    PROVE  \E F \in Adding(s) : EventSummary(s) = F[Len(s)]
<1> DEFINE n == Len(s)
           g == [x \in (1..n) \X Summary |-> AddEvent(x[2], s[x[1]])]
           add[i \in 0..Len(s)] == IF i = 0 THEN EmptySummary ELSE AddEvent(add[i - 1], s[i])
           Adds(f) == [i \in 0..Len(s) |-> IF i = 0 THEN EmptySummary ELSE AddEvent(f[i - 1], s[i])]
<1>1. n \in Nat /\ EmptySummary \in Summary /\ \A i \in 1..n : s[i] \in Event
    BY WordFacts, ElementOfSeq, LenProperties
<1>2. g \in [(1..n) \X Summary -> Summary]
    BY <1>1, AddCommutes
<1>3. Along(Summary, n, EmptySummary, g) # {}
    <2> HIDE DEF n, g
    <2>1. QED
        BY <1>1, <1>2, Recursion
<1>4. PICK F \in [0..n -> Summary] : F[0] = EmptySummary /\ \A i \in 1..n : F[i] = g[<<i, F[i - 1]>>]
    BY <1>3 DEF Along
<1>5. \A i \in 1..n : F[i] = AddEvent(F[i - 1], s[i])
    <2> SUFFICES ASSUME NEW i \in 1..n PROVE F[i] = AddEvent(F[i - 1], s[i])
        OBVIOUS
    <2>1. i - 1 \in 0..n
        BY <1>1
    <2>2. F[i - 1] \in Summary
        BY <1>4, <2>1
    <2>3. <<i, F[i - 1]>> \in (1..n) \X Summary
        BY <2>2
    <2>4. g[<<i, F[i - 1]>>] = AddEvent(F[i - 1], s[i])
        BY <2>3
    <2>5. QED
        BY <1>4, <2>4
<1>6. Adds(F) = F
    <2>1. \A i \in 0..n : F[i] = IF i = 0 THEN EmptySummary ELSE AddEvent(F[i - 1], s[i])
        BY <1>1, <1>4, <1>5
    <2>2. QED
        BY <1>4, <2>1
<1>7. EventSummary(s) = add[n]
    BY Zenon DEF EventSummary
<1>8. add = CHOOSE f : f = Adds(f)
    BY Zenon
<1> HIDE DEF add, Adds, n, g
<1>9. add = Adds(add)
    BY <1>6, <1>8
<1>10. \A i \in 0..n : add[i] = IF i = 0 THEN EmptySummary ELSE AddEvent(add[i - 1], s[i])
    BY <1>9, Zenon DEF Adds, n
<1> DEFINE Same == { i \in 0..n : add[i] = F[i] }
<1>11. 0..n \subseteq Same
    <2>1. 0 \in Same
        <3>1. 0 \in 0..n
            BY <1>1
        <3>2. add[0] = EmptySummary
            BY <1>10, <3>1
        <3>3. QED
            BY <1>4, <3>1, <3>2
    <2>2. ASSUME NEW i \in 1..n, i - 1 \in Same PROVE i \in Same
        <3>1. i \in 0..n /\ i # 0 /\ add[i - 1] = F[i - 1]
            BY <1>1, <2>2
        <3>2. add[i] = AddEvent(add[i - 1], s[i])
            BY <1>10, <3>1
        <3>3. QED
            BY <1>5, <3>1, <3>2
    <2> HIDE DEF Same
    <2>3. QED
        BY <1>1, <2>1, <2>2, Induction
<1>12. EventSummary(s) = F[n]
    BY <1>1, <1>7, <1>11
<1>13. F \in Adding(s)
    BY <1>4, <1>5 DEF Adding, n
<1>14. QED
    BY <1>12, <1>13 DEF n

\* A sequence without the element at a place.
Removing(s, j) == [i \in 1..(Len(s) - 1) |-> IF i < j THEN s[i] ELSE s[i + 1]]

LEMMA RemovedFacts ==
    ASSUME NEW S, NEW s \in Seq(S), NEW j \in 1..Len(s)
    PROVE  /\ Removing(s, j) \in Seq(S)
           /\ Len(Removing(s, j)) = Len(s) - 1
           /\ \A i \in 1..(Len(s) - 1) :
                 Removing(s, j)[i] = IF i < j THEN s[i] ELSE s[i + 1]
<1>1. Len(s) \in Nat /\ Len(s) - 1 \in Nat /\ \A i \in 1..Len(s) : s[i] \in S
    BY ElementOfSeq, LenProperties
<1>2. \A i \in 1..(Len(s) - 1) : (IF i < j THEN s[i] ELSE s[i + 1]) \in S
    BY <1>1
<1>3. Removing(s, j) \in [1..(Len(s) - 1) -> S]
    BY <1>2 DEF Removing
<1>4. Removing(s, j) \in Seq(S)
    BY <1>1, <1>3, SeqDef
<1>5. DOMAIN Removing(s, j) = 1..(Len(s) - 1)
    BY DEF Removing
<1>6. QED
    BY <1>1, <1>4, <1>5, LenProperties DEF Removing

\* The last event added may be any of them.
LEMMA SummaryOfRemoved ==
    ASSUME NEW s \in Seq(Event), NEW j \in 1..Len(s)
    PROVE  EventSummary(s) = AddEvent(EventSummary(Removing(s, j)), s[j])
<1> DEFINE n == Len(s)
           r == Removing(s, j)
<1>1. n \in Nat \ {0} /\ j \in 1..n /\ \A i \in 1..n : s[i] \in Event
    BY ElementOfSeq, LenProperties
<1>2. /\ r \in Seq(Event) /\ Len(r) = n - 1
      /\ \A i \in 1..(n - 1) : r[i] = IF i < j THEN s[i] ELSE s[i + 1]
    BY RemovedFacts
<1>3. PICK F \in Adding(s) : EventSummary(s) = F[n]
    BY SummaryIs
<1>4. PICK G \in Adding(r) : EventSummary(r) = G[n - 1]
    <2> HIDE DEF r
    <2>1. QED
        BY <1>2, SummaryIs
<1>5. /\ F \in [0..n -> Summary] /\ F[0] = EmptySummary
      /\ \A i \in 1..n : F[i] = AddEvent(F[i - 1], s[i])
    BY <1>3 DEF Adding
<1>6. /\ G \in [0..(n - 1) -> Summary] /\ G[0] = EmptySummary
      /\ \A i \in 1..(n - 1) : G[i] = AddEvent(G[i - 1], r[i])
    BY <1>2, <1>4 DEF Adding
<1> DEFINE x == s[j]
<1>7. x \in Event
    BY <1>1
<1> HIDE DEF n, r, x
<1> DEFINE Good == { i \in 0..n : /\ i < j => F[i] = G[i]
                                  /\ i >= j => F[i] = AddEvent(G[i - 1], x) }
<1>8. 0 \in Good
    BY <1>1, <1>5, <1>6
<1>9. ASSUME NEW i \in 1..n, i - 1 \in Good PROVE i \in Good
    <2>1. /\ F[i] = AddEvent(F[i - 1], s[i]) /\ i \in 0..n /\ i \in Nat
          /\ i - 1 < j => F[i - 1] = G[i - 1]
          /\ i - 1 >= j => F[i - 1] = AddEvent(G[(i - 1) - 1], x)
        BY <1>1, <1>5, <1>9
    <2>2. CASE i < j
        <3>1. i \in 1..(n - 1) /\ i - 1 < j
            BY <1>1, <2>2
        <3>2. G[i] = AddEvent(G[i - 1], s[i])
            BY <1>2, <1>6, <2>2, <3>1
        <3>3. F[i] = G[i]
            BY <2>1, <3>1, <3>2
        <3>4. QED
            BY <1>1, <2>1, <2>2, <3>3
    <2>3. CASE i = j
        <3>1. i - 1 < j /\ ~ (i < j)
            BY <1>1, <2>3
        <3>2. F[i] = AddEvent(G[i - 1], x)
            BY <2>1, <2>3, <3>1 DEF x
        <3>3. QED
            BY <2>1, <3>1, <3>2
    <2>4. CASE i > j
        <3>1. i - 1 >= j /\ i - 1 \in 1..(n - 1) /\ (i - 1) + 1 = i /\ ~ (i - 1 < j) /\ ~ (i < j)
              /\ (i - 1) - 1 \in 0..(n - 1)
            BY <1>1, <2>4
        <3> DEFINE u == G[(i - 1) - 1]
        <3>2. u \in Summary
            BY <1>6, <3>1
        <3>3. G[i - 1] = AddEvent(u, s[i])
            <4>1. r[i - 1] = s[(i - 1) + 1]
                BY <1>2, <3>1
            <4>2. QED
                BY <1>6, <3>1, <4>1
        <3>4. F[i] = AddEvent(AddEvent(u, x), s[i])
            BY <2>1, <3>1
        <3> HIDE DEF u
        <3>5. s[i] \in Event
            BY <1>1
        <3>6. F[i] = AddEvent(G[i - 1], x)
            BY <1>7, <3>2, <3>3, <3>4, <3>5, AddCommutes
        <3>7. QED
            BY <2>1, <3>1, <3>6
    <2>5. QED
        BY <1>1, <2>2, <2>3, <2>4
<1>10. 0..n \subseteq Good
    <2> HIDE DEF Good
    <2>1. QED
        BY <1>1, <1>8, <1>9, Induction
<1>11. n \in Good /\ n >= j
    BY <1>1, <1>10
<1>12. QED
    BY <1>3, <1>4, <1>11 DEF n, r, x

\* How often an event is delivered.
Occurrences(s, x) == Cardinality({ i \in DOMAIN s : s[i] = x })
SameOccurrences(s, t) == \A x \in Event : Occurrences(s, x) = Occurrences(t, x)

\* Without an element there is one less of it, and as many of any other.
LEMMA RemovedOccurs ==
    ASSUME NEW s \in Seq(Event), NEW j \in 1..Len(s), NEW x
    PROVE  /\ Occurrences(s, x) \in Nat
           /\ Occurrences(Removing(s, j), x)
                = IF s[j] = x THEN Occurrences(s, x) - 1 ELSE Occurrences(s, x)
<1> DEFINE n == Len(s)
           r == Removing(s, j)
           A == { i \in 1..(n - 1) : r[i] = x }
           B == { i \in 1..n : s[i] = x }
           C == B \ { j }
           f == [i \in A |-> IF i < j THEN i ELSE i + 1]
<1>1. n \in Nat \ {0} /\ j \in 1..n /\ DOMAIN s = 1..n
    BY LenProperties
<1>2. DOMAIN r = 1..(n - 1) /\ \A i \in 1..(n - 1) : r[i] = IF i < j THEN s[i] ELSE s[i + 1]
    BY DEF Removing
<1>3. Occurrences(s, x) = Cardinality(B) /\ Occurrences(r, x) = Cardinality(A)
    BY <1>1, <1>2 DEF Occurrences
<1> HIDE DEF n, r
<1>4. IsFiniteSet(A) /\ IsFiniteSet(B)
    <2>1. IsFiniteSet(1..(n - 1)) /\ IsFiniteSet(1..n)
        BY <1>1, FS_Interval
    <2>2. A \in SUBSET (1..(n - 1)) /\ B \in SUBSET (1..n)
        OBVIOUS
    <2> HIDE DEF A, B
    <2>3. QED
        BY <2>1, <2>2, FS_Subset
<1>5. ExistsBijection(A, C)
    <2>1. \A i \in A : f[i] \in C
        BY <1>1, <1>2
    <2>2. \A i, k \in A : f[i] = f[k] => i = k
        BY <1>1
    <2>3. \A k \in C : \E i \in A : f[i] = k
        <3> SUFFICES ASSUME NEW k \in C PROVE \E i \in A : f[i] = k
            OBVIOUS
        <3>1. k \in 1..n /\ s[k] = x /\ k # j
            OBVIOUS
        <3>2. CASE k < j
            <4>1. k \in A /\ f[k] = k
                BY <1>1, <1>2, <3>1, <3>2
            <4>2. QED
                BY <4>1
        <3>3. CASE k > j
            <4> DEFINE i == k - 1
            <4>1. i \in 1..(n - 1) /\ ~ (i < j) /\ i + 1 = k
                BY <1>1, <3>1, <3>3
            <4>2. r[i] = s[i + 1]
                BY <1>2, <4>1
            <4>3. i \in A
                BY <3>1, <4>1, <4>2
            <4>4. f[i] = k
                BY <4>1, <4>3
            <4>5. QED
                BY <4>3, <4>4
        <3>4. QED
            BY <1>1, <3>1, <3>2, <3>3
    <2> HIDE DEF A, C
    <2>4. f \in [A -> C]
        BY <2>1
    <2> HIDE DEF f
    <2>5. f \in Bijection(A, C)
        BY <2>2, <2>3, <2>4 DEF Bijection, Injection, Surjection, IsInjective
    <2>6. QED
        BY <2>5 DEF ExistsBijection
<1> HIDE DEF A, f
<1>6. Cardinality(C) = Cardinality(A)
    BY <1>4, <1>5, FS_Bijection
<1>7. j \in B <=> s[j] = x
    BY <1>1
<1> HIDE DEF B
<1>8. Cardinality(C) = IF j \in B THEN Cardinality(B) - 1 ELSE Cardinality(B)
    BY <1>4, FS_RemoveElement
<1>9. Cardinality(B) \in Nat
    BY <1>4, FS_CardinalityType
<1>10. QED
    BY <1>3, <1>6, <1>7, <1>8, <1>9 DEF r

\* Deliveries with the same events in any order have one summary.
LEMMA OrderIsLost ==
    ASSUME NEW s \in Seq(Event), NEW t \in Seq(Event), SameOccurrences(s, t)
    PROVE  Len(s) = Len(t) /\ EventSummary(s) = EventSummary(t)
<1> DEFINE n == Len(s)
           Good == { k \in 0..n : \A u, v \in Seq(Event) :
                        Len(u) = k /\ SameOccurrences(u, v) =>
                            Len(u) = Len(v) /\ EventSummary(u) = EventSummary(v) }
<1>1. n \in Nat
    BY LenProperties
<1>2. ASSUME NEW u \in Seq(Event), NEW v \in Seq(Event), SameOccurrences(u, v), NEW i \in 1..Len(u)
      PROVE  \E j \in 1..Len(v) : v[j] = u[i]
    <2> DEFINE x == u[i]
               A == { k \in DOMAIN u : u[k] = x }
               B == { k \in DOMAIN v : v[k] = x }
    <2>1. DOMAIN u = 1..Len(u) /\ DOMAIN v = 1..Len(v) /\ x \in Event /\ i \in A
          /\ Len(u) \in Nat /\ Len(v) \in Nat
        BY ElementOfSeq, LenProperties
    <2>2. Cardinality(A) = Cardinality(B)
        BY <1>2, <2>1 DEF SameOccurrences, Occurrences
    <2>3. IsFiniteSet(A) /\ IsFiniteSet(B)
        <3>1. IsFiniteSet(1..Len(u)) /\ IsFiniteSet(1..Len(v))
            BY <2>1, FS_Interval
        <3>2. A \in SUBSET (1..Len(u)) /\ B \in SUBSET (1..Len(v))
            BY <2>1
        <3> HIDE DEF A, B
        <3>3. QED
            BY <3>1, <3>2, FS_Subset
    <2>4. B # {}
        <3> HIDE DEF A, B
        <3>1. QED
            BY <2>1, <2>2, <2>3, FS_EmptySet
    <2>5. QED
        BY <2>1, <2>4
<1>3. 0 \in Good
    <2> SUFFICES ASSUME NEW u \in Seq(Event), NEW v \in Seq(Event), Len(u) = 0, SameOccurrences(u, v)
                 PROVE  Len(u) = Len(v) /\ EventSummary(u) = EventSummary(v)
        BY <1>1
    <2>1. SameOccurrences(v, u)
        BY DEF SameOccurrences
    <2>2. ASSUME NEW j \in 1..Len(v) PROVE FALSE
        <3>1. \E i \in 1..Len(u) : u[i] = v[j]
            BY <1>2, <2>1
        <3>2. QED
            BY <3>1
    <2>3. Len(v) = 0
        BY <2>2, LenProperties
    <2>4. u = << >> /\ v = << >>
        BY <2>3, EmptySeq
    <2>5. QED
        BY <2>4
<1>4. ASSUME NEW k \in 1..n, k - 1 \in Good PROVE k \in Good
    <2> SUFFICES ASSUME NEW u \in Seq(Event), NEW v \in Seq(Event), Len(u) = k, SameOccurrences(u, v)
                 PROVE  Len(u) = Len(v) /\ EventSummary(u) = EventSummary(v)
        BY <1>1
    <2>1. k \in 1..Len(u) /\ u[k] \in Event
        BY ElementOfSeq
    <2>2. PICK j \in 1..Len(v) : v[j] = u[k]
        BY <1>2, <2>1
    <2> DEFINE p == Removing(u, k)
               q == Removing(v, j)
    <2>3. p \in Seq(Event) /\ Len(p) = k - 1 /\ q \in Seq(Event) /\ Len(q) = Len(v) - 1
        BY <2>1, RemovedFacts
    <2>4. SameOccurrences(p, q)
        <3> SUFFICES ASSUME NEW x \in Event PROVE Occurrences(p, x) = Occurrences(q, x)
            BY DEF SameOccurrences
        <3>1. Occurrences(u, x) = Occurrences(v, x)
            BY DEF SameOccurrences
        <3>2. Occurrences(p, x) = IF u[k] = x THEN Occurrences(u, x) - 1 ELSE Occurrences(u, x)
            BY <2>1, RemovedOccurs
        <3>3. Occurrences(q, x) = IF v[j] = x THEN Occurrences(v, x) - 1 ELSE Occurrences(v, x)
            BY RemovedOccurs
        <3>4. QED
            BY <2>2, <3>1, <3>2, <3>3
    <2>5. /\ EventSummary(u) = AddEvent(EventSummary(p), u[k])
          /\ EventSummary(v) = AddEvent(EventSummary(q), v[j])
        BY <2>1, SummaryOfRemoved
    <2> HIDE DEF p, q
    <2>6. Len(p) = Len(q) /\ EventSummary(p) = EventSummary(q)
        BY <1>4, <2>3, <2>4
    <2>7. Len(v) \in Nat
        BY LenProperties
    <2>8. QED
        BY <2>2, <2>3, <2>5, <2>6, <2>7
<1>5. 0..n \subseteq Good
    <2> HIDE DEF Good, n
    <2>1. QED
        BY <1>1, <1>3, <1>4, Induction
<1>6. n \in Good
    BY <1>1, <1>5
<1>7. QED
    BY <1>6

\* Deliveries that are one delivery once sorted are counted and summed up alike.
LEMMA SortedAlike ==
    ASSUME NEW s \in Seq(Event), NEW t \in Seq(Event), Sorted(s) = Sorted(t)
    PROVE  Len(s) = Len(t) /\ EventSummary(s) = EventSummary(t)
<1>1. ASSUME NEW x \in Event PROVE Occurrences(s, x) = Occurrences(t, x)
    <2> DEFINE S(u) == { u[i] : i \in DOMAIN u }
               at(u) == { i \in DOMAIN u : u[i] = x }
    <2>1. \A u : DOMAIN Sorted(u) = S(u)
        BY DEF Sorted
    <2>2. \A u : x \in S(u) => Sorted(u)[x] = Cardinality(at(u))
        BY DEF Sorted
    <2>3. S(s) = S(t)
        BY <2>1
    <2>4. CASE x \in S(s)
        BY <2>2, <2>3, <2>4 DEF Occurrences
    <2>5. CASE x \notin S(s)
        <3>1. at(s) = {} /\ at(t) = {}
            BY <2>3, <2>5
        <3>2. QED
            BY <3>1 DEF Occurrences
    <2>6. QED
        BY <2>4, <2>5
<1>2. SameOccurrences(s, t)
    BY <1>1 DEF SameOccurrences
<1>3. QED
    BY <1>2, OrderIsLost

\* The median is one of the samples, and splits them in halves.
Halves(samples, median) ==
    /\ 2 * Cardinality({ i \in DOMAIN samples : samples[i] < median }) <= Len(samples)
    /\ 2 * Cardinality({ i \in DOMAIN samples : samples[i] > median }) <= Len(samples)
    /\ \E i \in DOMAIN samples : samples[i] = median

LEMMA MedianSplits ==
    ASSUME NEW samples \in Seq(Nat), Len(samples) > 0
    PROVE  Halves(samples, Median(samples))
<1> DEFINE n == Len(samples)
           D == 1..n
           P == { p \in D \X D : \/ samples[p[1]] < samples[p[2]]
                                 \/ samples[p[1]] = samples[p[2]] /\ p[1] < p[2] }
           R == RankIn(P, D)
           h == n \div 2
           Ahead(i) == { j \in DOMAIN samples :
                            samples[j] < samples[i] \/ (samples[j] = samples[i] /\ j < i) }
<1>1. n \in Nat \ {0} /\ DOMAIN samples = D /\ \A i \in D : samples[i] \in Nat
    BY ElementOfSeq, LenProperties
<1>2. h \in 0..(n - 1) /\ 2 * h <= n /\ 2 * (n - 1 - h) <= n
    BY <1>1
<1>3. \A i, j \in D : << i, j >> \in P <=>
          samples[i] < samples[j] \/ (samples[i] = samples[j] /\ i < j)
    OBVIOUS
<1> HIDE DEF n, h, P
<1>4. Orders(P, D)
    <2>1. \A i \in D : << i, i >> \notin P
        BY <1>1, <1>3
    <2>2. \A i, j, k \in D : << i, j >> \in P /\ << j, k >> \in P => << i, k >> \in P
        BY <1>1, <1>3
    <2>3. \A i, j \in D : i = j \/ << i, j >> \in P \/ << j, i >> \in P
        <3> SUFFICES ASSUME NEW i \in D, NEW j \in D
                     PROVE  i = j \/ << i, j >> \in P \/ << j, i >> \in P
            BY Zenon
        <3>1. i \in Nat /\ j \in Nat /\ samples[i] \in Nat /\ samples[j] \in Nat
            BY <1>1
        <3>2. QED
            BY <1>3, <3>1
    <2>4. QED
        BY <2>1, <2>2, <2>3, Zenon DEF Orders
<1>5. IsFiniteSet(D) /\ Cardinality(D) = n
    BY <1>1, FS_Interval
<1>6. /\ \A x, y \in D : R[x] = R[y] => x = y
      /\ \A k \in 0..(n - 1) : \E x \in D : R[x] = k
    <2>1. Ranks(R, P, D, Cardinality(D))
        <3> HIDE DEF D
        <3>1. QED
            BY <1>4, <1>5, RanksInOrder
    <2>2. Ranks(R, P, D, n)
        BY <1>5, <2>1, Zenon
    <2>3. QED
        BY <2>2, Zenon DEF Ranks
<1>7. \A i \in D : Lower(P, D, i) = Ahead(i) /\ R[i] = Cardinality(Ahead(i))
    BY <1>1, <1>3 DEF Lower, RankIn
<1> DEFINE m == CHOOSE i \in DOMAIN samples : Cardinality(Ahead(i)) = h
<1>8. Median(samples) = samples[m]
    BY Zenon DEF Median, h, n
<1>9. m \in D /\ Cardinality(Ahead(m)) = h
    <2>1. PICK i \in D : R[i] = h
        BY <1>2, <1>6
    <2>2. i \in DOMAIN samples /\ Cardinality(Ahead(i)) = h
        BY <1>1, <1>7, <2>1
    <2> HIDE DEF Ahead
    <2>3. m \in DOMAIN samples /\ Cardinality(Ahead(m)) = h
        BY <2>2
    <2>4. QED
        BY <1>1, <2>3
<1> HIDE DEF m
<1> DEFINE median == samples[m]
           below == { i \in DOMAIN samples : samples[i] < median }
           above == { i \in DOMAIN samples : samples[i] > median }
           upto == Ahead(m) \cup { m }
<1>10. IsFiniteSet(Ahead(m)) /\ m \notin Ahead(m) /\ Ahead(m) \in SUBSET D
    <2>1. Ahead(m) \in SUBSET D /\ m \notin Ahead(m)
        BY <1>1, <1>9
    <2> HIDE DEF Ahead
    <2>2. QED
        BY <1>5, <2>1, FS_Subset
<1>11. Cardinality(below) \in Nat /\ Cardinality(below) <= h
    <2>1. below \in SUBSET Ahead(m)
        BY <1>1
    <2> HIDE DEF Ahead, below
    <2>2. QED
        BY <1>9, <1>10, <2>1, FS_Subset, FS_CardinalityType
<1>12. Cardinality(above) \in Nat /\ Cardinality(above) <= n - 1 - h
    <2>1. above \in SUBSET (D \ upto)
        BY <1>1, <1>9
    <2> HIDE DEF Ahead, above
    <2>2. IsFiniteSet(upto) /\ Cardinality(upto) = h + 1 /\ upto \in SUBSET D
        BY <1>9, <1>10, FS_AddElement
    <2> HIDE DEF upto
    <2>3. Cardinality(D \ upto) = n - (h + 1) /\ IsFiniteSet(D \ upto)
        <3> HIDE DEF D
        <3>1. D \cap upto = upto
            BY <2>2
        <3>2. IsFiniteSet(D \ upto) /\ Cardinality(D \ upto) = Cardinality(D) - Cardinality(D \cap upto)
            BY <1>5, FS_Difference
        <3>3. QED
            BY <1>5, <2>2, <3>1, <3>2
    <2> DEFINE rest == D \ upto
    <2>4. IsFiniteSet(rest) /\ above \in SUBSET rest /\ Cardinality(rest) = n - (h + 1)
        BY <2>1, <2>2, <2>3
    <2> HIDE DEF D, rest
    <2>5. Cardinality(above) <= Cardinality(rest) /\ IsFiniteSet(above)
        BY <2>4, FS_Subset
    <2>6. Cardinality(above) \in Nat
        BY <2>5, FS_CardinalityType
    <2>7. n \in Nat /\ h \in Nat
        BY <1>1, <1>2
    <2> HIDE DEF n, h
    <2>8. QED
        BY <2>4, <2>5, <2>6, <2>7
<1> HIDE DEF below, above
<1>13. 2 * Cardinality(below) <= n /\ 2 * Cardinality(above) <= n
    BY <1>1, <1>2, <1>11, <1>12
<1>14. QED
    BY <1>1, <1>8, <1>9, <1>13 DEF Halves, below, above, n

\* One command of rustmatch-bench that measures.
MeasureSpec == MeasureInit /\ [][MeasureStep]_measureVars

ScanRecord == [delivery : Deliveries, report : Reports, ns : Durations]
Stages == { "build", "first", "loop", "measured", "failed", "ineligible", "inconsistent" }

MeasureTypes ==
    /\ measuring \in Commands /\ measured \in Stages
    /\ scans \in Seq(ScanRecord)
    /\ warmup_ns \in Seq(Durations) /\ scan_ns \in Seq(Durations)

\* Nothing is delivered before the first scan.
NothingScanned ==
    measured \in { "build", "first", "ineligible" } =>
        scans = <<>> /\ warmup_ns = <<>> /\ scan_ns = <<>>

\* What a delivery agrees with, whichever way a command compares.
AgreesWith(command, e, delivery) ==
    CASE command.judged = "count" -> Len(delivery) = Len(e)
      [] command.judged = "summary" -> EventSummary(delivery) = EventSummary(e)
      [] command.judged = "events" -> Sorted(delivery) = Sorted(e)

\* From the first scan on, each one that was timed is a warm-up or a sample,
\* no sample comes before the last warm-up, and every scan agrees.
ScansAgree ==
    \A i \in DOMAIN scans :
        /\ AgreesWith(measuring, evidence, scans[i].delivery)
        /\ measuring.experimental => scans[i].report = scans[1].report

InStep ==
    /\ Len(scans) > 0 /\ evidence \in Seq(Event)
    /\ Times = warmup_ns \o scan_ns
    /\ Len(warmup_ns) <= measuring.warmups /\ Len(scan_ns) <= measuring.repeats
    /\ Len(scan_ns) > 0 => Len(warmup_ns) = measuring.warmups
    /\ ScansAgree

Received ==
    /\ Len(warmup_ns) = measuring.warmups /\ Len(scan_ns) = measuring.repeats
    /\ Halves(scan_ns, median_scan_ns)
    /\ measuring.positive => median_scan_ns > 0

MeasureInv ==
    /\ MeasureTypes /\ NothingScanned /\ RefusalsAreDeserved
    /\ measured \in { "loop", "measured" } => InStep
    /\ measured = "measured" => Received

LEMMA MeasureInitially == MeasureInit => MeasureInv
<1> SUFFICES ASSUME MeasureInit PROVE MeasureInv
    OBVIOUS
<1>1. /\ measuring \in Commands /\ measured = "build" /\ scans = <<>>
      /\ warmup_ns = <<>> /\ scan_ns = <<>>
    BY DEF MeasureInit
<1>2. MeasureTypes
    BY <1>1 DEF MeasureTypes, Stages
<1>3. QED
    BY <1>1, <1>2 DEF MeasureInv, NothingScanned, RefusalsAreDeserved

LEMMA CommandFacts ==
    ASSUME MeasureTypes
    PROVE  /\ measuring.warmups \in Nat /\ measuring.repeats \in Nat \ {0}
           /\ measuring.timed \in BOOLEAN /\ measuring.fixture \in BOOLEAN
           /\ measuring.judged \in { "count", "summary", "events" }
           /\ Len(warmup_ns) \in Nat /\ Len(scan_ns) \in Nat /\ Len(scans) \in Nat
<1>1. measuring \in Command
    BY MeasurementAssumption DEF MeasureTypes
<1>2. Len(warmup_ns) \in Nat /\ Len(scan_ns) \in Nat /\ Len(scans) \in Nat
    BY LenProperties DEF MeasureTypes
<1>3. QED
    BY <1>1, <1>2 DEF Command

\* A command that ends without a receipt keeps everything it had.
LEMMA EndKeeps ==
    ASSUME MeasureInv, NEW how \in { "first", "failed", "ineligible" }, End(how),
           how # "failed" => measured \in { "build", "first" }
    PROVE  MeasureInv'
<1>1. /\ measured' = how /\ measuring' = measuring /\ scans' = scans /\ evidence' = evidence
      /\ warmup_ns' = warmup_ns /\ scan_ns' = scan_ns /\ median_scan_ns' = median_scan_ns
    BY DEF End
<1>2. MeasureTypes'
    BY <1>1 DEF MeasureInv, MeasureTypes, Stages
<1>3. NothingScanned'
    BY <1>1 DEF MeasureInv, NothingScanned
<1>4. RefusalsAreDeserved'
    BY <1>1, <1>3 DEF NothingScanned, RefusalsAreDeserved
<1>5. QED
    BY <1>1, <1>2, <1>3, <1>4 DEF MeasureInv

\* The times of the scans with one more.
LEMMA TimesGrow ==
    ASSUME MeasureTypes, NEW r \in ScanRecord, scans' = Append(scans, r), measuring' = measuring,
           measuring.timed \/ Len(scans) > 0
    PROVE  Times' = Append(Times, r.ns)
<1> DEFINE old == TimedScans
           new == TimedScans'
<1>1. old \in Seq(ScanRecord) /\ new = Append(old, r)
    <2>1. CASE measuring.timed
        BY <2>1 DEF TimedScans, MeasureTypes
    <2>2. CASE ~ measuring.timed
        <3>1. old = Tail(scans) /\ new = Tail(Append(scans, r)) /\ scans # <<>>
            BY <2>2 DEF TimedScans
        <3>2. Tail(scans) \in Seq(ScanRecord) /\ scans \in Seq(ScanRecord)
            BY <3>1, HeadTailProperties DEF MeasureTypes
        <3>3. Tail(Append(scans, r)) = Append(Tail(scans), r)
            BY <3>1, <3>2
        <3>4. QED
            BY <3>1, <3>2, <3>3
    <2>3. QED
        BY <2>1, <2>2
<1>2. Times = [i \in DOMAIN old |-> old[i].ns] /\ Times' = [i \in DOMAIN new |-> new[i].ns]
    BY DEF Times
<1> HIDE DEF old, new
<1>3. QED
    BY <1>1, <1>2

LEMMA DeliveriesAreSequences ==
    Expected \in Seq(Event) /\ \A d \in Deliveries : d \in Seq(Event)
BY MeasurementAssumption

\* What is the evidence once sorted agrees with it, however a command compares.
LEMMA SameAgrees ==
    ASSUME NEW d \in Seq(Event), NEW e \in Seq(Event), Sorted(d) = Sorted(e), MeasureTypes
    PROVE  AgreesWith(measuring, e, d)
<1>1. Len(d) = Len(e) /\ EventSummary(d) = EventSummary(e)
    BY SortedAlike
<1>2. measuring.judged \in { "count", "summary", "events" }
    BY CommandFacts
<1>3. QED
    BY <1>1, <1>2 DEF AgreesWith

LEMMA AppendedToSecond ==
    ASSUME NEW S, NEW u \in Seq(S), NEW v \in Seq(S), NEW x \in S
    PROVE  u \o Append(v, x) = Append(u \o v, x)
<1> DEFINE a == u \o Append(v, x)
           b == Append(u \o v, x)
<1>1. u \o v \in Seq(S) /\ Append(v, x) \in Seq(S) /\ Len(u) \in Nat /\ Len(v) \in Nat
      /\ Len(u \o v) = Len(u) + Len(v) /\ Len(Append(v, x)) = Len(v) + 1
    BY ConcatProperties, AppendProperties, LenProperties
<1>2. /\ a \in Seq(S) /\ b \in Seq(S)
      /\ Len(a) = Len(u) + Len(v) + 1 /\ Len(b) = Len(u) + Len(v) + 1
    BY <1>1
<1>3. ASSUME NEW i \in 1..Len(a) PROVE a[i] = b[i]
    BY <1>1, <1>2
<1> HIDE DEF a, b
<1>4. QED
    BY <1>2, <1>3, SeqEqual

LEMMA FirstScanKeeps == MeasureInv /\ FirstScan => MeasureInv'
<1> SUFFICES ASSUME MeasureInv, FirstScan PROVE MeasureInv'
    OBVIOUS
<1>1. PICK d \in Deliveries, r \in Reports, ns \in Durations :
        /\ Scan(d, r, ns)
        /\ IF measuring.timed THEN FirstSample(ns) ELSE UNCHANGED << warmup_ns, scan_ns >>
        /\ evidence' = IF measuring.fixture THEN Expected ELSE d
        /\ measured' = IF measuring.fixture /\ Sorted(d) # Sorted(Expected) THEN "inconsistent" ELSE "loop"
    BY DEF FirstScan
<1> DEFINE rec == [delivery |-> d, report |-> r, ns |-> ns]
<1>2. /\ MeasureTypes /\ measured = "first"
      /\ scans = <<>> /\ warmup_ns = <<>> /\ scan_ns = <<>>
    BY DEF MeasureInv, FirstScan, NothingScanned
<1>3. scans' = Append(<<>>, rec) /\ measuring' = measuring /\ rec \in ScanRecord
    BY <1>1, <1>2 DEF Scan, ScanRecord
<1>4. /\ Len(scans') = 1 /\ DOMAIN scans' = {1} /\ scans'[1] = rec
      /\ scans' \in Seq(ScanRecord)
    BY <1>3
<1>5. /\ d \in Seq(Event) /\ evidence' \in Seq(Event)
      /\ measured' \in { "loop", "inconsistent" }
    BY <1>1, DeliveriesAreSequences
<1>6. /\ warmup_ns' \in Seq(Durations) /\ scan_ns' \in Seq(Durations)
      /\ warmup_ns' \o scan_ns' = IF measuring.timed THEN << ns >> ELSE <<>>
      /\ Len(warmup_ns') <= measuring.warmups /\ Len(scan_ns') <= measuring.repeats
      /\ Len(scan_ns') > 0 => Len(warmup_ns') = measuring.warmups
    <2>1. measuring.warmups \in Nat /\ measuring.repeats \in Nat \ {0}
        BY <1>2, CommandFacts
    <2>2. CASE ~ measuring.timed
        BY <1>1, <1>2, <2>1, <2>2
    <2>3. CASE measuring.timed /\ measuring.warmups = 0
        <3>1. warmup_ns' = <<>> /\ scan_ns' = << ns >>
            BY <1>1, <1>2, <2>3 DEF FirstSample
        <3>2. QED
            BY <1>1, <2>1, <2>3, <3>1
    <2>4. CASE measuring.timed /\ measuring.warmups # 0
        <3>1. warmup_ns' = << ns >> /\ scan_ns' = <<>>
            BY <1>1, <1>2, <2>4 DEF FirstSample
        <3>2. QED
            BY <1>1, <2>1, <2>4, <3>1
    <2>5. QED
        BY <2>2, <2>3, <2>4
<1>7. Times' = IF measuring.timed THEN << ns >> ELSE <<>>
    <2>1. TimedScans' = IF measuring.timed THEN << rec >> ELSE <<>>
        BY <1>3 DEF TimedScans
    <2> DEFINE new == TimedScans'
    <2>2. Times' = [i \in DOMAIN new |-> new[i].ns]
        BY DEF Times
    <2> HIDE DEF new
    <2>3. new = IF measuring.timed THEN << rec >> ELSE <<>>
        BY <2>1 DEF new
    <2>4. CASE measuring.timed
        BY <2>2, <2>3, <2>4
    <2>5. CASE ~ measuring.timed
        BY <2>2, <2>3, <2>5
    <2>6. QED
        BY <2>4, <2>5
<1> HIDE DEF rec
<1>8. scans'[1].delivery = d
    BY <1>4 DEF rec
<1>9. MeasureTypes'
    BY <1>1, <1>2, <1>3, <1>4, <1>5, <1>6 DEF MeasureTypes, Stages
<1>10. NothingScanned'
    BY <1>5 DEF NothingScanned
<1>11. RefusalsAreDeserved'
    <2>1. ASSUME measured' = "inconsistent" PROVE Sorted(scans'[Len(scans')].delivery) # Sorted(evidence')
        BY <1>1, <1>4, <1>8, <2>1
    <2>2. QED
        BY <1>5, <2>1 DEF RefusalsAreDeserved, Sorted
<1>12. ASSUME measured' = "loop" PROVE InStep'
    <2>1. Sorted(d) = Sorted(evidence')
        BY <1>1, <1>12
    <2>3. AgreesWith(measuring', evidence', d)
        BY <1>2, <1>3, <1>5, <2>1, SameAgrees
    <2>4. ScansAgree'
        BY <1>4, <1>8, <2>3 DEF ScansAgree
    <2>5. QED
        BY <1>3, <1>4, <1>5, <1>6, <1>7, <2>4 DEF InStep
<1>13. QED
    BY <1>5, <1>9, <1>10, <1>11, <1>12 DEF MeasureInv

\* A later scan is added to the warm-ups or to the samples, whatever comes of it.
LEMMA LaterScanKeeps ==
    ASSUME MeasureInv, measured = "loop", NEW d \in Deliveries, NEW r \in Reports, NEW ns \in Durations,
           Scan(d, r, ns), Judged(d, r), evidence' = evidence,
           \/ warmup_ns' = Append(warmup_ns, ns) /\ scan_ns' = scan_ns /\ Warming
           \/ warmup_ns' = warmup_ns /\ scan_ns' = Append(scan_ns, ns) /\ Sampling
    PROVE  MeasureInv'
<1> DEFINE rec == [delivery |-> d, report |-> r, ns |-> ns]
           n == Len(scans)
<1>1. MeasureTypes /\ InStep
    BY DEF MeasureInv
<1>2. /\ n \in Nat \ {0} /\ measuring.warmups \in Nat /\ measuring.repeats \in Nat \ {0}
      /\ Len(warmup_ns) \in Nat /\ Len(scan_ns) \in Nat
    BY <1>1, CommandFacts DEF InStep
<1>3. /\ scans' = Append(scans, rec) /\ measuring' = measuring /\ rec \in ScanRecord
      /\ scans \in Seq(ScanRecord) /\ warmup_ns \in Seq(Durations) /\ scan_ns \in Seq(Durations)
    BY <1>1 DEF Scan, ScanRecord, MeasureTypes
<1>4. measured' = IF SameReport(r) /\ Agrees(d) THEN "loop" ELSE "inconsistent"
    BY DEF Judged
<1>5. /\ Len(scans') = n + 1 /\ DOMAIN scans' = 1..(n + 1) /\ scans'[n + 1] = rec
      /\ scans' \in Seq(ScanRecord) /\ DOMAIN scans = 1..n
      /\ \A i \in 1..n : scans'[i] = scans[i]
    BY <1>2, <1>3
<1>6. scans'[n + 1].delivery = d /\ scans'[n + 1].report = r /\ rec.ns = ns
    BY <1>5
<1>7. Times' = Append(Times, ns)
    <2> HIDE DEF rec, n
    <2>1. Times' = Append(Times, rec.ns)
        BY <1>1, <1>2, <1>3, TimesGrow DEF n
    <2>2. QED
        BY <1>6, <2>1
<1>8. Times' = warmup_ns' \o scan_ns'
    <2>1. Times = warmup_ns \o scan_ns
        BY <1>1 DEF InStep
    <2>2. CASE warmup_ns' = warmup_ns /\ scan_ns' = Append(scan_ns, ns)
        <3>1. warmup_ns \o Append(scan_ns, ns) = Append(warmup_ns \o scan_ns, ns)
            BY <1>3, AppendedToSecond
        <3>2. QED
            BY <1>7, <2>1, <2>2, <3>1
    <2>3. CASE warmup_ns' = Append(warmup_ns, ns) /\ scan_ns' = scan_ns /\ Warming
        <3>1. scan_ns = <<>>
            BY <1>1, <1>2, <1>3, <2>3 DEF Warming, InStep
        <3>2. QED
            BY <1>3, <1>7, <2>1, <2>3, <3>1
    <2>4. QED
        BY <2>2, <2>3
<1>9. /\ warmup_ns' \in Seq(Durations) /\ scan_ns' \in Seq(Durations)
      /\ Len(warmup_ns') <= measuring.warmups /\ Len(scan_ns') <= measuring.repeats
      /\ Len(scan_ns') > 0 => Len(warmup_ns') = measuring.warmups
    <2>1. /\ Len(warmup_ns) <= measuring.warmups /\ Len(scan_ns) <= measuring.repeats
          /\ Len(scan_ns) > 0 => Len(warmup_ns) = measuring.warmups
        BY <1>1 DEF InStep
    <2>2. CASE warmup_ns' = warmup_ns /\ scan_ns' = Append(scan_ns, ns) /\ Sampling
        <3>1. Len(scan_ns') = Len(scan_ns) + 1 /\ scan_ns' \in Seq(Durations)
            BY <1>3, <2>2
        <3>2. Len(warmup_ns) = measuring.warmups /\ Len(scan_ns) < measuring.repeats
            BY <2>2 DEF Sampling
        <3>3. QED
            BY <1>2, <1>3, <2>1, <2>2, <3>1, <3>2
    <2>3. CASE warmup_ns' = Append(warmup_ns, ns) /\ scan_ns' = scan_ns /\ Warming
        <3>1. Len(warmup_ns') = Len(warmup_ns) + 1 /\ warmup_ns' \in Seq(Durations)
            BY <1>3, <2>3
        <3>2. Len(warmup_ns) < measuring.warmups
            BY <2>3 DEF Warming
        <3>3. QED
            BY <1>2, <1>3, <2>1, <2>3, <3>1, <3>2
    <2>4. QED
        BY <2>2, <2>3
<1> HIDE DEF rec, n
<1>10. MeasureTypes'
    BY <1>1, <1>3, <1>4, <1>5, <1>9 DEF MeasureTypes, Stages
<1>11. NothingScanned'
    BY <1>4 DEF NothingScanned
<1>12. scans'[1] = scans[1]
    BY <1>2, <1>5
<1>13. Agrees(d) <=> AgreesWith(measuring, evidence, d)
    BY DEF Agrees, AgreesWith
<1>14. RefusalsAreDeserved'
    <2>1. ASSUME measured' = "inconsistent", Sorted(d) = Sorted(evidence)
          PROVE  r # scans[1].report
        <3>1. AgreesWith(measuring, evidence, d)
            BY <1>1, <2>1, DeliveriesAreSequences, SameAgrees DEF InStep
        <3>2. QED
            BY <1>4, <1>13, <2>1, <3>1 DEF SameReport
    <2>2. measured' \in { "loop", "inconsistent" }
        BY <1>4
    <2>3. measured' # "ineligible"
        BY <2>2
    <2>4. \/ measured' # "inconsistent"
          \/ Sorted(scans'[Len(scans')].delivery) # Sorted(evidence')
          \/ scans'[Len(scans')].report # scans'[1].report
        BY <1>5, <1>6, <1>12, <2>1
    <2>5. QED
        BY <2>3, <2>4, Zenon DEF RefusalsAreDeserved, Sorted
<1>15. ASSUME measured' = "loop" PROVE InStep'
    <2>1. AgreesWith(measuring, evidence, d) /\ (measuring.experimental => r = scans[1].report)
        BY <1>4, <1>13, <1>15 DEF SameReport
    <2> DEFINE FitsIn(i) == /\ AgreesWith(measuring, evidence, scans'[i].delivery)
                            /\ measuring.experimental => scans'[i].report = scans[1].report
    <2>2. ASSUME NEW i \in 1..n PROVE FitsIn(i)
        <3>1. /\ AgreesWith(measuring, evidence, scans[i].delivery)
              /\ measuring.experimental => scans[i].report = scans[1].report
            BY <1>1, <1>5, <2>2 DEF InStep, ScansAgree
        <3>2. scans'[i] = scans[i]
            BY <1>5, <2>2
        <3>3. QED
            BY <3>1, <3>2
    <2>3. FitsIn(n + 1)
        BY <1>6, <2>1
    <2> HIDE DEF FitsIn
    <2>4. \A i \in DOMAIN scans' : FitsIn(i)
        <3>1. \A i \in 1..(n + 1) : i \in 1..n \/ i = n + 1
            BY <1>2
        <3>2. QED
            BY <1>5, <2>2, <2>3, <3>1
    <2>5. ScansAgree'
        <3>1. measuring' = measuring /\ evidence' = evidence
            BY <1>3
        <3>2. ASSUME NEW i \in DOMAIN scans'
              PROVE  /\ AgreesWith(measuring', evidence', scans'[i].delivery)
                     /\ measuring'.experimental => scans'[i].report = scans'[1].report
            <4>1. /\ AgreesWith(measuring, evidence, scans'[i].delivery)
                  /\ measuring.experimental => scans'[i].report = scans[1].report
                BY <2>4, <3>2, Zenon DEF FitsIn
            <4>2. QED
                BY <1>12, <3>1, <4>1
        <3>3. QED
            BY <3>2, Zenon DEF ScansAgree
    <2>6. QED
        BY <1>1, <1>2, <1>3, <1>5, <1>8, <1>9, <2>5 DEF InStep
<1>16. QED
    BY <1>4, <1>10, <1>11, <1>14, <1>15 DEF MeasureInv

LEMMA IssueKeeps == MeasureInv /\ Issue => MeasureInv'
<1> SUFFICES ASSUME MeasureInv, Issue PROVE MeasureInv'
    OBVIOUS
<1>1. /\ measured = "loop" /\ ~ Warming /\ ~ Sampling /\ median_scan_ns' = Median(scan_ns)
      /\ measured' = IF measuring.positive /\ Median(scan_ns) = 0 THEN "failed" ELSE "measured"
      /\ UNCHANGED << measuring, scans, evidence, warmup_ns, scan_ns >>
    BY DEF Issue
<1>2. /\ MeasureTypes /\ InStep
      /\ measuring.warmups \in Nat /\ measuring.repeats \in Nat \ {0}
      /\ Len(warmup_ns) \in Nat /\ Len(scan_ns) \in Nat
    BY <1>1, CommandFacts DEF MeasureInv
<1>3. Len(warmup_ns) = measuring.warmups /\ Len(scan_ns) = measuring.repeats
    BY <1>1, <1>2 DEF Warming, Sampling, InStep
<1>4. Halves(scan_ns, median_scan_ns')
    <2>1. scan_ns \in Seq(Nat)
        <3>1. scan_ns \in Seq(Durations) /\ Durations \subseteq Nat
            BY <1>2, MeasurementAssumption DEF MeasureTypes
        <3>2. /\ scan_ns = [i \in 1..Len(scan_ns) |-> scan_ns[i]] /\ Len(scan_ns) \in Nat
              /\ \A i \in 1..Len(scan_ns) : scan_ns[i] \in Nat
            BY <3>1, LenProperties
        <3>3. QED
            BY <3>2
    <2>2. QED
        BY <1>1, <1>2, <1>3, <2>1, MedianSplits
<1>5. median_scan_ns' \in Nat
    <2>1. PICK i \in DOMAIN scan_ns : scan_ns[i] = median_scan_ns'
        BY <1>4 DEF Halves
    <2>2. scan_ns[i] \in Durations
        BY <1>2, <2>1 DEF MeasureTypes
    <2>3. QED
        BY <2>1, <2>2, MeasurementAssumption
<1>6. MeasureTypes'
    BY <1>1, <1>2 DEF MeasureTypes, Stages
<1>7. NothingScanned' /\ RefusalsAreDeserved'
    BY <1>1 DEF NothingScanned, RefusalsAreDeserved
<1>8. InStep'
    BY <1>1, <1>2 DEF InStep, ScansAgree, Times, TimedScans
<1>9. measured' = "measured" => Received'
    BY <1>1, <1>3, <1>4, <1>5 DEF Received
<1>10. QED
    BY <1>6, <1>7, <1>8, <1>9 DEF MeasureInv

LEMMA MeasureInvHolds == MeasureSpec => []MeasureInv
<1>1. MeasureInit => MeasureInv
    BY MeasureInitially
<1>2. MeasureInv /\ [MeasureStep]_measureVars => MeasureInv'
    <2> SUFFICES ASSUME MeasureInv, [MeasureStep]_measureVars PROVE MeasureInv'
        OBVIOUS
    <2>1. CASE Build
        BY <2>1, EndKeeps DEF Build
    <2>2. CASE SpecializationUnavailable
        BY <2>2, EndKeeps DEF SpecializationUnavailable
    <2>3. CASE ScanFails
        BY <2>3, EndKeeps DEF ScanFails
    <2>4. CASE FirstScan
        BY <2>4, FirstScanKeeps
    <2>5. CASE WarmUp
        BY <2>5, LaterScanKeeps DEF WarmUp, Warming
    <2>6. CASE Measure
        BY <2>6, LaterScanKeeps DEF Measure, Sampling
    <2>7. CASE Issue
        BY <2>7, IssueKeeps
    <2>8. CASE UNCHANGED measureVars
        BY <2>8 DEF measureVars, MeasureInv, MeasureTypes, NothingScanned, RefusalsAreDeserved, InStep,
                    ScansAgree, Times, TimedScans, Received
    <2>9. QED
        BY <2>1, <2>2, <2>3, <2>4, <2>5, <2>6, <2>7, <2>8 DEF MeasureStep
<1>3. QED
    BY <1>1, <1>2, PTL DEF MeasureSpec

(***************************************************************************)
(* A receipt of any measuring command vouches for scans that were made: its *)
(* times are theirs in order, each counted once and no warm-up as a sample; *)
(* its median splits the samples in halves; every scan reported alike and   *)
(* delivered what is counted, whichever way the command compares.  And a    *)
(* command that calls its scans inconsistent saw them differ in more than   *)
(* the order of their events: for all commands, deliveries, times, hashes   *)
(* and widths.                                                              *)
(***************************************************************************)
THEOREM MeasurementHonest == MeasureSpec => []MeasurementIsHonest
<1>1. MeasureInv => MeasurementIsHonest
    <2> SUFFICES ASSUME MeasureInv PROVE MeasurementIsHonest
        OBVIOUS
    <2>1. ASSUME measured = "measured" PROVE InStep /\ Received
        BY <2>1 DEF MeasureInv
    <2>2. ASSUME measured = "measured", NEW i \in DOMAIN scans
          PROVE  /\ Agrees(scans[i].delivery)
                 /\ measuring.experimental => scans[i].report = scans[1].report
        BY <2>1, <2>2 DEF InStep, ScansAgree, AgreesWith, Agrees
    <2>3. MeasuredIsVouchedFor
        BY <2>1, <2>2, Zenon DEF MeasuredIsVouchedFor, InStep, Received, Halves
    <2>4. QED
        BY <2>3 DEF MeasureInv, MeasurementIsHonest
<1>2. QED
    BY <1>1, MeasureInvHolds, PTL
=================================================================================
