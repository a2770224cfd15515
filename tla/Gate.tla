---------------------------------- MODULE Gate ----------------------------------
(***************************************************************************)
(* The repository's gates (xtask/src/main.rs): `cargo xtask ci' runs the    *)
(* quality steps, checks the generated ledger and then gathers the          *)
(* evidence; `cargo xtask evidence' gathers the evidence alone.  The Java   *)
(* oracle runs twice on every fixture set, its outputs in temporary files;  *)
(* what the programs it starts come to is free.                             *)
(***************************************************************************)
EXTENDS Integers, Sequences, FiniteSets, SequencesExt

CONSTANTS
    QualitySteps,   \* their labels in order, "tests" among them
    FixtureSets,    \* the inputs of the Java oracle in order, the case folding last
    Adapters,       \* the evidence commands in order
    Homes,          \* what the three places may name: versions of Java, or << >>
    OracleTexts     \* what the oracle may write; 0 is what the repository retains

ASSUME GateAssumption ==
    /\ 0 \in OracleTexts
    /\ QualitySteps \in Seq(STRING) /\ "tests" \in Range(QualitySteps)
    /\ FixtureSets \in Seq(STRING) /\ IsInjective(FixtureSets)
    /\ Adapters \in Seq(STRING)
    /\ Homes \subseteq Seq(Nat)

VARIABLES
    invoked,        \* the gate's command
    truth,          \* the evidence commands whose claim is true of the library
    homes, java,    \* the homes on offer and the one that was chosen
    done,           \* the steps completed
    stage,          \* within an oracle step: "first", "second", then "compare"
    temporary,      \* the temporary files, by set, run and part
    written,        \* every temporary file there ever was, with its text
    gate            \* "run", "pass" or "fail"

gateVars == << invoked, truth, homes, java, done, stage, temporary, written, gate >>

-----------------------------------------------------------------------------
Labels(kind, names) == [i \in DOMAIN names |-> [kind |-> kind, name |-> names[i]]]

Gathering ==
    << [kind |-> "oracle", name |-> "java"], [kind |-> "oracle", name |-> "compile"] >>
        \o Labels("fixtures", FixtureSets) \o Labels("adapter", Adapters)
        \o << [kind |-> "smoke", name |-> "literal-smoke"] >>

Plan == IF invoked = "ci"
        THEN Labels("quality", QualitySteps) \o << [kind |-> "ledger", name |-> "verify"] >> \o Gathering
        ELSE Gathering
Step == Plan[Len(done) + 1]

\* execute() turns what a differential command came to into text, an error like a summary,
\* and main() prints it and exits with success; only the parity campaign's error is one.
ExitsWithSuccess(adapter) == adapter = "verify-cohort-parity" => adapter \in truth

Claims == Range(Adapters)

GateInit ==
    /\ invoked \in { "ci", "evidence" }
    /\ truth \in { Claims } \cup { Claims \ { a } : a \in Claims }
    /\ homes \in [1..3 -> Homes]
    /\ java = << >> /\ done = << >> /\ stage = "first"
    /\ temporary = << >> /\ written = {} /\ gate = "run"

Running(kind) == gate = "run" /\ Step.kind = kind

Complete ==
    /\ done' = Append(done, Step) /\ stage' = "first"
    /\ gate' = IF Len(done) + 1 = Len(Plan) THEN "pass" ELSE "run"
    /\ UNCHANGED << invoked, truth, homes >>

Abort ==
    /\ gate' = "fail"
    /\ UNCHANGED << invoked, truth, homes, java, done, stage, temporary, written >>

\* Whether a step's program may succeed: the tests hold every claim, an adapter its own.
MaySucceed ==
    CASE Step.kind = "quality" /\ Step.name = "tests" -> truth = Claims
      [] Step.kind = "adapter" -> ExitsWithSuccess(Step.name)
      [] OTHER -> TRUE

\* Any program may fail to start or fail for reasons of its own.
RunProgram ==
    /\ \E kind \in { "quality", "ledger", "adapter", "smoke" } : Running(kind)
    /\ \/ MaySucceed /\ Complete /\ UNCHANGED << java, temporary, written >>
       \/ Abort

-----------------------------------------------------------------------------
HasFeature21(version) == version # << >> /\ version[1] = 21

\* JAVA_HOME, then JAVA_HOME_21_X64, then what macOS names.
FindJava ==
    /\ Running("oracle") /\ Step.name = "java"
    /\ LET fit == SelectInSeq(homes, HasFeature21) IN
       IF fit = 0 THEN Abort
       ELSE java' = homes[fit] /\ Complete /\ UNCHANGED << temporary, written >>

CompileOracle ==
    /\ Running("oracle") /\ Step.name = "compile"
    /\ \/ Complete /\ UNCHANGED << java, temporary, written >>
       \/ Abort

File(run, part) == [set |-> Step.name, run |-> run, part |-> part]

\* One run writes the results and the manifest, or fails, perhaps between the two.
RunOracleOnce ==
    /\ Running("fixtures") /\ stage \in { "first", "second" }
    /\ \E parts \in SUBSET { "results", "manifest" } :
       \E text \in [parts -> OracleTexts], succeeds \in BOOLEAN :
         LET files == { File(stage, part) : part \in parts } IN
         /\ temporary' = [f \in DOMAIN temporary \cup files |->
                             IF f \in files THEN text[f.part] ELSE temporary[f]]
         /\ written' = written \cup { [file |-> f, text |-> text[f.part]] : f \in files }
         /\ IF succeeds
            THEN stage' = (IF stage = "first" THEN "second" ELSE "compare") /\ gate' = gate
            ELSE gate' = "fail" /\ stage' = stage
    /\ UNCHANGED << invoked, truth, homes, java, done >>

SameText(f, g) == { f, g } \subseteq DOMAIN temporary /\ temporary[f] = temporary[g]
Committed(f) == f \in DOMAIN temporary /\ temporary[f] = 0

\* The runs are compared with each other, then the first with what is retained.
Compares(part) ==
    SameText(File("first", part), File("second", part)) /\ Committed(File("first", part))

\* Mutant of Reproduced: the manifests of the two runs are not compared.
ReproducedResults ==
    Compares("results") /\ Committed(File("first", "manifest"))

Reproduced == Compares("results") /\ Compares("manifest")

\* The temporary files stay for inspection unless all of them agree; then each goes, if it
\* can be removed.
CompareOutputs ==
    /\ Running("fixtures") /\ stage = "compare"
    /\ IF Reproduced
       THEN /\ Complete
            /\ \E gone \in SUBSET { f \in DOMAIN temporary : f.set = Step.name } :
                  temporary' = [f \in DOMAIN temporary \ gone |-> temporary[f]]
            /\ UNCHANGED << java, written >>
       ELSE Abort

GateStep == RunProgram \/ FindJava \/ CompileOracle \/ RunOracleOnce \/ CompareOutputs

-----------------------------------------------------------------------------
\* The runs of a set, each of both parts.
OutputsOf(name) == [set : { name }, run : { "first", "second" }, part : { "results", "manifest" }]
TextsOf(f) == { w.text : w \in { x \in written : x.file = f } }

(***************************************************************************)
(* A gate that passes chose a Java 21 and saw both runs of every fixture    *)
(* set write what the repository retains; the whole of `ci' passes only     *)
(* where every claim is true.  A gate that fails leaves all that the step   *)
(* that failed has written, and there was nothing to look at in what any    *)
(* other step wrote, removed or not.                                        *)
(***************************************************************************)
GateIsHonest ==
    /\ gate = "pass" =>
        /\ HasFeature21(java)
        /\ \A i \in DOMAIN FixtureSets : \A f \in OutputsOf(FixtureSets[i]) : TextsOf(f) = { 0 }
        /\ \A a \in Claims : (invoked = "ci" \/ a = "verify-cohort-parity") => a \in truth
    /\ \A w \in written :
          IF gate # "pass" /\ Step = [kind |-> "fixtures", name |-> w.file.set]
          THEN w.file \in DOMAIN temporary /\ temporary[w.file] = w.text
          ELSE w.text = 0

\* What the adapters' error messages and the compatibility README say: passing means
\* that the differential evidence was gathered and agrees with Java.
GatePassMeansEvidenceHolds == gate = "pass" => truth = Claims

GateSpec == GateInit /\ [][GateStep]_gateVars
=============================================================================
