------------------------------- MODULE ScanJob -------------------------------
(***************************************************************************)
(* One call of an engine, as scan_with_stats and the cohort views set it up *)
(* (rustmatch/src/engine.rs): the database and the root scanned, the input, *)
(* the candidate starts the prefilter plan hands over, and whether the      *)
(* assertion-aware closure was chosen.                                      *)
(***************************************************************************)
EXTENDS PatternDatabase

CONSTANT Jobs

\* The edges a scan follows on some input when no state it reaches asks for an assertion.
PlainEdges(db) == db.epsilon \cup { <<e[1], e[3]>> : e \in db.consuming }

\* uses_assertions is FALSE only if no pattern under the root has an assertion (compile
\* and compile_shared_cohorts, nfa.rs).
NoneAsserted(db, root) ==
    \A e \in db.assertion :
        e[1] \notin ExtendClosure(db.state, PlainEdges(db), { root }, {})

JobShape(j) ==
    /\ j.db \in Database(j.db.state)
    /\ IsFiniteSet(j.db.state)
    /\ j.root \in j.db.state
    /\ j.input \in Seq(Symbol)
    /\ j.starts \subseteq 0..(Len(j.input) - 1)
    /\ j.uses_assertions \in BOOLEAN
    /\ j.uses_assertions \/ NoneAsserted(j.db, j.root)

ASSUME JobsAssumption == \A j \in Jobs : JobShape(j)
=============================================================================
