---------------------------- MODULE MCPartitioning ----------------------------
(* Every pattern set up to a size, with every interleaving of the two cohorts. *)
EXTENDS Partitioning

PatternBound == 6
WorkerBound == 7
BudgetBound == 9

MCConfigurations ==
    [patterns : UNION { [1..n -> BOOLEAN] : n \in 0..PatternBound },
     worker_count : 0..WorkerBound,
     state_cache_budget : {0, 1, 3, 4, BudgetBound},
     cohort_compilation_enabled : BOOLEAN]
=============================================================================
