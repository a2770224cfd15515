--------------------------- MODULE MCParallelScan ---------------------------
(* Matchers small enough for every interleaving of their workers. *)
EXTENDS ParallelScan

Layout(n, split, workers, counts) ==
    [partitions |-> n, split |-> split, worker_count |-> workers,
     events |-> [p \in 0..(n - 1) |-> counts[p + 1]]]

\* Two to four partitions, in one cohort or two, an empty one among them; and a mixed
\* matcher of one worker.
MCLayouts == {
    Layout(2, 0, 2, <<2, 1>>),
    Layout(3, 0, 5, <<1, 0, 2>>),
    Layout(4, 0, 4, <<0, 1, 1, 0>>),
    Layout(3, 1, 3, <<1, 2, 0>>),
    Layout(4, 3, 4, <<1, 0, 1, 1>>),
    Layout(2, 1, 2, <<0, 2>>),
    Layout(2, 1, 1, <<2, 1>>) }
=============================================================================
