----------------------------- MODULE ParallelScan -----------------------------
(***************************************************************************)
(* One scan of a matcher with several partitions: the caller and its scoped *)
(* worker threads (Matcher::scan_parallel_with_hooks in rustmatch/src/      *)
(* api.rs and the cohort schedulers in rustmatch/src/api/                   *)
(* cohort_runtime.rs, which share its shape).                               *)
(*                                                                          *)
(* The caller plans, spawns a worker for every partition of a group but the *)
(* first, scans the first itself, joins the workers in order, and delivers  *)
(* the buffered matches once the last group's scope has ended.  One group   *)
(* holds every partition, except for a mixed matcher of one worker, which   *)
(* runs its cohorts one after the other.  Partitions are numbered from 0.   *)
(***************************************************************************)
EXTENDS Integers, Sequences, FiniteSets, SequencesExt

CONSTANT Layouts   \* matchers: partitions, split (0 if none), worker_count, events

\* What build() guarantees of a matcher with several partitions (Partitioning's
\* PartitionCount); events[p] counts the matches in partition p.
ASSUME LayoutsAssumption ==
    \A l \in Layouts :
        /\ l.worker_count \in Nat \ {0}
        /\ l.partitions \in Nat /\ l.partitions > 1
        /\ l.split \in 0..(l.partitions - 1)
        /\ l.partitions <= l.worker_count \/ (l.split # 0 /\ l.partitions = 2)
        /\ l.events \in [0..(l.partitions - 1) -> Nat]

VARIABLES
    layout,
    phase,         \* where the caller is
    group,         \* the group under way
    plans,         \* the calls of shared_candidate_plan made for it
    threads,       \* per partition: idle, refused, running, or its scan's outcome
    next,          \* the loop variable of the spawn, join and deliver loops
    spawned,       \* one past the last partition whose worker started
    spawn_error, scan_error, worker_panic,    \* None, or the partition
    outputs,       \* the partitions whose output is stored
    event,         \* the loop variable over a partition's events
    delivered,     \* the sink's calls, as <<partition, event>>
    result         \* how the call ended

loopVars == <<next, spawned>>
errorVars == <<spawn_error, scan_error, worker_panic>>
deliverVars == <<event, delivered>>
parallelVars == <<layout, phase, group, plans, threads, loopVars, errorVars, outputs,
                  deliverVars, result>>

None == -1
Outcome == {"output", "error", "panic"}
Partitions == 0..(layout.partitions - 1)

\* Mutant of Sequential: a single worker's cohorts are scanned together.
SequentialNever == FALSE

\* A mixed matcher of one worker scans its two cohorts in turn.
Sequential == layout.split # 0 /\ layout.worker_count = 1
Groups == IF Sequential THEN 2 ELSE 1
First == IF group = 2 THEN layout.split ELSE 0
Limit == IF Sequential /\ group = 1 THEN layout.split ELSE layout.partitions
\* Cohorts scanned together have a plan each.
PlanCount == IF layout.split # 0 /\ ~ Sequential THEN 2 ELSE 1

Running == { p \in Partitions : threads[p] = "running" }

Failed(p) == [kind |-> "error", by |-> p]
Panicked(p) == [kind |-> "panic", by |-> p]
Without(kind) == [kind |-> kind, by |-> None]     \* no partition decided it
Pending == Without("none")
Done == Without("ok")

-----------------------------------------------------------------------------
Init ==
    /\ layout \in Layouts
    /\ phase = "plan" /\ group = 1 /\ plans = 0
    /\ threads = [p \in Partitions |-> "idle"]
    /\ next = 1 /\ spawned = 1
    /\ spawn_error = None /\ scan_error = None /\ worker_panic = None
    /\ outputs = {}
    /\ event = 0 /\ delivered = <<>>
    /\ result = Pending

\* shared_candidate_plan returned a plan, or none.
Plan ==
    /\ phase = "plan"
    /\ plans' = plans + 1
    /\ IF plans' = PlanCount
       THEN phase' = "spawn" /\ next' = First + 1
       ELSE UNCHANGED <<phase, next>>
    /\ UNCHANGED <<layout, group, threads, spawned, errorVars, outputs, deliverVars, result>>

\* It could not start its own workers, or one of them panicked.
PlanFails ==
    /\ phase = "plan"
    /\ \/ phase' = "returned" /\ result' = Without("plan error")
       \/ phase' = "panicked" /\ result' = Without("plan panic")
    /\ UNCHANGED <<layout, group, plans, threads, loopVars, errorVars, outputs, deliverVars>>

Spawn ==
    /\ phase = "spawn"
    /\ next < Limit
    /\ threads' = [threads EXCEPT ![next] = "running"]
    /\ next' = next + 1
    /\ UNCHANGED <<layout, phase, group, plans, spawned, errorVars, outputs,
                   deliverVars, result>>

\* No thread: the workers already started are joined, nothing else is scanned.
SpawnFails ==
    /\ phase = "spawn"
    /\ next < Limit
    /\ spawn_error' = next
    /\ threads' = [threads EXCEPT ![next] = "refused"]
    /\ spawned' = next
    /\ phase' = "join"
    /\ next' = First + 1
    /\ UNCHANGED <<layout, group, plans, scan_error, worker_panic, outputs,
                   deliverVars, result>>

StartOwnScan ==
    /\ phase = "spawn"
    /\ next = Limit
    /\ threads' = [threads EXCEPT ![First] = "running"]
    /\ spawned' = Limit
    /\ phase' = "scan"
    /\ UNCHANGED <<layout, group, plans, next, errorVars, outputs, deliverVars, result>>

\* The caller's own scan; its panic leaves the closure without joining.
OwnScanEnds(o) ==
    /\ phase = "scan"
    /\ threads' = [threads EXCEPT ![First] = o]
    /\ outputs' = IF o = "output" THEN outputs \cup {First} ELSE outputs
    /\ scan_error' = IF o = "error" THEN First ELSE scan_error
    /\ IF o = "panic"
       THEN phase' = "unwind" /\ result' = Panicked(First)
       ELSE phase' = "join" /\ UNCHANGED result
    /\ next' = First + 1
    /\ UNCHANGED <<layout, group, plans, spawned, spawn_error, worker_panic, deliverVars>>

\* A worker's scan ends, in whatever order the threads run.
WorkerEnds(p, o) ==
    /\ p \in (First + 1)..(Limit - 1)
    /\ threads[p] = "running"
    /\ threads' = [threads EXCEPT ![p] = o]
    /\ UNCHANGED <<layout, phase, group, plans, loopVars, errorVars, outputs,
                   deliverVars, result>>

\* Mutant of Join: the last panic replaces the first.
JoinKeepingLastPanic ==
    /\ phase = "join"
    /\ next < spawned
    /\ threads[next] # "running"
    /\ outputs' = IF threads[next] = "output" THEN outputs \cup {next} ELSE outputs
    /\ scan_error' = IF threads[next] = "error" /\ scan_error = None THEN next
                     ELSE scan_error
    /\ worker_panic' = IF threads[next] = "panic" THEN next ELSE worker_panic
    /\ next' = next + 1
    /\ UNCHANGED <<layout, phase, group, plans, threads, spawned, spawn_error,
                   deliverVars, result>>

\* The caller waits for the workers in partition order and keeps the first error
\* and the first panic it meets.
Join ==
    /\ phase = "join"
    /\ next < spawned
    /\ threads[next] # "running"
    /\ outputs' = IF threads[next] = "output" THEN outputs \cup {next} ELSE outputs
    /\ scan_error' = IF threads[next] = "error" /\ scan_error = None THEN next
                     ELSE scan_error
    /\ worker_panic' = IF threads[next] = "panic" /\ worker_panic = None THEN next
                       ELSE worker_panic
    /\ next' = next + 1
    /\ UNCHANGED <<layout, phase, group, plans, threads, spawned, spawn_error,
                   deliverVars, result>>

Joined == phase = "join" /\ next >= spawned

ResumePanic ==
    /\ Joined
    /\ worker_panic # None
    /\ phase' = "unwind"
    /\ result' = Panicked(worker_panic)
    /\ UNCHANGED <<layout, group, plans, threads, loopVars, errorVars, outputs, deliverVars>>

\* spawn_error.or(scan_error)
ReturnError ==
    /\ Joined
    /\ worker_panic = None
    /\ spawn_error # None \/ scan_error # None
    /\ phase' = "returned"
    /\ result' = IF spawn_error # None THEN Failed(spawn_error) ELSE Failed(scan_error)
    /\ UNCHANGED <<layout, group, plans, threads, loopVars, errorVars, outputs, deliverVars>>

Succeeded == Joined /\ worker_panic = None /\ spawn_error = None /\ scan_error = None

NextGroup ==
    /\ Succeeded
    /\ group < Groups
    /\ group' = group + 1
    /\ plans' = 0
    /\ phase' = "plan"
    /\ UNCHANGED <<layout, threads, loopVars, errorVars, outputs, deliverVars, result>>

\* Mutant of StartDelivery: the first group's outputs are delivered at once.
StartDeliveryPerGroup ==
    /\ Succeeded
    /\ phase' = "deliver"
    /\ next' = 0
    /\ UNCHANGED <<layout, group, plans, threads, spawned, errorVars, outputs,
                   deliverVars, result>>

StartDelivery ==
    /\ Succeeded
    /\ group = Groups
    /\ phase' = "deliver"
    /\ next' = 0
    /\ UNCHANGED <<layout, group, plans, threads, spawned, errorVars, outputs,
                   deliverVars, result>>

\* Mutants of ScopeUnwinds: detached threads are not waited for; threads that were
\* never started are.
UnwindsDetached ==
    /\ phase = "unwind"
    /\ phase' = "panicked"
    /\ UNCHANGED <<layout, group, plans, threads, loopVars, errorVars, outputs,
                   deliverVars, result>>
UnwindsAfterAll ==
    /\ phase = "unwind"
    /\ \A p \in Partitions : threads[p] \in Outcome
    /\ phase' = "panicked"
    /\ UNCHANGED <<layout, group, plans, threads, loopVars, errorVars, outputs,
                   deliverVars, result>>

\* thread::scope waits for the threads nobody joined before it lets a panic out.
ScopeUnwinds ==
    /\ phase = "unwind"
    /\ Running = {}
    /\ phase' = "panicked"
    /\ UNCHANGED <<layout, group, plans, threads, loopVars, errorVars, outputs,
                   deliverVars, result>>

\* One call of the sink, which may panic.
CallSink ==
    /\ phase = "deliver"
    /\ next < layout.partitions
    /\ event < layout.events[next]
    /\ delivered' = Append(delivered, <<next, event>>)
    /\ event' = event + 1
    /\ \/ UNCHANGED <<phase, result>>
       \/ phase' = "panicked" /\ result' = Without("sink panic")
    /\ UNCHANGED <<layout, group, plans, threads, loopVars, errorVars, outputs>>

\* Mutant of NextBuffer: the event index is not reset.
NextBufferMidway ==
    /\ phase = "deliver"
    /\ next < layout.partitions
    /\ event = layout.events[next]
    /\ next' = next + 1
    /\ UNCHANGED <<layout, phase, group, plans, threads, spawned, errorVars, outputs,
                   deliverVars, result>>

NextBuffer ==
    /\ phase = "deliver"
    /\ next < layout.partitions
    /\ event = layout.events[next]
    /\ next' = next + 1
    /\ event' = 0
    /\ UNCHANGED <<layout, phase, group, plans, threads, spawned, errorVars, outputs,
                   delivered, result>>

Return ==
    /\ phase = "deliver"
    /\ next = layout.partitions
    /\ phase' = "returned"
    /\ result' = Done
    /\ UNCHANGED <<layout, group, plans, threads, loopVars, errorVars, outputs, deliverVars>>

Caller ==
    \/ Plan \/ PlanFails
    \/ Spawn \/ SpawnFails \/ StartOwnScan \/ (\E o \in Outcome : OwnScanEnds(o))
    \/ Join \/ ResumePanic \/ ReturnError \/ NextGroup \/ StartDelivery
    \/ ScopeUnwinds
    \/ CallSink \/ NextBuffer \/ Return

Worker(p) == \E o \in Outcome : WorkerEnds(p, o)

Next == Caller \/ \E p \in Partitions : Worker(p)

Spec == Init /\ [][Next]_parallelVars

\* A scan ends on its own (the engine's loops are over bounded ranges), and the operating system
\* eventually runs every thread that can run.
MaxPartitions == CHOOSE n \in { l.partitions : l \in Layouts } :
                     \A l \in Layouts : l.partitions <= n
FairSpec ==
    /\ Spec
    /\ WF_parallelVars(Caller)
    /\ \A p \in 0..(MaxPartitions - 1) : WF_parallelVars(p \in Partitions /\ Worker(p))

-----------------------------------------------------------------------------
(* Properties *)

\* The shape of a scan in progress: indices stay within the matcher's partitions.
TypeOK ==
    /\ layout \in Layouts
    /\ phase \in {"plan", "spawn", "scan", "join", "unwind", "deliver", "returned", "panicked"}
    /\ group \in 1..Groups
    /\ plans \in 0..PlanCount
    /\ threads \in [Partitions -> Outcome \cup {"idle", "refused", "running"}]
    /\ next \in 0..layout.partitions
    /\ spawned \in 1..layout.partitions
    /\ spawn_error \in Partitions \cup {None}
    /\ scan_error \in Partitions \cup {None}
    /\ worker_panic \in Partitions \cup {None}
    /\ outputs \subseteq Partitions
    /\ event \in Nat
    /\ result \in [kind : {"none", "ok", "error", "panic", "plan error", "plan panic",
                           "sink panic"},
                   by : Partitions \cup {None}]

Ended == phase \in {"returned", "panicked"}
With(status) == { p \in Partitions : threads[p] = status }
Earliest(S) == CHOOSE p \in S : \A q \in S : p <= q

\* However the threads interleave, a scan that ends in its scopes ends as their
\* outcomes alone decide: the caller's own panic, else the first worker's in partition
\* order, else the thread that would not start, else the first error.
Verdict ==
    IF threads[First] = "panic" THEN Panicked(First)
    ELSE IF With("panic") # {} THEN Panicked(Earliest(With("panic")))
    ELSE IF With("refused") # {} THEN Failed(Earliest(With("refused")))
    ELSE IF With("error") # {} THEN Failed(Earliest(With("error")))
    ELSE Done
ResultIsDetermined ==
    Ended /\ result.kind \notin {"plan error", "plan panic", "sink panic"} => result = Verdict

\* Once the joins found neither an error nor a panic, every partition of the group has
\* its output: the expect on each of them holds.
EveryOutputKept == Succeeded => First..(Limit - 1) \subseteq outputs

\* No callback while a thread is running, or after any of them failed (the doc of
\* Matcher::scan, and ADR-0008).
CallbacksComeLast ==
    delivered # <<>> => \A p \in Partitions : threads[p] = "output"

\* Every scan that was started has ended when the call ends, however it ends: no
\* worker outlives the input it borrows.
NoThreadOutlivesTheCall ==
    Ended \/ phase = "deliver" => Running = {}

\* Never more scans at once than workers were asked for, the caller's included.
WithinRequestedWorkers == Cardinality(Running) <= layout.worker_count

\* Every match a scan has to deliver, in partition order.
Events(l) ==
    FlattenSeq([i \in 1..l.partitions |-> [k \in 1..l.events[i - 1] |-> <<i - 1, k - 1>>]])

Promise == INSTANCE Delivery WITH
    EventLists <- { Events(l) : l \in Layouts },
    events     <- Events(layout),
    status     <- CASE phase = "deliver" -> "delivering"
                    [] result = Done -> "complete"
                    [] Ended /\ result # Done -> "failed"
                    [] OTHER -> "scanning"

\* The scan is all or nothing towards its sink.
ImplementsDelivery == Promise!Spec

\* Every call ends, whatever fails.
Termination == <>Ended
=============================================================================
