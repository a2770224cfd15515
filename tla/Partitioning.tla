----------------------------- MODULE Partitioning -----------------------------
(***************************************************************************)
(* How build() divides the registered patterns and the state cache budget   *)
(* among scan partitions: compile_partitions (rustmatch/src/api.rs) and the *)
(* cohort construction (rustmatch/src/api/cohort_runtime.rs), which keeps   *)
(* assertion-bearing patterns in partitions of their own and calls          *)
(* compile_partitions once for each cohort.                                 *)
(*                                                                          *)
(* A pattern is its position in registration order and whether it uses      *)
(* assertions.  A partition is a slice [start, end) of its cohort's list.   *)
(***************************************************************************)
EXTENDS Integers, Sequences, FiniteSets

CONSTANT Configurations   \* the builders build() may be called on

ASSUME ConfigurationsAssumption ==
    \A c \in Configurations :
        /\ c.patterns \in Seq(BOOLEAN)
        /\ c.worker_count \in Nat
        /\ c.state_cache_budget \in Nat
        /\ c.cohort_compilation_enabled \in BOOLEAN

VARIABLES
    builder,       \* the configuration: patterns[i] tells whether i uses assertions
    phase,         \* check, allocate, compile, built, failed
    error,         \* the Error build() returned
    allocations,   \* the loop variable of allocate_cohort_partitions
    calls,         \* the calls of compile_partitions still to be made
    index, start,  \* the loop variables of the first of them
    partitions     \* the partitions compiled so far

partitioningVars == <<builder, phase, error, allocations, calls, index, start, partitions>>

AtMost(a, b) == IF a <= b THEN a ELSE b
AtLeast(a, b) == IF a <= b THEN b ELSE a
Minus(a, b) == IF a <= b THEN 0 ELSE a - b        \* saturating_sub

\* Mutant of Members: a cohort's partitions index the whole list.
MembersOfAll(cohort) == [i \in 1..Len(builder.patterns) |-> i]

\* Which patterns a cohort takes.
Belongs(i, cohort) ==
    \/ cohort = "all"
    \/ cohort = "bearing" /\ builder.patterns[i]
    \/ cohort = "free" /\ ~ builder.patterns[i]

\* The list a cohort's slices index, as positions in registration order: each pattern in
\* turn is pushed to the list of its cohort.
Members(cohort) ==
    LET pushed[i \in 0..Len(builder.patterns)] ==
          IF i = 0 THEN <<>>
          ELSE IF Belongs(i, cohort) THEN Append(pushed[i - 1], i) ELSE pushed[i - 1]
    IN  pushed[Len(builder.patterns)]

bearing == Cardinality({ i \in DOMAIN builder.patterns : builder.patterns[i] })
free == Len(builder.patterns) - bearing
mixed == builder.cohort_compilation_enabled /\ free # 0 /\ bearing # 0

-----------------------------------------------------------------------------
(* One call of compile_partitions. *)

Call(cohort, size, requested, budget) ==
    [cohort |-> cohort, size |-> size, count |-> AtMost(requested, size), budget |-> budget]

call == Head(calls)
patterns_per_partition == call.size \div call.count
\* Mutant of extra_patterns: the remainder is dropped.
extra_patterns_dropped == 0

extra_patterns == call.size % call.count
cache_states_per_partition == call.budget \div call.count
extra_cache_states == call.budget % call.count

One(condition) == IF condition THEN 1 ELSE 0      \* usize::from

-----------------------------------------------------------------------------
(* cohort_runtime. *)

PatternCounts == [free |-> free, bearing |-> bearing]
Other == [free |-> "bearing", bearing |-> "free"]
Allocated == allocations.free + allocations.bearing
Target == AtMost(AtLeast(builder.worker_count, 2), Len(builder.patterns))

\* Mutant of Pressure: the larger cohort, however many partitions it has.
PressureBySize(cohort) == PatternCounts[cohort]

\* patterns per partition of a cohort, cross-multiplied; a tie goes to the first.
Pressure(cohort) == PatternCounts[cohort] * allocations[Other[cohort]]
HasRoom(cohort) == allocations[cohort] < PatternCounts[cohort]
Selected ==
    IF ~ HasRoom("bearing") THEN "free"
    ELSE IF ~ HasRoom("free") THEN "bearing"
    ELSE IF Pressure("bearing") > Pressure("free") THEN "bearing" ELSE "free"

\* Mutant of CohortCacheBudget: each cohort takes the extra states for itself.
CohortCacheBudgetTwice(partition_start, partition_count) ==
    LET total == builder.state_cache_budget
        extra == total % Allocated
    IN  (total \div Allocated) * partition_count + AtMost(extra, partition_count)

CohortCacheBudget(partition_start, partition_count) ==
    LET total == builder.state_cache_budget
        extra == total % Allocated
    IN  (total \div Allocated) * partition_count
        + AtMost(Minus(extra, partition_start), partition_count)

\* The calls a builder makes, in order.
AllCall == Call("all", Len(builder.patterns), builder.worker_count,
                builder.state_cache_budget)
FreeCall == Call("free", free, allocations.free, CohortCacheBudget(0, allocations.free))
BearingCall == Call("bearing", bearing, allocations.bearing,
                    CohortCacheBudget(allocations.free, allocations.bearing))

-----------------------------------------------------------------------------
Init ==
    /\ builder \in Configurations
    /\ phase = "check"
    /\ error = "none"
    /\ allocations = [free |-> 1, bearing |-> 1]
    /\ calls = <<>>
    /\ index = 0 /\ start = 0
    /\ partitions = <<>>

Fail(reason) ==
    /\ phase' = "failed"
    /\ error' = reason
    /\ UNCHANGED <<builder, allocations, calls, index, start, partitions>>

NoPatterns ==
    /\ phase = "check"
    /\ builder.patterns = <<>>
    /\ Fail("NoPatterns")

InvalidWorkerCount ==
    /\ phase = "check"
    /\ builder.patterns # <<>>
    /\ builder.worker_count = 0
    /\ Fail("InvalidWorkerCount")

Buildable == phase = "check" /\ builder.patterns # <<>> /\ builder.worker_count > 0

\* No cohorts, or only one of them: a single call.
OneCall ==
    /\ Buildable
    /\ ~ mixed
    /\ calls' = << AllCall >>
    /\ phase' = "compile"
    /\ UNCHANGED <<builder, error, allocations, index, start, partitions>>

Mixed ==
    /\ Buildable
    /\ mixed
    /\ phase' = "allocate"
    /\ UNCHANGED <<builder, error, allocations, calls, index, start, partitions>>

Allocate ==
    /\ phase = "allocate"
    /\ Allocated < Target
    /\ allocations' = [allocations EXCEPT ![Selected] = @ + 1]
    /\ UNCHANGED <<builder, phase, error, calls, index, start, partitions>>

TwoCalls ==
    /\ phase = "allocate"
    /\ Allocated >= Target
    /\ calls' = << FreeCall, BearingCall >>
    /\ phase' = "compile"
    /\ UNCHANGED <<builder, error, allocations, index, start, partitions>>

CompilePartition ==
    /\ phase = "compile"
    /\ index < call.count
    /\ LET end == start + patterns_per_partition + One(index < extra_patterns)
       IN  /\ partitions' = Append(partitions,
                [cohort |-> call.cohort,
                 start  |-> start,
                 end    |-> end,
                 budget |-> cache_states_per_partition + One(index < extra_cache_states)])
           /\ start' = end
    /\ index' = index + 1
    /\ UNCHANGED <<builder, phase, error, allocations, calls>>

FinishCall ==
    /\ phase = "compile"
    /\ index = call.count
    /\ calls' = Tail(calls)
    /\ index' = 0 /\ start' = 0
    /\ phase' = IF Len(calls) = 1 THEN "built" ELSE "compile"
    /\ UNCHANGED <<builder, error, allocations, partitions>>

Next ==
    \/ NoPatterns \/ InvalidWorkerCount \/ OneCall \/ Mixed
    \/ Allocate \/ TwoCalls \/ CompilePartition \/ FinishCall

Spec == Init /\ [][Next]_partitioningVars

-----------------------------------------------------------------------------
(* Properties *)

Cohort == {"all", "free", "bearing"}
Size(cohort) ==
    CASE cohort = "all" -> Len(builder.patterns)
      [] cohort = "free" -> free
      [] cohort = "bearing" -> bearing

CallShape ==
    [cohort : Cohort, size : Nat \ {0}, count : Nat \ {0}, budget : Nat]
PartitionShape == [cohort : Cohort, start : Nat, end : Nat, budget : Nat]

\* The shape of a build in progress: no call has an empty cohort or no partition, so
\* none of its divisions is by zero.
TypeOK ==
    /\ builder \in Configurations
    /\ phase \in {"check", "allocate", "compile", "built", "failed"}
    /\ error \in {"none", "NoPatterns", "InvalidWorkerCount"}
    /\ allocations \in [{"free", "bearing"} -> Nat \ {0}]
    /\ calls \in Seq(CallShape)
    /\ index \in Nat /\ start \in Nat
    /\ partitions \in Seq(PartitionShape)
    /\ phase = "compile" => calls # <<>>

\* The slices tile each cohort's list: every one is nonempty, begins where the one
\* before it ended, and the last of a cohort ends at its last pattern (the
\* debug_assert on `start' in compile_partitions).
SlicesTileTheLists ==
    /\ \A i \in 1..Len(partitions) :
         /\ partitions[i].start < partitions[i].end
         /\ partitions[i].end <= Size(partitions[i].cohort)
    /\ \A i \in 1..(Len(partitions) - 1) :
         IF partitions[i + 1].cohort = partitions[i].cohort
         THEN partitions[i + 1].start = partitions[i].end
         ELSE /\ partitions[i].end = Size(partitions[i].cohort)
              /\ partitions[i + 1].start = 0
    /\ partitions # <<>> => partitions[1].start = 0
    /\ phase = "built" =>
         /\ partitions # <<>>
         /\ partitions[Len(partitions)].end = Size(partitions[Len(partitions)].cohort)

\* What the patterns of a partition are.
PatternsOf(p) == { Members(p.cohort)[k] : k \in (p.start + 1)..p.end }

\* Every registered pattern is scanned by exactly one partition, and with cohorts
\* no partition mixes patterns with and without assertions: a bearing pattern in a
\* free partition would take the whole partition off the cache.
EveryPatternOnce ==
    phase = "built" =>
        /\ \A i \in DOMAIN builder.patterns :
             Cardinality({ k \in DOMAIN partitions : i \in PatternsOf(partitions[k]) }) = 1
        /\ mixed => \A k \in DOMAIN partitions : \A i, j \in PatternsOf(partitions[k]) :
                        builder.patterns[i] = builder.patterns[j]

\* Whatever the cohorts, the budget is dealt out as one hand over all partitions:
\* the quotient to each and one more to the first ones.  So its sum is the caller's
\* budget (the debug_asserts of both constructors) and cohorts never change a share.
BudgetIsDealtOut ==
    phase = "built" =>
        LET n == Len(partitions)
        IN  \A k \in 1..n :
                partitions[k].budget =
                    builder.state_cache_budget \div n
                    + One(k - 1 < builder.state_cache_budget % n)

\* Workers asked for and patterns registered both bound the partitions; a mixed set
\* always has one for each cohort, even for one worker.
PartitionCount ==
    phase = "built" =>
        Len(partitions) = AtMost(Len(builder.patterns),
                                 IF mixed THEN AtLeast(builder.worker_count, 2)
                                 ELSE builder.worker_count)

\* The allocation never outgrows a cohort or the target, so the loop's expect holds.
AllocationFits ==
    phase \in {"allocate", "compile"} /\ mixed =>
        /\ allocations.free <= free /\ allocations.bearing <= bearing
        /\ Allocated <= Target
        /\ Allocated < Target => HasRoom("free") \/ HasRoom("bearing")

\* No other division of the same partitions leaves a smaller largest load: the
\* greedy choice of the most pressed cohort is optimal (loads cross-multiplied).
AllocationIsBalanced ==
    phase = "built" /\ mixed =>
        \A other \in [free : 1..free, bearing : 1..bearing] :
            other.free + other.bearing = Allocated =>
                \A c \in {"free", "bearing"} : \E d \in {"free", "bearing"} :
                    PatternCounts[c] * other[d] <= PatternCounts[d] * allocations[c]
=============================================================================
