--------------------------- MODULE SharedCandidate ----------------------------
(***************************************************************************)
(* The candidate starts shared by the partitions of one large scan          *)
(* (rustmatch/src/shared_candidate.rs): one bitmap for all of them, cut     *)
(* into runs of words that scoped threads fill from the union of the        *)
(* partitions' literal filters.  Each partition then keeps the starts its   *)
(* own filter admits (rustmatch/src/shared_engine.rs).                      *)
(*                                                                          *)
(* The bitmap is the set of starts whose bit is set.  A thread that uses    *)
(* the SIMD scanner sets the bits of the scalar loop modelled here.         *)
(***************************************************************************)
EXTENDS LiteralFilter

CONSTANTS
    Calls,           \* the arguments of plan
    MinPartitions,   \* MIN_SHARED_PARTITION_COUNT
    MinUnits,        \* MIN_SHARED_INPUT_UNITS
    SampleLength,    \* DENSITY_SAMPLE_UNITS
    MaxShards,       \* MAX_SHARED_PLAN_SHARDS
    WordBits         \* the starts of one bitmap word, 64

\* A call: the input, the partitions' filters, which partitions have none, and the
\* two switches.
ASSUME CallsAssumption ==
    /\ MinPartitions \in Nat \ {0} /\ MinUnits \in Nat \ {0}
    /\ SampleLength \in Nat /\ MaxShards \in Nat \ {0} /\ WordBits \in Nat \ {0}
    /\ \A c \in Calls :
        /\ Len(c.input) \in Nat
        /\ Len(c.filters) \in Nat
        /\ c.unfiltered \subseteq DOMAIN c.filters
        /\ c.prefilter_enabled \in BOOLEAN /\ c.literal_prefilter_enabled \in BOOLEAN

VARIABLES
    call,
    phase,          \* decide, spawn, join, returned, panicked
    threads,        \* per shard: idle, refused, running, done, panic
    position,       \* per shard, the next start it tests
    admissions,     \* per shard, the starts it has admitted
    candidates,     \* the bits set, by whichever thread
    next,           \* the loop variable of the spawn and join loops
    spawned,        \* how many threads were started
    worker_panic,   \* None, or the shard whose panic is kept
    count,          \* the admissions of the joined shards
    result          \* how the call ended

shardVars == <<threads, position, admissions, candidates>>
joinVars == <<next, spawned, worker_panic, count>>
sharedVars == <<call, phase, shardVars, joinVars, result>>

None == -1
Least(m, n) == IF m < n THEN m ELSE n
DivCeil(m, n) == (m + n - 1) \div n

Partitions == DOMAIN call.filters
Units == Len(call.input)
Union == UnionOf(call.filters)
AllUnits == 0..(Units - 1)

\* UnionLiteralFilter::allows_start
AllowsStart(start) == Admits(Union, call.input, start)

-----------------------------------------------------------------------------
(* Whether sharing pays: is_eligible and the density sample. *)

Eligible ==
    /\ call.prefilter_enabled /\ call.literal_prefilter_enabled
    /\ Len(call.filters) >= MinPartitions
    /\ Units >= MinUnits

SampleEnd == Least(Units, SampleLength)
Dense ==
    2 * Cardinality({ s \in AllUnits : s < SampleEnd /\ AllowsStart(s) })
        >= SampleEnd

Worthwhile == Eligible /\ call.unfiltered = {} /\ ~ Dense

-----------------------------------------------------------------------------
(* The shards: chunks_mut may cut fewer chunks than shard_count. *)

Words == DivCeil(Units, WordBits)
ShardCount ==
    LET least == Least(Least(MaxShards, Len(call.filters)), Words)
    IN  IF least = 0 THEN 1 ELSE least
WordsPerShard == DivCeil(Words, ShardCount)
ShardLimit == DivCeil(Words, WordsPerShard)
Shards == 0..(ShardLimit - 1)

\* The words of a chunk; the last one may be shorter.
ChunkWords(i) == Least(WordsPerShard, Words - i * WordsPerShard)

\* Mutant of FirstStart: the short chunk counts the words before it by its own.
FirstStartOfShort(i) == i * ChunkWords(i) * WordBits

FirstStart(i) == i * WordsPerShard * WordBits

EndStart(i) == Least(FirstStart(i) + ChunkWords(i) * WordBits, Units)

-----------------------------------------------------------------------------
Init ==
    /\ call \in Calls
    /\ phase = "decide"
    /\ threads = << >> /\ position = << >> /\ admissions = << >>
    /\ candidates = {}
    /\ next = 0 /\ spawned = 0
    /\ worker_panic = None
    /\ count = 0
    /\ result = "pending"

\* Not eligible, a partition without a literal filter, or a dense sample: Ok(None).
Decline ==
    /\ phase = "decide"
    /\ ~ Worthwhile
    /\ phase' = "returned"
    /\ result' = "no plan"
    /\ UNCHANGED <<call, shardVars, joinVars>>

Split ==
    /\ phase = "decide"
    /\ Worthwhile
    /\ threads' = [i \in Shards |-> "idle"]
    /\ position' = [i \in Shards |-> FirstStart(i)]
    /\ admissions' = [i \in Shards |-> 0]
    /\ phase' = "spawn"
    /\ UNCHANGED <<call, candidates, joinVars, result>>

Spawn ==
    /\ phase = "spawn"
    /\ next < ShardLimit
    /\ threads' = [threads EXCEPT ![next] = "running"]
    /\ next' = next + 1
    /\ UNCHANGED <<call, phase, position, admissions, candidates, spawned, worker_panic,
                   count, result>>

\* No thread for a shard: the shards after it are given up too.
SpawnFails ==
    /\ phase = "spawn"
    /\ next < ShardLimit
    /\ threads' = [threads EXCEPT ![next] = "refused"]
    /\ spawned' = next
    /\ next' = 0
    /\ phase' = "join"
    /\ UNCHANGED <<call, position, admissions, candidates, worker_panic, count, result>>

AllSpawned ==
    /\ phase = "spawn"
    /\ next = ShardLimit
    /\ spawned' = ShardLimit
    /\ next' = 0
    /\ phase' = "join"
    /\ UNCHANGED <<call, shardVars, worker_panic, count, result>>

\* One round of scan_word_slice_scalar.
TestStart(i) ==
    /\ threads[i] = "running"
    /\ position[i] < EndStart(i)
    /\ IF AllowsStart(position[i])
       THEN /\ candidates' = candidates \cup { position[i] }
            /\ admissions' = [admissions EXCEPT ![i] = @ + 1]
       ELSE UNCHANGED <<candidates, admissions>>
    /\ position' = [position EXCEPT ![i] = @ + 1]
    /\ UNCHANGED <<call, phase, threads, joinVars, result>>

ShardReturns(i) ==
    /\ threads[i] = "running"
    /\ position[i] >= EndStart(i)
    /\ threads' = [threads EXCEPT ![i] = "done"]
    /\ UNCHANGED <<call, phase, position, admissions, candidates, joinVars, result>>

ShardPanics(i) ==
    /\ threads[i] = "running"
    /\ threads' = [threads EXCEPT ![i] = "panic"]
    /\ UNCHANGED <<call, phase, position, admissions, candidates, joinVars, result>>

\* Mutant of Join: the last panic replaces the first.
JoinKeepingLastPanic ==
    /\ phase = "join"
    /\ next < spawned
    /\ threads[next] # "running"
    /\ IF threads[next] = "done"
       THEN count' = count + admissions[next] /\ UNCHANGED worker_panic
       ELSE worker_panic' = next /\ UNCHANGED count
    /\ next' = next + 1
    /\ UNCHANGED <<call, phase, shardVars, spawned, result>>

\* The caller waits for the threads in shard order and keeps the first panic.
Join ==
    /\ phase = "join"
    /\ next < spawned
    /\ threads[next] # "running"
    /\ IF threads[next] = "done"
       THEN count' = count + admissions[next] /\ UNCHANGED worker_panic
       ELSE /\ worker_panic' = IF worker_panic = None THEN next ELSE worker_panic
            /\ UNCHANGED count
    /\ next' = next + 1
    /\ UNCHANGED <<call, phase, shardVars, spawned, result>>

\* Mutant of Joined: the last thread is not waited for.
JoinedButOne == phase = "join" /\ next >= spawned - 1

Joined == phase = "join" /\ next >= spawned

ResumePanic ==
    /\ Joined
    /\ worker_panic # None
    /\ phase' = "panicked"
    /\ result' = "panic"
    /\ UNCHANGED <<call, shardVars, joinVars>>

\* A thread that could not be started leaves the bitmap unused.
ReturnError ==
    /\ Joined
    /\ worker_panic = None
    /\ spawned < ShardLimit
    /\ phase' = "returned"
    /\ result' = "error"
    /\ UNCHANGED <<call, shardVars, joinVars>>

ReturnPlan ==
    /\ Joined
    /\ worker_panic = None
    /\ spawned = ShardLimit
    /\ phase' = "returned"
    /\ result' = "plan"
    /\ UNCHANGED <<call, shardVars, joinVars>>

Ended == phase \in {"returned", "panicked"}

\* The call is over: the only state without a step.
Stop == Ended /\ UNCHANGED sharedVars

Shard(i) == TestStart(i) \/ ShardReturns(i) \/ ShardPanics(i)

Next ==
    \/ Decline \/ Split \/ Spawn \/ SpawnFails \/ AllSpawned
    \/ Join \/ ResumePanic \/ ReturnError \/ ReturnPlan \/ Stop
    \/ \E i \in DOMAIN threads : Shard(i)

Spec == Init /\ [][Next]_sharedVars

-----------------------------------------------------------------------------
(* What a partition reads of the plan. *)

\* Prefilter::shared_allows_start
SharedAllowsStart(p, start) == Admits(call.filters[p], call.input, start)

\* The starts its engine scans: those of the bitmap that its own filter admits.
PartitionStarts(p) == { s \in candidates : SharedAllowsStart(p, s) }

-----------------------------------------------------------------------------
(* Properties *)

Divided == phase # "decide" /\ result # "no plan"

\* The shape of a plan in progress: no thread tests a start outside the input, and
\* every count stays within it.
TypeOK ==
    /\ call \in Calls
    /\ phase \in {"decide", "spawn", "join", "returned", "panicked"}
    /\ Divided =>
         /\ threads \in [Shards -> {"idle", "refused", "running", "done", "panic"}]
         /\ position \in [Shards -> 0..Units]
         /\ admissions \in [Shards -> 0..Units]
         /\ next \in 0..ShardLimit /\ spawned \in 0..ShardLimit
         /\ worker_panic \in Shards \cup { None }
    /\ ~ Divided => threads = << >> /\ next = 0 /\ spawned = 0 /\ worker_panic = None
    /\ candidates \subseteq AllUnits
    /\ count \in 0..Units
    /\ result \in {"pending", "no plan", "plan", "error", "panic"}

\* A bitmap is handed out only when every start has been tested, each by one shard: the
\* slices tile it however the words divide, and the count read from the joins is the
\* number of bits.
PlanIsExact ==
    result = "plan" =>
        /\ candidates = Admitted(Union, call.input)
        /\ count = Cardinality(candidates)

\* Sharing changes no partition's starts: what its filter keeps of the shared bitmap
\* (shared_allows_start) is what it would have admitted alone
\* (shared_candidates_preserve_each_private_partition_set).
PrivateStartsKept ==
    result = "plan" => \A p \in Partitions :
        PartitionStarts(p) = Admitted(call.filters[p], call.input)

With(status) == { i \in DOMAIN threads : threads[i] = status }

\* Whatever order the threads run, panic and are refused in, the outcome depends only on
\* what happened to each: a panic of the earliest shard first, a refused thread next.
PlanResultIsDetermined ==
    /\ result = "no plan" => ~ Worthwhile
    /\ result = "panic" => /\ threads[worker_panic] = "panic"
                           /\ \A i \in With("panic") : worker_panic <= i
    /\ result = "error" => With("panic") = {} /\ With("refused") # {}
    /\ result = "plan" => \A i \in Shards : threads[i] = "done"

\* No thread still holds its slice of the bitmap or the input when the call ends, also
\* when it ends by a panic or a refused thread.
NoShardOutlivesThePlan == Ended => With("running") = {}
=============================================================================
