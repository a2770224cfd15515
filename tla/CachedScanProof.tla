--------------------------- MODULE CachedScanProof ---------------------------
(***************************************************************************)
(* For every database, input, set of starts, budget, hash function and     *)
(* stamp width: the cached engine keeps its cache exact and implements the  *)
(* exact scan.                                                              *)
(***************************************************************************)
EXTENDS CachedScan, InductionLemmas

-----------------------------------------------------------------------------
(* The database operators. *)

\* A closure lists states of its database (extend_epsilon_closure_generation).
LEMMA ClosureInStates ==
    ASSUME NEW db, NEW seeds, NEW visited
    PROVE  ExtendEpsilonClosure(db, seeds, visited) \subseteq db.state
BY DEF ExtendEpsilonClosure, ExtendClosure

\* Terminal lists hold pattern ordinals (PatternDatabase::terminals_at).
LEMMA TerminalsAreOrdinals ==
    ASSUME NEW db, db \in Database(db.state), NEW S \in SUBSET db.state
    PROVE  TerminalsOf(db, S) \subseteq Ordinal
<1>1. db.terminals \in [db.state -> SUBSET Ordinal]
    BY DEF Database
<1>2. QED
    BY <1>1 DEF TerminalsOf

\* What a job promises (the arguments of scan_without_assertions_cached).
LEMMA JobFacts ==
    ASSUME job \in Jobs
    PROVE  /\ job.db \in Database(job.db.state)
           /\ job.root \in job.db.state
           /\ job.input \in Seq(Symbol)
           /\ job.starts \subseteq 0..(Len(job.input) - 1)
           /\ ~ job.uses_assertions
BY CacheAssumption, JobsAssumption DEF JobShape

-----------------------------------------------------------------------------
(* Types. *)

\* The unit about to be consumed is a symbol.
LEMMA SymbolType ==
    ASSUME TypeOK, phase = "scan"
    PROVE  symbol \in Symbol
BY JobFacts, ElementOfSeq DEF TypeOK, symbol

\* Stamps stay below the modulus (Scratch::reset_cached_transition).
LEMMA GenerationType ==
    ASSUME TypeOK
    PROVE  /\ NextGeneration \in 1..(GenerationModulus - 1)
           /\ ClearedMarks \in [job.db.state -> Nat]
BY CacheAssumption DEF TypeOK, NextGeneration, ClearedMarks, GenerationWraps

\* Recording keeps the per-ordinal table a table of positions.
LEMMA RecordType ==
    ASSUME NEW best \in [Ordinal -> Nat], NEW ordinals, NEW end \in Nat
    PROVE  /\ RecordTerminals(best, ordinals, end) \in [Ordinal -> Nat]
           /\ ResetTerminals(best, ordinals) \in [Ordinal -> Nat]
BY DEF RecordTerminals, ResetTerminals, NoEnd

\* A state set joins the cache as a state with every slot unknown (DeterministicState::new).
LEMMA NewStateType ==
    ASSUME job \in Jobs, NEW S \in SUBSET job.db.state
    PROVE  NewDeterministicState(S) \in DeterministicState
<1>1. TerminalsOf(job.db, S) \in SUBSET Ordinal
    BY JobFacts, TerminalsAreOrdinals
<1>2. UNKNOWN_TRANSITION \in Slot
    BY CacheAssumption DEF UNKNOWN_TRANSITION, Slot
<1>3. QED
    BY <1>1, <1>2 DEF NewDeterministicState, DeterministicState

\* Writing one slot of one cached state (DeterministicState::set_transition).
LEMMA SetTransitionType ==
    ASSUME NEW table \in Seq(DeterministicState), cursor \in Nat, cursor < Len(table),
           NEW slot \in Slot, symbol \in Symbol
    PROVE  /\ SetTransition(table, slot) \in Seq(DeterministicState)
           /\ Len(SetTransition(table, slot)) = Len(table)
           /\ \A i \in 1..Len(table) :
                /\ SetTransition(table, slot)[i].nfa_states = table[i].nfa_states
                /\ SetTransition(table, slot)[i].terminals = table[i].terminals
                /\ \A a \in Symbol :
                     SetTransition(table, slot)[i].transitions[a] =
                        IF i = cursor + 1 /\ a = symbol THEN slot
                        ELSE table[i].transitions[a]
<1>1. \A i \in 1..Len(table) : table[i] \in DeterministicState
    BY ElementOfSeq
<1>2. \A i \in 1..Len(table) :
         /\ SetTransition(table, slot)[i].nfa_states = table[i].nfa_states
         /\ SetTransition(table, slot)[i].terminals = table[i].terminals
         /\ \A a \in Symbol :
              SetTransition(table, slot)[i].transitions[a] =
                 IF i = cursor + 1 /\ a = symbol THEN slot
                 ELSE table[i].transitions[a]
         /\ SetTransition(table, slot)[i] \in DeterministicState
    <2>1. SUFFICES ASSUME NEW i \in 1..Len(table)
          PROVE  /\ SetTransition(table, slot)[i].nfa_states = table[i].nfa_states
                 /\ SetTransition(table, slot)[i].terminals = table[i].terminals
                 /\ \A a \in Symbol :
                      SetTransition(table, slot)[i].transitions[a] =
                         IF i = cursor + 1 /\ a = symbol THEN slot
                         ELSE table[i].transitions[a]
                 /\ SetTransition(table, slot)[i] \in DeterministicState
        OBVIOUS
    <2>2. table[i] \in DeterministicState
        BY <1>1
    <2>3. CASE i = cursor + 1
        BY <2>2, <2>3, SMTT(20) DEF SetTransition, DeterministicState
    <2>4. CASE i # cursor + 1
        <3>1. SetTransition(table, slot)[i] = table[i]
            BY <2>4 DEF SetTransition
        <3>2. QED
            BY <2>2, <2>4, <3>1
    <2>5. QED
        BY <2>3, <2>4
<1>3. /\ SetTransition(table, slot) \in Seq(DeterministicState)
      /\ Len(SetTransition(table, slot)) = Len(table)
    BY <1>1, <1>2, SMTT(20) DEF SetTransition
<1>4. QED
    BY <1>2, <1>3

-----------------------------------------------------------------------------
(* The inductive invariant. *)

\* The root closure keeps identifier 0 (DeterministicCache::new).
RootIsCached ==
    /\ Len(states) >= 1
    /\ states[1].nfa_states = ExtendEpsilonClosure(job.db, { job.root }, {})

\* The terminals stored with a set are the set's (DeterministicState::new).
TerminalsExact ==
    \A i \in 1..Len(states) : states[i].terminals = TerminalsOf(job.db, states[i].nfa_states)

\* Buckets hold identifiers of cached states, every state is in the bucket of its
\* hash, and no set is cached twice (DeterministicCache::intern).
BucketsExact ==
    /\ \A h \in HashValue : \A id \in buckets[h] : id + 1 \in 1..Len(states)
    /\ \A i \in 1..Len(states) : i - 1 \in buckets[StateSetHash(states[i].nfa_states)]
    /\ \A i, j \in 1..Len(states) : states[i].nfa_states = states[j].nfa_states => i = j

StampsBounded == \A s \in job.db.state : cache_seen[s] <= cache_generation

Inv ==
    /\ TypeOK
    /\ RootIsCached /\ TerminalsExact /\ BucketsExact
    /\ BudgetRespected /\ SlotsAreExact
    /\ StampsBounded /\ UncachedOnlyUnderPressure /\ TouchedCoversEnds

\* No mark is live when a transition is computed, so the closure is the exact one
\* (reset_cached_transition before every compute_transition).
LEMMA FreshStamps ==
    ASSUME TypeOK, StampsBounded
    PROVE  \A s \in job.db.state : ClearedMarks[s] # NextGeneration
BY CacheAssumption DEF TypeOK, StampsBounded, ClearedMarks, NextGeneration, GenerationWraps

\* Whatever stamps earlier transitions left, a transition computes the exact successor
\* (compute_transition).
LEMMA ComputedIsExact ==
    ASSUME TypeOK, StampsBounded, NEW source
    PROVE  /\ Computed(source) =
                ExtendEpsilonClosure(job.db, ConsumingTargets(job.db, source, symbol), {})
           /\ Computed(source) \in SUBSET job.db.state
<1>1. { s \in job.db.state : ClearedMarks[s] = NextGeneration } = {}
    BY FreshStamps
<1>2. QED
    BY <1>1, ClosureInStates DEF Computed

\* Looking a set up finds its identifier and nothing else, hash collisions or not.
LEMMA CandidatesExact ==
    ASSUME Inv, NEW S \in SUBSET job.db.state
    PROVE  /\ Candidates(S) \subseteq 0..(Len(states) - 1)
           /\ \A id \in Candidates(S) : states[id + 1].nfa_states = S
           /\ \A i \in 1..Len(states) :
                states[i].nfa_states = S => Candidates(S) = { i - 1 }
<1>1. StateSetHash(S) \in HashValue
    BY CacheAssumption DEF Inv, TypeOK
<1>2. buckets[StateSetHash(S)] \in SUBSET Nat
    BY <1>1 DEF Inv, TypeOK
<1>3. /\ Candidates(S) \subseteq 0..(Len(states) - 1)
      /\ \A id \in Candidates(S) : states[id + 1].nfa_states = S
    BY <1>1, <1>2 DEF Candidates, Inv, BucketsExact
<1>4. ASSUME NEW i \in 1..Len(states), states[i].nfa_states = S
      PROVE  Candidates(S) = { i - 1 }
    <2>1. i - 1 \in Candidates(S)
        BY <1>4, <1>1 DEF Candidates, Inv, BucketsExact
    <2>2. \A id \in Candidates(S) : id + 1 = i
        BY <1>3, <1>4 DEF Inv, BucketsExact
    <2>3. QED
        BY <2>1, <2>2, <1>3
<1>5. QED
    BY <1>3, <1>4

\* A known slot that is not a sentinel is the identifier of a cached state.
LEMMA KnownSlotFacts ==
    ASSUME Inv, OnCached
    PROVE  /\ cursor \in 0..(Len(states) - 1)
           /\ symbol \in Symbol
           /\ Source \in SUBSET job.db.state
           /\ KnownSlot \in Slot
           /\ KnownSlot \notin { UNKNOWN_TRANSITION, FALLBACK_TRANSITION, DEAD_TRANSITION }
                => KnownSlot \in 0..(Len(states) - 1)
<1>1. cursor \in 0..(Len(states) - 1)
    BY DEF Inv, TypeOK, OnCached
<1>2. symbol \in Symbol
    BY SymbolType DEF Inv, OnCached, Scanning
<1>3. states[cursor + 1] \in DeterministicState
    BY <1>1, ElementOfSeq DEF Inv, TypeOK
<1>4. KnownSlot \in Slot /\ Source \in SUBSET job.db.state
    BY <1>2, <1>3 DEF KnownSlot, Source, DeterministicState
<1>5. ASSUME KnownSlot \notin { UNKNOWN_TRANSITION, FALLBACK_TRANSITION, DEAD_TRANSITION }
      PROVE  KnownSlot \in 0..(Len(states) - 1)
    <2>1. KnownSlot \in Nat /\ KnownSlot < IdLimit
        BY <1>4, <1>5, CacheAssumption
           DEF Slot, UNKNOWN_TRANSITION, FALLBACK_TRANSITION, DEAD_TRANSITION
    <2>2. cursor + 1 \in DOMAIN states
        BY <1>1 DEF Inv, TypeOK
    <2>3. KnownSlot < Len(states)
        BY <1>2, <2>1, <2>2 DEF Inv, SlotsAreExact, KnownSlot
    <2>4. QED
        BY <2>1, <2>3 DEF Inv, TypeOK
<1>6. QED
    BY <1>1, <1>2, <1>4, <1>5

-----------------------------------------------------------------------------
(* Every step keeps the types. *)

\* The stamps after compute_transition.
LEMMA ComputeType ==
    ASSUME Inv, NEW source, ComputeTransition(source)
    PROVE  /\ cache_generation' \in 1..(GenerationModulus - 1)
           /\ cache_seen' \in [job.db.state -> Nat]
           /\ \A s \in job.db.state : cache_seen'[s] <= cache_generation'
<1>1. /\ NextGeneration \in 1..(GenerationModulus - 1)
      /\ ClearedMarks \in [job.db.state -> Nat]
    BY GenerationType DEF Inv
<1>2. \A s \in job.db.state : ClearedMarks[s] <= NextGeneration
    BY <1>1 DEF Inv, TypeOK, StampsBounded, ClearedMarks, NextGeneration, GenerationWraps
<1>3. QED
    BY <1>1, <1>2 DEF ComputeTransition

\* Advancing past a unit, with the terminals of some set recorded.
LEMMA AdvanceType ==
    ASSUME Inv, Scanning, Advance, NEW ordinals \in SUBSET Ordinal, Record(ordinals)
    PROVE  /\ position' \in 0..Len(job.input)
           /\ phase' \in {"scan", "report"}
           /\ best_end' \in [Ordinal -> Nat]
           /\ touched_ordinals' \subseteq Ordinal
           /\ phase' = "scan" => position' \in start..(Len(job.input) - 1)
<1>1. position \in start..(Len(job.input) - 1) /\ start \in Nat /\ Len(job.input) \in Nat
    BY JobFacts, LenProperties DEF Inv, TypeOK, Scanning
<1>2. best_end' \in [Ordinal -> Nat]
    BY <1>1, RecordType DEF Inv, TypeOK, Record
<1>3. QED
    BY <1>1, <1>2 DEF Inv, TypeOK, Advance, Record

\* Leaving the cache: the scratch lists and the cursor (TransitionOutcome::Uncached).
LEMMA UncachedType ==
    ASSUME Inv, Scanning, NEW S \in SUBSET job.db.state, OutcomeUncached(S),
           NEW source, ComputeTransition(source)
    PROVE  /\ position' \in 0..Len(job.input)
           /\ phase' \in {"scan", "report"}
           /\ best_end' \in [Ordinal -> Nat]
           /\ touched_ordinals' \subseteq Ordinal
           /\ phase' = "scan" => position' \in start..(Len(job.input) - 1)
           /\ cursor' = Uncached
           /\ active' \subseteq job.db.state /\ next' \subseteq job.db.state
           /\ cache_generation' \in 0..(GenerationModulus - 1)
           /\ cache_seen' \in [job.db.state -> Nat]
           /\ UNCHANGED <<job, remaining, start, events, budget>>
           /\ start \in remaining
<1>1. TerminalsOf(job.db, S) \in SUBSET Ordinal
    BY JobFacts, TerminalsAreOrdinals DEF Inv, TypeOK
<1>2. Advance /\ Record(TerminalsOf(job.db, S))
    BY DEF OutcomeUncached
<1>3. /\ position' \in 0..Len(job.input)
      /\ phase' \in {"scan", "report"}
      /\ best_end' \in [Ordinal -> Nat]
      /\ touched_ordinals' \subseteq Ordinal
      /\ phase' = "scan" => position' \in start..(Len(job.input) - 1)
    BY <1>1, <1>2, AdvanceType
<1>4. /\ cache_generation' \in 1..(GenerationModulus - 1)
      /\ cache_seen' \in [job.db.state -> Nat]
    BY ComputeType
<1>5. /\ cursor' = Uncached
      /\ active' \subseteq job.db.state /\ next' \subseteq job.db.state
      /\ UNCHANGED <<job, remaining, start, events, budget>>
      /\ start \in remaining
    BY DEF Inv, TypeOK, OutcomeUncached, Scanning
<1>6. QED
    BY <1>3, <1>4, <1>5, CacheAssumption

\* Re-entering or staying in the cache (TransitionOutcome::Cached).
LEMMA CachedType ==
    ASSUME Inv, Scanning, NEW id \in Nat, id + 1 \in 1..Len(states'),
           states' \in Seq(DeterministicState), OutcomeCached(id)
    PROVE  /\ position' \in 0..Len(job.input)
           /\ phase' \in {"scan", "report"}
           /\ best_end' \in [Ordinal -> Nat]
           /\ touched_ordinals' \subseteq Ordinal
           /\ phase' = "scan" => position' \in start..(Len(job.input) - 1)
           /\ cursor' \in 0..(Len(states') - 1)
           /\ UNCHANGED <<job, remaining, start, events, budget>>
           /\ start \in remaining
<1>1. states'[id + 1] \in DeterministicState
    BY ElementOfSeq
<1>2. states'[id + 1].terminals \in SUBSET Ordinal
    BY <1>1 DEF DeterministicState
<1>3. Advance /\ Record(states'[id + 1].terminals)
    BY DEF OutcomeCached
<1>4. Len(states') \in Nat
    BY LenProperties
<1>5. /\ position' \in 0..Len(job.input)
      /\ phase' \in {"scan", "report"}
      /\ best_end' \in [Ordinal -> Nat]
      /\ touched_ordinals' \subseteq Ordinal
      /\ phase' = "scan" => position' \in start..(Len(job.input) - 1)
    BY <1>2, <1>3, AdvanceType
<1>6. /\ cursor' \in 0..(Len(states') - 1)
      /\ UNCHANGED <<job, remaining, start, events, budget>>
      /\ start \in remaining
    BY <1>4 DEF Inv, TypeOK, OutcomeCached, Scanning
<1>7. QED
    BY <1>5, <1>6

\* Counting hits, misses and fallbacks keeps the metrics numbers (ScanStats).
LEMMA CountType ==
    ASSUME Inv, NEW h \in Nat, NEW m \in Nat, NEW f \in Nat, Count(h, m, f)
    PROVE  metrics' \in [hits : Nat, misses : Nat, fallbacks : Nat]
<1>1. metrics \in [hits : Nat, misses : Nat, fallbacks : Nat]
    BY DEF Inv, TypeOK
<1>2. QED
    BY <1>1 DEF Count

\* The three sentinels are slots of their own: no identifier equals one of them.
LEMMA SlotConstants ==
    /\ FALLBACK_TRANSITION \in Slot /\ DEAD_TRANSITION \in Slot
    /\ UNKNOWN_TRANSITION \in Slot
    /\ FALLBACK_TRANSITION # DEAD_TRANSITION /\ FALLBACK_TRANSITION # UNKNOWN_TRANSITION
    /\ DEAD_TRANSITION # UNKNOWN_TRANSITION
    /\ \A id \in 0..(IdLimit - 1) :
         /\ id \in Slot
         /\ id \notin { FALLBACK_TRANSITION, DEAD_TRANSITION, UNKNOWN_TRANSITION }
BY CacheAssumption DEF FALLBACK_TRANSITION, DEAD_TRANSITION, UNKNOWN_TRANSITION, Slot

\* What a miss does to the table of cached states: `table' is the table, with the
\* new state appended if there is one, and the cursor's slot is set in it.
MissTable(table, slot) ==
    /\ table \in Seq(DeterministicState)
    /\ slot \in Slot
    /\ cursor \in 0..(Len(states) - 1)
    /\ Len(states) <= Len(table)
    /\ \A i \in 1..Len(states) : table[i] = states[i]
    /\ states' = SetTransition(table, slot)

\* Setting a slot after a miss keeps the table well typed and the cursor in it.
LEMMA MissTableType ==
    ASSUME Inv, NEW table, NEW slot, MissTable(table, slot), symbol \in Symbol
    PROVE  /\ states' \in Seq(DeterministicState)
           /\ Len(states') = Len(table)
           /\ cursor \in 0..(Len(states') - 1)
<1>1. Len(states) \in Nat /\ Len(table) \in Nat
    BY LenProperties DEF Inv, TypeOK, MissTable
<1>2. QED
    BY <1>1, SetTransitionType DEF MissTable

\* An interned successor is cached already or takes the next identifier.
LEMMA MissInternedTable ==
    ASSUME Inv, NEW id \in 0..Len(states), MissInterned(id)
    PROVE  \E table :
             /\ MissTable(table, id)
             /\ id + 1 \in 1..Len(table)
             /\ \/ id = Len(states) /\ ~ Full
                  /\ table = Append(states, NewDeterministicState(Computed(Source)))
                  /\ Candidates(Computed(Source)) = {}
                \/ id < Len(states) /\ table = states /\ id \in Candidates(Computed(Source))
<1>1. /\ states \in Seq(DeterministicState) /\ Len(states) \in Nat
      /\ job \in Jobs /\ budget \in Nat
      /\ BudgetRespected
    BY LenProperties, CacheAssumption DEF Inv, TypeOK
<1>2. OnCached /\ cursor \in 0..(Len(states) - 1)
    BY KnownSlotFacts DEF MissInterned
<1>3. Computed(Source) \in SUBSET job.db.state
    BY ComputedIsExact DEF Inv
<1>4. CASE id = Len(states)
    <2>1. id \notin Candidates(Computed(Source))
        BY <1>1, <1>3, <1>4, CandidatesExact
    <2>2. ~ Full /\ Candidates(Computed(Source)) = {}
        BY <2>1 DEF MissInterned, Interned
    <2>3. id \in Slot
        BY <1>1, <1>4, <2>2, SlotConstants, CacheAssumption DEF Full
    <2>4. Append(states, NewDeterministicState(Computed(Source))) \in Seq(DeterministicState)
        BY <1>1, <1>3, NewStateType, AppendProperties
    <2>5. MissTable(Append(states, NewDeterministicState(Computed(Source))), id)
        BY <1>1, <1>2, <1>4, <2>3, <2>4, AppendProperties DEF MissTable, MissInterned
    <2>6. id + 1 \in 1..Len(Append(states, NewDeterministicState(Computed(Source))))
        BY <1>1, <1>4, <1>3, NewStateType, AppendProperties
    <2>7. QED
        BY <1>4, <2>2, <2>5, <2>6
<1>5. CASE id # Len(states)
    <2>1. id \in 0..(Len(states) - 1)
        BY <1>1, <1>5
    <2>2. id \in Slot
        BY <1>1, <2>1, SlotConstants, CacheAssumption DEF BudgetRespected
    <2>3. id \in Candidates(Computed(Source))
        BY <1>5 DEF MissInterned, Interned
    <2>4. MissTable(states, id)
        BY <1>1, <1>2, <1>5, <2>2 DEF MissTable, MissInterned
    <2>5. QED
        BY <1>1, <2>1, <2>3, <2>4
<1>6. QED
    BY <1>4, <1>5

\* Every step keeps the shape of the cache, of Scratch and of the loops.
LEMMA TypePreserved ==
    ASSUME Inv, Next
    PROVE  TypeOK'
<1>t. TypeOK /\ RootIsCached
    BY DEF Inv
<1>0. /\ job.db \in Database(job.db.state) /\ job.input \in Seq(Symbol)
      /\ job.starts \subseteq 0..(Len(job.input) - 1) /\ Len(job.input) \in Nat
    BY <1>t, JobFacts, LenProperties DEF TypeOK
<1>a. job' = job /\ budget' = budget /\ DeterministicState' = DeterministicState
    <2>1. job' = job /\ budget' = budget
        BY DEF Next, SelectStart, FollowKnown, FollowFallback, MissDead, MissInterned,
               MissFallback, StepUncached, Report, Finish, OnCached, Scanning
    <2>2. QED
        BY <2>1 DEF DeterministicState
<1>1. CASE SelectStart
    <2>1. start' \in remaining
        <3>1. remaining \subseteq 0..(Len(job.input) - 1) /\ remaining # {}
            BY <1>t, <1>0, <1>1 DEF TypeOK, SelectStart
        <3>2. QED
            BY <3>1, <1>1, MinIsMember DEF SelectStart
    <2>2. best_end' \in [Ordinal -> Nat]
        BY <1>t, <1>1, RecordType DEF TypeOK, SelectStart
    <2>3. QED
        BY <1>t, <1>0, <1>a, <1>1, <2>1, <2>2, SMTT(20)
           DEF TypeOK, SelectStart, RootIsCached, cacheVars
<1>2. CASE FollowKnown
    <2>0. OnCached
        BY <1>2 DEF FollowKnown
    <2>1. CASE KnownSlot = DEAD_TRANSITION
        BY <1>t, <1>a, <1>2, <2>1, SMTT(20)
           DEF TypeOK, FollowKnown, OnCached, Scanning, OutcomeDead, Count,
               cacheVars, scratchVars, terminalVars
    <2>2. CASE KnownSlot # DEAD_TRANSITION
        <3>1. KnownSlot \in 0..(Len(states) - 1)
            BY <1>2, <2>0, <2>2, KnownSlotFacts DEF FollowKnown
        <3>2. states' = states /\ states[KnownSlot + 1] \in DeterministicState
            BY <1>t, <1>2, <3>1, ElementOfSeq DEF FollowKnown, TypeOK, cacheVars
        <3>3. states'[KnownSlot + 1].terminals \in SUBSET Ordinal
            BY <3>2 DEF DeterministicState
        <3>4. Scanning /\ Advance /\ Record(states'[KnownSlot + 1].terminals)
            BY <1>2, <2>2 DEF FollowKnown, OnCached, OutcomeCached
        <3>5. /\ position' \in 0..Len(job.input)
              /\ phase' \in {"scan", "report"}
              /\ best_end' \in [Ordinal -> Nat]
              /\ touched_ordinals' \subseteq Ordinal
              /\ phase' = "scan" => position' \in start..(Len(job.input) - 1)
            BY <3>3, <3>4, AdvanceType
        <3>6. cursor' \in { Uncached } \cup 0..(Len(states') - 1)
            BY <1>2, <2>2, <3>1, <3>2 DEF FollowKnown, OutcomeCached
        <3>7. metrics' \in [hits : Nat, misses : Nat, fallbacks : Nat]
            BY <1>2, CountType DEF FollowKnown
        <3>8. UNCHANGED <<remaining, start, states, buckets, active, next, cache_seen,
                          cache_generation>> /\ start \in remaining
            BY <1>t, <1>2 DEF TypeOK, FollowKnown, OnCached, Scanning, cacheVars, scratchVars
        <3>9. QED
            BY <1>t, <1>a, <3>5, <3>6, <3>7, <3>8 DEF TypeOK
    <2>3. QED
        BY <2>1, <2>2
<1>3. CASE FollowFallback
    <2>1. OnCached /\ Scanning /\ ComputeTransition(Source)
        BY <1>3 DEF FollowFallback, OnCached
    <2>2. Computed(Source) \in SUBSET job.db.state
        BY ComputedIsExact DEF Inv
    <2>3. OutcomeUncached(Computed(Source)) /\ states' = states /\ buckets' = buckets
        BY <1>3 DEF FollowFallback, cacheVars
    <2>4. metrics' \in [hits : Nat, misses : Nat, fallbacks : Nat]
        BY <1>3, CountType DEF FollowFallback
    <2>5. /\ position' \in 0..Len(job.input)
          /\ phase' \in {"scan", "report"}
          /\ best_end' \in [Ordinal -> Nat]
          /\ touched_ordinals' \subseteq Ordinal
          /\ phase' = "scan" => position' \in start..(Len(job.input) - 1)
          /\ cursor' = Uncached
          /\ active' \subseteq job.db.state /\ next' \subseteq job.db.state
          /\ cache_generation' \in 0..(GenerationModulus - 1)
          /\ cache_seen' \in [job.db.state -> Nat]
          /\ UNCHANGED <<job, remaining, start, events, budget>>
          /\ start \in remaining
        BY <2>1, <2>2, <2>3, UncachedType
    <2>6. QED
        BY <1>t, <1>a, <2>3, <2>4, <2>5 DEF TypeOK
<1>4. CASE MissDead
    <2>1. OnCached /\ Scanning /\ ComputeTransition(Source)
        BY <1>4 DEF MissDead, OnCached
    <2>2. MissTable(states, DEAD_TRANSITION) /\ symbol \in Symbol
        BY <1>t, <1>4, <2>1, SlotConstants, KnownSlotFacts DEF TypeOK, MissDead, MissTable
    <2>3. states' \in Seq(DeterministicState) /\ cursor \in 0..(Len(states') - 1)
        BY <2>2, MissTableType
    <2>4. metrics' \in [hits : Nat, misses : Nat, fallbacks : Nat]
        BY <1>4, CountType DEF MissDead
    <2>5. /\ cache_generation' \in 1..(GenerationModulus - 1)
          /\ cache_seen' \in [job.db.state -> Nat]
        BY <2>1, ComputeType
    <2>6. /\ phase' = "report" /\ next' = {}
          /\ UNCHANGED <<remaining, start, position, cursor, buckets, active, best_end,
                         touched_ordinals>>
        BY <1>4, <2>1 DEF MissDead, Scanning, OutcomeDead, terminalVars
    <2>7. cache_generation' \in 0..(GenerationModulus - 1)
        BY <2>5, CacheAssumption
    <2>8. QED
        BY <1>t, <1>a, <2>3, <2>4, <2>5, <2>6, <2>7 DEF TypeOK
<1>5. ASSUME NEW id \in 0..Len(states), MissInterned(id) PROVE TypeOK'
    <2>1. OnCached /\ Scanning /\ ComputeTransition(Source) /\ symbol \in Symbol
        BY <1>5, KnownSlotFacts DEF MissInterned, OnCached
    <2>2. PICK table : MissTable(table, id) /\ id + 1 \in 1..Len(table)
        BY <1>5, MissInternedTable
    <2>3. states' \in Seq(DeterministicState) /\ id + 1 \in 1..Len(states') /\ id \in Nat
        BY <1>5, <2>1, <2>2, MissTableType
    <2>4. /\ position' \in 0..Len(job.input)
          /\ phase' \in {"scan", "report"}
          /\ best_end' \in [Ordinal -> Nat]
          /\ touched_ordinals' \subseteq Ordinal
          /\ phase' = "scan" => position' \in start..(Len(job.input) - 1)
          /\ cursor' \in 0..(Len(states') - 1)
          /\ UNCHANGED <<job, remaining, start, events, budget>>
          /\ start \in remaining
        BY <1>5, <2>1, <2>3, CachedType DEF MissInterned
    <2>5. metrics' \in [hits : Nat, misses : Nat, fallbacks : Nat]
        <3>1. Count(0, 1, 0)
            BY <1>5 DEF MissInterned
        <3>2. QED
            BY <3>1, CountType
    <2>6. /\ cache_generation' \in 0..(GenerationModulus - 1)
          /\ cache_seen' \in [job.db.state -> Nat]
        <3>1. /\ cache_generation' \in 1..(GenerationModulus - 1)
              /\ cache_seen' \in [job.db.state -> Nat]
            BY <2>1, ComputeType
        <3>2. QED
            BY <3>1, CacheAssumption
    <2>7. next' \subseteq job.db.state /\ active' = active
        BY <1>5, ComputedIsExact DEF MissInterned, Inv
    <2>8. buckets' \in [HashValue -> SUBSET Nat]
        <3>1. buckets \in [HashValue -> SUBSET Nat]
            BY <1>t DEF TypeOK
        <3>2. \/ buckets' = [buckets EXCEPT ![StateSetHash(Computed(Source))] = @ \cup {id}]
              \/ buckets' = buckets
            BY <1>5 DEF MissInterned
        <3>3. QED
            BY <2>3, <3>1, <3>2
    <2>9. /\ job' \in Jobs /\ budget' \in Budgets /\ remaining' \subseteq job'.starts
          /\ start' \in Nat /\ active' \subseteq job'.db.state
          /\ phase' = "scan" => start' \in remaining'
        BY <1>t, <1>a, <2>4, <2>7 DEF TypeOK
    <2>10. cursor' \in { Uncached } \cup 0..(Len(states') - 1)
        BY <2>4
    <2>11. QED
        BY <1>a, <2>3, <2>4, <2>5, <2>6, <2>7, <2>8, <2>9, <2>10, SMTT(20) DEF TypeOK
<1>6. CASE MissFallback
    <2>1. OnCached /\ Scanning /\ ComputeTransition(Source)
        BY <1>6 DEF MissFallback, OnCached
    <2>2. MissTable(states, FALLBACK_TRANSITION) /\ symbol \in Symbol
        BY <1>t, <1>6, <2>1, SlotConstants, KnownSlotFacts DEF TypeOK, MissFallback, MissTable
    <2>3. states' \in Seq(DeterministicState)
        BY <2>2, MissTableType
    <2>4. metrics' \in [hits : Nat, misses : Nat, fallbacks : Nat]
        BY <1>6, CountType DEF MissFallback
    <2>5. Computed(Source) \in SUBSET job.db.state
        BY ComputedIsExact DEF Inv
    <2>6. OutcomeUncached(Computed(Source)) /\ buckets' = buckets
        BY <1>6 DEF MissFallback
    <2>7. /\ position' \in 0..Len(job.input)
          /\ phase' \in {"scan", "report"}
          /\ best_end' \in [Ordinal -> Nat]
          /\ touched_ordinals' \subseteq Ordinal
          /\ phase' = "scan" => position' \in start..(Len(job.input) - 1)
          /\ cursor' = Uncached
          /\ active' \subseteq job.db.state /\ next' \subseteq job.db.state
          /\ cache_generation' \in 0..(GenerationModulus - 1)
          /\ cache_seen' \in [job.db.state -> Nat]
          /\ UNCHANGED <<job, remaining, start, events, budget>>
          /\ start \in remaining
        BY <2>1, <2>5, <2>6, UncachedType
    <2>8. QED
        BY <1>t, <1>a, <2>3, <2>4, <2>6, <2>7 DEF TypeOK
<1>7. CASE StepUncached
    <2>1. Scanning /\ ComputeTransition(active) /\ states' = states /\ buckets' = buckets
        BY <1>7 DEF StepUncached, cacheVars
    <2>2. Computed(active) \in SUBSET job.db.state
        BY ComputedIsExact DEF Inv
    <2>3. metrics' \in [hits : Nat, misses : Nat, fallbacks : Nat]
        BY <1>7, CountType DEF StepUncached
    <2>4. /\ cache_generation' \in 0..(GenerationModulus - 1)
          /\ cache_seen' \in [job.db.state -> Nat]
        BY <2>1, ComputeType, CacheAssumption
    <2>5. CASE OutcomeDead /\ next' = {} /\ UNCHANGED active
        BY <1>t, <1>a, <2>1, <2>3, <2>4, <2>5 DEF TypeOK, Scanning, OutcomeDead, terminalVars
    <2>6. CASE /\ \E id \in Candidates(Computed(active)) : OutcomeCached(id)
               /\ next' = Computed(active) /\ UNCHANGED active
        <3>1. PICK id \in Candidates(Computed(active)) : OutcomeCached(id)
            BY <2>6
        <3>2. id \in Nat /\ id + 1 \in 1..Len(states') /\ states' \in Seq(DeterministicState)
            BY <1>t, <2>1, <2>2, CandidatesExact DEF TypeOK
        <3>3. /\ position' \in 0..Len(job.input)
              /\ phase' \in {"scan", "report"}
              /\ best_end' \in [Ordinal -> Nat]
              /\ touched_ordinals' \subseteq Ordinal
              /\ phase' = "scan" => position' \in start..(Len(job.input) - 1)
              /\ cursor' \in 0..(Len(states') - 1)
              /\ UNCHANGED <<job, remaining, start, events, budget>>
              /\ start \in remaining
            BY <2>1, <3>1, <3>2, CachedType
        <3>4. QED
            BY <1>t, <1>a, <2>1, <2>2, <2>3, <2>4, <2>6, <3>2, <3>3 DEF TypeOK
    <2>7. CASE OutcomeUncached(Computed(active))
        BY <1>t, <1>a, <2>1, <2>2, <2>3, <2>7, UncachedType, SMTT(20) DEF TypeOK
    <2>8. QED
        BY <1>7, <2>5, <2>6, <2>7 DEF StepUncached
<1>8. CASE Report \/ Finish
    BY <1>t, <1>a, <1>8 DEF TypeOK, Report, Finish, cacheVars, scratchVars, terminalVars
<1>9. QED
    BY <1>1, <1>2, <1>3, <1>4, <1>5, <1>6, <1>7, <1>8 DEF Next

-----------------------------------------------------------------------------
(* Every step keeps the cache exact. *)

CacheInv ==
    RootIsCached /\ TerminalsExact /\ BucketsExact /\ BudgetRespected /\ SlotsAreExact

\* The successor the cursor's slot for the current symbol stands for.
SlotSet == ExtendEpsilonClosure(job.db, ConsumingTargets(job.db, Source, symbol), {})

\* A step that leaves the cache alone.
LEMMA CacheUntouched ==
    ASSUME Inv, UNCHANGED <<job, budget, states, buckets>>
    PROVE  CacheInv'
<1>1. job' = job /\ budget' = budget /\ states' = states /\ buckets' = buckets
    OBVIOUS
<1>2. RootIsCached' /\ TerminalsExact' /\ BucketsExact' /\ BudgetRespected'
    BY <1>1 DEF Inv, RootIsCached, TerminalsExact, BucketsExact, BudgetRespected
<1>3. SlotsAreExact'
    BY <1>1 DEF Inv, SlotsAreExact, Delta, Full
<1>4. QED
    BY <1>2, <1>3 DEF CacheInv

\* Filling the cursor's slot truthfully, with no state added.
LEMMA SlotFilled ==
    ASSUME Inv, OnCached, UNCHANGED <<job, budget, buckets>>,
           NEW slot, MissTable(states, slot),
           slot < IdLimit =>
              SlotSet # {} /\ slot + 1 \in 1..Len(states) /\ states[slot + 1].nfa_states = SlotSet,
           slot = DEAD_TRANSITION => SlotSet = {},
           slot = FALLBACK_TRANSITION =>
              SlotSet # {} /\ Full /\ \A k \in 1..Len(states) : states[k].nfa_states # SlotSet
    PROVE  CacheInv'
<1>1. /\ states \in Seq(DeterministicState) /\ Len(states) \in Nat /\ symbol \in Symbol
      /\ cursor \in 0..(Len(states) - 1)
    BY KnownSlotFacts, LenProperties DEF Inv, TypeOK
<1>2. /\ states' \in Seq(DeterministicState)
      /\ Len(states') = Len(states)
      /\ \A i \in 1..Len(states) :
           /\ states'[i].nfa_states = states[i].nfa_states
           /\ states'[i].terminals = states[i].terminals
           /\ \A a \in Symbol :
                states'[i].transitions[a] =
                   IF i = cursor + 1 /\ a = symbol THEN slot ELSE states[i].transitions[a]
    BY <1>1, SetTransitionType DEF MissTable
<1>3. RootIsCached'
    BY <1>1, <1>2 DEF Inv, RootIsCached
<1>4. TerminalsExact'
    BY <1>2 DEF Inv, TerminalsExact
<1>5. BucketsExact'
    BY <1>2 DEF Inv, BucketsExact
<1>6. BudgetRespected'
    BY <1>2 DEF Inv, BudgetRespected
<1>7. SlotsAreExact'
    <2>1. DOMAIN states = 1..Len(states) /\ DOMAIN states' = 1..Len(states)
        BY <1>1, <1>2, LenProperties
    <2>2. \A i \in 1..Len(states), a \in Symbol : Delta(i, a)' = Delta(i, a)
        BY <1>2 DEF Delta
    <2>3. Full' = Full
        BY <1>2 DEF Full
    <2>4. Delta(cursor + 1, symbol) = SlotSet
        BY DEF Delta, SlotSet, Source
    <2>5. SUFFICES ASSUME NEW i \in 1..Len(states), NEW a \in Symbol
          PROVE  LET new == states'[i].transitions[a]
                 IN  /\ new < IdLimit =>
                           /\ Delta(i, a) # {}
                           /\ new < Len(states)
                           /\ states'[new + 1].nfa_states = Delta(i, a)
                     /\ new = DEAD_TRANSITION => Delta(i, a) = {}
                     /\ new = FALLBACK_TRANSITION =>
                           /\ Delta(i, a) # {}
                           /\ Full
                           /\ \A k \in 1..Len(states) : states'[k].nfa_states # Delta(i, a)
        BY <1>2, <2>1, <2>2, <2>3, CacheAssumption DEF SlotsAreExact, DEAD_TRANSITION, FALLBACK_TRANSITION
    <2>6. CASE i = cursor + 1 /\ a = symbol
        <3>1. states'[i].transitions[a] = slot /\ Delta(i, a) = SlotSet
            BY <1>2, <2>4, <2>6
        <3>2. slot < IdLimit => /\ SlotSet # {}
                                /\ slot < Len(states)
                                /\ states'[slot + 1].nfa_states = SlotSet
            BY <1>1, <1>2, SlotConstants, CacheAssumption DEF MissTable, Slot
        <3>3. QED
            BY <1>2, <3>1, <3>2
    <2>7. CASE ~ (i = cursor + 1 /\ a = symbol)
        <3>1. states'[i].transitions[a] = states[i].transitions[a]
            BY <1>2, <2>7
        <3>2. states[i].transitions[a] \in Slot
            <4>1. states[i] \in DeterministicState
                BY <1>1, ElementOfSeq
            <4>2. QED
                BY <4>1 DEF DeterministicState
        <3>3. states[i].transitions[a] < Len(states)
                => states[i].transitions[a] + 1 \in 1..Len(states)
            BY <1>1, <3>2, CacheAssumption DEF Slot
        <3>4. QED
            BY <1>2, <2>1, <3>1, <3>3 DEF Inv, SlotsAreExact
    <2>8. QED
        BY <2>6, <2>7
<1>8. QED
    BY <1>3, <1>4, <1>5, <1>6, <1>7 DEF CacheInv

\* A set without candidates is not cached.
LEMMA NoCandidateNotCached ==
    ASSUME Inv, NEW S \in SUBSET job.db.state, Candidates(S) = {}
    PROVE  \A k \in 1..Len(states) : states[k].nfa_states # S
<1>1. ASSUME NEW k \in 1..Len(states), states[k].nfa_states = S PROVE FALSE
    BY <1>1, CandidatesExact
<1>2. QED
    BY <1>1

\* A new state joins the cache under the next identifier.
LEMMA StateInterned ==
    ASSUME Inv, OnCached, UNCHANGED <<job, budget>>, ~ Full,
           NEW S \in SUBSET job.db.state, S = SlotSet, S # {}, Candidates(S) = {},
           MissTable(Append(states, NewDeterministicState(S)), Len(states)),
           buckets' = [buckets EXCEPT ![StateSetHash(S)] = @ \cup { Len(states) }]
    PROVE  CacheInv'
<1> DEFINE id == Len(states)
           table == Append(states, NewDeterministicState(S))
<1>1. /\ states \in Seq(DeterministicState) /\ id \in Nat /\ symbol \in Symbol
      /\ cursor \in 0..(id - 1) /\ job \in Jobs /\ budget \in Nat
      /\ buckets \in [HashValue -> SUBSET Nat]
    BY KnownSlotFacts, LenProperties, CacheAssumption DEF Inv, TypeOK
<1>2. /\ table \in Seq(DeterministicState)
      /\ Len(table) = id + 1
      /\ \A i \in 1..id : table[i] = states[i]
      /\ table[id + 1] = NewDeterministicState(S)
    BY <1>1, NewStateType, AppendProperties
<1>3. /\ states' \in Seq(DeterministicState)
      /\ Len(states') = id + 1
      /\ \A i \in 1..(id + 1) :
           /\ states'[i].nfa_states = table[i].nfa_states
           /\ states'[i].terminals = table[i].terminals
           /\ \A a \in Symbol :
                states'[i].transitions[a] =
                   IF i = cursor + 1 /\ a = symbol THEN id ELSE table[i].transitions[a]
    <2>1. /\ cursor \in Nat /\ cursor < Len(table) /\ id \in Slot
          /\ states' = SetTransition(table, id)
        BY <1>1, <1>2 DEF MissTable
    <2> HIDE DEF table, id
    <2>2. /\ SetTransition(table, id) \in Seq(DeterministicState)
          /\ Len(SetTransition(table, id)) = Len(table)
          /\ \A i \in 1..Len(table) :
               /\ SetTransition(table, id)[i].nfa_states = table[i].nfa_states
               /\ SetTransition(table, id)[i].terminals = table[i].terminals
               /\ \A a \in Symbol :
                    SetTransition(table, id)[i].transitions[a] =
                       IF i = cursor + 1 /\ a = symbol THEN id
                       ELSE table[i].transitions[a]
        BY <1>1, <1>2, <2>1, SetTransitionType
    <2>3. QED
        BY <1>2, <2>1, <2>2
<1>4. /\ states'[id + 1].nfa_states = S
      /\ states'[id + 1].terminals = TerminalsOf(job.db, S)
      /\ \A a \in Symbol : states'[id + 1].transitions[a] = UNKNOWN_TRANSITION
    BY <1>1, <1>2, <1>3 DEF NewDeterministicState
<1>5. /\ \A i \in 1..id : /\ states'[i].nfa_states = states[i].nfa_states
                          /\ states'[i].terminals = states[i].terminals
    BY <1>1, <1>2, <1>3
<1>6. RootIsCached'
    BY <1>1, <1>3, <1>5 DEF Inv, RootIsCached
<1>7. TerminalsExact'
    <2>1. \A i \in 1..id : states'[i].terminals = TerminalsOf(job.db, states'[i].nfa_states)
        BY <1>1, <1>5 DEF Inv, TerminalsExact
    <2>2. states'[id + 1].terminals = TerminalsOf(job.db, states'[id + 1].nfa_states)
        BY <1>4
    <2>3. \A i \in 1..(id + 1) : i \in 1..id \/ i = id + 1
        BY <1>1
    <2>4. job' = job /\ Len(states') = id + 1
        BY <1>3
    <2> HIDE DEF id
    <2>5. QED
        BY <2>1, <2>2, <2>3, <2>4 DEF TerminalsExact
<1>8. \A i \in 1..id : states[i].nfa_states # S
    BY NoCandidateNotCached
<1>9. BucketsExact'
    <2>1. StateSetHash(S) \in HashValue
        BY <1>1, CacheAssumption
    <2>2. \A h \in HashValue :
            buckets'[h] = IF h = StateSetHash(S) THEN buckets[h] \cup { id } ELSE buckets[h]
        BY <1>1, <2>1
    <2>3. \A h \in HashValue : \A k \in buckets'[h] : k + 1 \in 1..Len(states')
        BY <1>1, <1>3, <2>2 DEF Inv, BucketsExact
    <2>4. \A i \in 1..Len(states') : i - 1 \in buckets'[StateSetHash(states'[i].nfa_states)]
        <3>1. ASSUME NEW i \in 1..id
              PROVE  i - 1 \in buckets'[StateSetHash(states'[i].nfa_states)]
            <4>1. states[i] \in DeterministicState
                BY <1>1, ElementOfSeq
            <4>2. StateSetHash(states[i].nfa_states) \in HashValue
                BY <1>1, <4>1, CacheAssumption DEF DeterministicState
            <4>3. i - 1 \in buckets[StateSetHash(states[i].nfa_states)]
                BY DEF Inv, BucketsExact
            <4>4. QED
                BY <1>5, <2>2, <4>2, <4>3
        <3>2. id \in buckets'[StateSetHash(states'[id + 1].nfa_states)]
            <4>1. id \in buckets'[StateSetHash(S)]
                BY <2>1, <2>2
            <4>2. states'[id + 1].nfa_states = S
                BY <1>4
            <4>3. QED
                BY <4>1, <4>2
        <3>3. QED
            BY <1>1, <1>3, <3>1, <3>2
    <2>5. \A i, j \in 1..Len(states') :
            states'[i].nfa_states = states'[j].nfa_states => i = j
        BY <1>1, <1>3, <1>4, <1>5, <1>8 DEF Inv, BucketsExact
    <2>6. QED
        BY <2>3, <2>4, <2>5 DEF BucketsExact
<1>10. BudgetRespected'
    BY <1>1, <1>3, CacheAssumption DEF Full, BudgetRespected
<1>11. SlotsAreExact'
    <2>1. DOMAIN states = 1..id /\ DOMAIN states' = 1..(id + 1)
        BY <1>1, <1>3, LenProperties
    <2>2. \A i \in 1..id, a \in Symbol : Delta(i, a)' = Delta(i, a)
        BY <1>5 DEF Delta
    <2>3. Delta(cursor + 1, symbol) = S
        BY DEF Delta, SlotSet, Source
    <2>4. SUFFICES ASSUME NEW i \in 1..(id + 1), NEW a \in Symbol
          PROVE  LET new == states'[i].transitions[a]
                 IN  /\ new < IdLimit =>
                           /\ Delta(i, a)' # {}
                           /\ new < id + 1
                           /\ states'[new + 1].nfa_states = Delta(i, a)'
                     /\ new = DEAD_TRANSITION => Delta(i, a)' = {}
                     /\ new # FALLBACK_TRANSITION
        BY <1>3, <2>1 DEF SlotsAreExact, DEAD_TRANSITION, FALLBACK_TRANSITION
    <2>5. CASE i = id + 1
        <3>1. states'[i].transitions[a] = UNKNOWN_TRANSITION
            BY <1>4, <2>5
        <3>2. QED
            BY <3>1, SlotConstants, CacheAssumption
               DEF UNKNOWN_TRANSITION
    <2>6. CASE i = cursor + 1 /\ a = symbol
        <3>1. states'[i].transitions[a] = id /\ Delta(i, a)' = S
            BY <1>1, <1>3, <2>2, <2>3, <2>6
        <3>2. id < IdLimit /\ id \notin { FALLBACK_TRANSITION, DEAD_TRANSITION }
            BY <1>1, SlotConstants, CacheAssumption DEF Full
        <3>3. QED
            BY <1>1, <1>4, <3>1, <3>2
    <2>7. CASE i # id + 1 /\ ~ (i = cursor + 1 /\ a = symbol)
        <3>1. i \in 1..id /\ states'[i].transitions[a] = states[i].transitions[a]
            BY <1>1, <1>2, <1>3, <2>7
        <3>2. states[i].transitions[a] \in Slot
            <4>1. states[i] \in DeterministicState
                BY <1>1, <3>1, ElementOfSeq
            <4>2. QED
                BY <4>1 DEF DeterministicState
        <3>3. states[i].transitions[a] # FALLBACK_TRANSITION
            BY <2>1, <3>1 DEF Inv, SlotsAreExact
        <3>4. states[i].transitions[a] < IdLimit =>
                 /\ Delta(i, a) # {}
                 /\ states[i].transitions[a] + 1 \in 1..id
                 /\ states[states[i].transitions[a] + 1].nfa_states = Delta(i, a)
            BY <1>1, <2>1, <3>1, <3>2, CacheAssumption, SMTT(20) DEF Inv, SlotsAreExact, Slot
        <3>5. states[i].transitions[a] = DEAD_TRANSITION => Delta(i, a) = {}
            BY <2>1, <3>1 DEF Inv, SlotsAreExact
        <3>6. Delta(i, a)' = Delta(i, a)
            BY <2>2, <3>1
        <3>7. ASSUME states[i].transitions[a] < IdLimit
              PROVE  /\ states[i].transitions[a] < id + 1
                     /\ states'[states[i].transitions[a] + 1].nfa_states = Delta(i, a)
            <4>1. states[i].transitions[a] + 1 \in 1..id
                BY <3>4, <3>7
            <4>2. states[i].transitions[a] < id + 1
                <5>1. id \in Nat /\ states[i].transitions[a] \in Nat
                    BY <1>1, <3>2, CacheAssumption DEF Slot
                <5>2. QED
                    BY <4>1, <5>1
            <4>3. states'[states[i].transitions[a] + 1].nfa_states
                    = states[states[i].transitions[a] + 1].nfa_states
                BY <1>5, <4>1
            <4>4. QED
                BY <3>4, <3>7, <4>2, <4>3
        <3>8. QED
            BY <3>1, <3>3, <3>4, <3>5, <3>6, <3>7
    <2>8. QED
        BY <2>5, <2>6, <2>7
<1>12. QED
    BY <1>6, <1>7, <1>9, <1>10, <1>11 DEF CacheInv

\* A miss computes the set its slot stands for.
LEMMA MissComputesSlotSet ==
    ASSUME Inv
    PROVE  /\ Computed(Source) = SlotSet
           /\ Computed(Source) \in SUBSET job.db.state
BY ComputedIsExact DEF Inv, SlotSet

\* Every step keeps the cache exact: its size, its identifiers and its slots.
LEMMA CachePreserved ==
    ASSUME Inv, Next
    PROVE  CacheInv'
<1>t. /\ states \in Seq(DeterministicState) /\ Len(states) \in Nat
      /\ cursor \in { Uncached } \cup 0..(Len(states) - 1)
    BY LenProperties DEF Inv, TypeOK
<1>1. CASE SelectStart \/ Report \/ Finish
    BY <1>1, CacheUntouched DEF SelectStart, Report, Finish, cacheVars
<1>2. CASE FollowKnown \/ FollowFallback \/ StepUncached
    BY <1>2, CacheUntouched
       DEF FollowKnown, FollowFallback, StepUncached, OnCached, Scanning, cacheVars
<1>3. CASE MissDead
    <2>1. OnCached /\ UNCHANGED <<job, budget, buckets>> /\ Computed(Source) = {}
        BY <1>3 DEF MissDead, OnCached, Scanning
    <2>2. MissTable(states, DEAD_TRANSITION)
        BY <1>t, <1>3, <2>1, SlotConstants, KnownSlotFacts DEF MissDead, MissTable
    <2>3. SlotSet = {} /\ ~ (DEAD_TRANSITION < IdLimit)
        BY <2>1, MissComputesSlotSet, CacheAssumption DEF DEAD_TRANSITION
    <2>4. QED
        BY <2>1, <2>2, <2>3, SlotConstants, SlotFilled
<1>4. ASSUME NEW id \in 0..Len(states), MissInterned(id) PROVE CacheInv'
    <2>1. OnCached /\ UNCHANGED <<job, budget>>
        BY <1>4 DEF MissInterned, OnCached, Scanning
    <2>2. PICK table :
             /\ MissTable(table, id)
             /\ id + 1 \in 1..Len(table)
             /\ \/ id = Len(states) /\ ~ Full
                  /\ table = Append(states, NewDeterministicState(Computed(Source)))
                  /\ Candidates(Computed(Source)) = {}
                \/ id < Len(states) /\ table = states /\ id \in Candidates(Computed(Source))
        BY <1>4, MissInternedTable
    <2>3. /\ Computed(Source) = SlotSet /\ Computed(Source) \in SUBSET job.db.state
          /\ Computed(Source) # {}
        BY <1>4, MissComputesSlotSet DEF MissInterned
    <2>4. CASE id = Len(states)
        <3>1. /\ ~ Full /\ Candidates(Computed(Source)) = {}
              /\ table = Append(states, NewDeterministicState(Computed(Source)))
              /\ MissTable(table, Len(states))
            BY <1>t, <2>2, <2>4
        <3>2. buckets' = [buckets EXCEPT ![StateSetHash(Computed(Source))]
                            = @ \cup { Len(states) }]
            BY <1>4, <2>4 DEF MissInterned
        <3>3. MissTable(Append(states, NewDeterministicState(Computed(Source))), Len(states))
            BY <3>1
        <3>4. QED
            BY <2>1, <2>3, <3>1, <3>2, <3>3, StateInterned
    <2>5. CASE id < Len(states)
        <3>1. MissTable(states, id) /\ id \in Candidates(Computed(Source))
            BY <1>t, <2>2, <2>5
        <3>2. buckets' = buckets
            BY <1>t, <1>4, <2>5 DEF MissInterned
        <3>3. id + 1 \in 1..Len(states) /\ states[id + 1].nfa_states = SlotSet
            BY <1>t, <2>3, <2>5, <3>1, CandidatesExact
        <3>4. id \in 0..(IdLimit - 1)
            BY <1>t, <2>5, CacheAssumption DEF Inv, BudgetRespected
        <3>5. id # DEAD_TRANSITION /\ id # FALLBACK_TRANSITION
            BY <3>4, SlotConstants
        <3>6. QED
            BY <2>1, <2>3, <3>1, <3>2, <3>3, <3>5, SlotFilled
    <2>6. QED
        BY <1>t, <2>4, <2>5
<1>5. CASE MissFallback
    <2>1. /\ OnCached /\ UNCHANGED <<job, budget, buckets>>
          /\ Computed(Source) # {} /\ Interned(Computed(Source)) = {}
        BY <1>5 DEF MissFallback, OnCached, Scanning
    <2>2. MissTable(states, FALLBACK_TRANSITION)
        BY <1>t, <1>5, <2>1, SlotConstants, KnownSlotFacts DEF MissFallback, MissTable
    <2>3. Full /\ Candidates(Computed(Source)) = {}
        BY <2>1 DEF Interned
    <2>4. /\ SlotSet # {} /\ ~ (FALLBACK_TRANSITION < IdLimit)
          /\ \A k \in 1..Len(states) : states[k].nfa_states # SlotSet
        BY <2>1, <2>3, MissComputesSlotSet, NoCandidateNotCached, CacheAssumption
           DEF FALLBACK_TRANSITION
    <2>5. QED
        BY <2>1, <2>2, <2>3, <2>4, SlotConstants, SlotFilled
<1>6. QED
    BY <1>1, <1>2, <1>3, <1>4, <1>5 DEF Next

-----------------------------------------------------------------------------
(* Every step keeps the scratch space consistent with the cache. *)

\* Recording at a position past the first unit marks what it touches.
LEMMA RecordCovers ==
    ASSUME Inv, phase = "scan", NEW ordinals \in SUBSET Ordinal, Record(ordinals)
    PROVE  TouchedCoversEnds'
<1>1. position \in Nat
    BY JobFacts, LenProperties DEF Inv, TypeOK
<1>2. best_end' = [o \in Ordinal |-> IF o \in ordinals THEN position + 1 ELSE best_end[o]]
    BY DEF Record, RecordTerminals
<1>3. touched_ordinals' = touched_ordinals \cup ordinals
    BY DEF Record
<1>4. QED
    BY <1>1, <1>2, <1>3 DEF Inv, TouchedCoversEnds, NoEnd

\* Both ways of continuing a scan record the terminals of a set of states.
LEMMA CachedRecords ==
    ASSUME Inv, OnCached \/ Scanning, NEW id \in Nat, id + 1 \in 1..Len(states'),
           states' \in Seq(DeterministicState), job' = job, OutcomeCached(id)
    PROVE  TouchedCoversEnds'
<1>1. states'[id + 1] \in DeterministicState
    BY ElementOfSeq
<1>2. states'[id + 1].terminals \in SUBSET Ordinal
    BY <1>1 DEF DeterministicState
<1>3. phase = "scan"
    BY DEF OnCached, Scanning
<1>4. Record(states'[id + 1].terminals)
    BY DEF OutcomeCached
<1>5. QED
    BY <1>2, <1>3, <1>4, RecordCovers

\* Recording the ordinals of an uncached set keeps touched_ordinals complete.
LEMMA UncachedRecords ==
    ASSUME Inv, OnCached \/ Scanning, NEW S \in SUBSET job.db.state, OutcomeUncached(S)
    PROVE  TouchedCoversEnds'
<1>1. TerminalsOf(job.db, S) \in SUBSET Ordinal
    BY JobFacts, TerminalsAreOrdinals DEF Inv, TypeOK
<1>2. phase = "scan" /\ Record(TerminalsOf(job.db, S))
    BY DEF OnCached, Scanning, OutcomeUncached
<1>3. QED
    BY <1>1, <1>2, RecordCovers

\* Where a cached outcome leaves the cursor.
LEMMA InternedIdentifier ==
    ASSUME Inv, NEW id \in 0..Len(states), MissInterned(id)
    PROVE  /\ id \in Nat /\ id + 1 \in 1..Len(states')
           /\ states' \in Seq(DeterministicState)
<1>1. symbol \in Symbol
    BY KnownSlotFacts DEF MissInterned
<1>2. PICK table : MissTable(table, id) /\ id + 1 \in 1..Len(table)
    BY MissInternedTable
<1>3. states' \in Seq(DeterministicState) /\ Len(states') = Len(table)
    BY <1>1, <1>2, MissTableType
<1>4. Len(states) \in Nat
    BY LenProperties DEF Inv, TypeOK
<1>5. QED
    BY <1>2, <1>3, <1>4

\* Every step keeps touched_ordinals the list of the ordinals with an end.
LEMMA TouchedPreserved ==
    ASSUME Inv, Next
    PROVE  TouchedCoversEnds'
<1>t. /\ states \in Seq(DeterministicState) /\ Len(states) \in Nat /\ job \in Jobs
      /\ best_end \in [Ordinal -> Nat]
    BY LenProperties DEF Inv, TypeOK
<1>1. CASE SelectStart
    <2>1. /\ touched_ordinals' = {}
          /\ best_end' = [o \in Ordinal |-> IF o \in touched_ordinals THEN NoEnd ELSE best_end[o]]
        BY <1>1 DEF SelectStart, ResetTerminals
    <2>2. QED
        BY <2>1 DEF Inv, TouchedCoversEnds
<1>2. CASE FollowKnown
    <2>1. OnCached /\ states' = states /\ job' = job
        BY <1>2 DEF FollowKnown, cacheVars, OnCached, Scanning
    <2>2. CASE KnownSlot = DEAD_TRANSITION
        BY <1>2, <2>2 DEF FollowKnown, OutcomeDead, terminalVars, Inv, TouchedCoversEnds
    <2>3. CASE KnownSlot # DEAD_TRANSITION
        <3>1. OutcomeCached(KnownSlot) /\ KnownSlot \in 0..(Len(states) - 1)
            BY <1>2, <2>1, <2>3, KnownSlotFacts DEF FollowKnown
        <3>2. KnownSlot \in Nat /\ KnownSlot + 1 \in 1..Len(states')
            BY <1>t, <2>1, <3>1
        <3>3. QED
            BY <1>t, <2>1, <3>1, <3>2, CachedRecords
    <2>4. QED
        BY <2>2, <2>3
<1>3. CASE FollowFallback \/ MissFallback
    <2>1. OnCached /\ OutcomeUncached(Computed(Source))
        BY <1>3 DEF FollowFallback, MissFallback
    <2>2. QED
        BY <2>1, MissComputesSlotSet, UncachedRecords
<1>4. CASE MissDead
    BY <1>4 DEF MissDead, OutcomeDead, terminalVars, Inv, TouchedCoversEnds
<1>5. ASSUME NEW id \in 0..Len(states), MissInterned(id) PROVE TouchedCoversEnds'
    <2>1. OnCached /\ job' = job /\ OutcomeCached(id)
        BY <1>5 DEF MissInterned, OnCached, Scanning
    <2>2. id \in Nat /\ id + 1 \in 1..Len(states') /\ states' \in Seq(DeterministicState)
        BY <1>5, InternedIdentifier
    <2>3. QED
        BY <2>1, <2>2, CachedRecords
<1>6. CASE StepUncached
    <2>1. Scanning /\ states' = states /\ job' = job
        BY <1>6 DEF StepUncached, cacheVars, Scanning
    <2>2. Computed(active) \in SUBSET job.db.state
        BY ComputedIsExact DEF Inv
    <2>3. CASE OutcomeDead
        BY <2>3 DEF OutcomeDead, terminalVars, Inv, TouchedCoversEnds
    <2>4. ASSUME NEW id \in Candidates(Computed(active)), OutcomeCached(id)
          PROVE  TouchedCoversEnds'
        <3>1. id \in Nat /\ id + 1 \in 1..Len(states')
            BY <1>t, <2>1, <2>2, CandidatesExact
        <3>2. QED
            BY <1>t, <2>1, <2>4, <3>1, CachedRecords
    <2>5. CASE OutcomeUncached(Computed(active))
        BY <2>1, <2>2, <2>5, UncachedRecords
    <2>6. QED
        BY <1>6, <2>3, <2>4, <2>5 DEF StepUncached
<1>7. CASE Report \/ Finish
    BY <1>7 DEF Report, Finish, terminalVars, Inv, TouchedCoversEnds
<1>8. QED
    BY <1>1, <1>2, <1>3, <1>4, <1>5, <1>6, <1>7 DEF Next

\* Every step keeps all stamps at or below the current generation.
LEMMA StampsPreserved ==
    ASSUME Inv, Next
    PROVE  StampsBounded'
<1>1. CASE \/ SelectStart \/ FollowKnown \/ Report \/ Finish
    <2>1. UNCHANGED <<job, cache_seen, cache_generation>>
        BY <1>1 DEF SelectStart, FollowKnown, Report, Finish, OnCached, Scanning, scratchVars
    <2>2. QED
        BY <2>1 DEF Inv, StampsBounded
<1>2. ASSUME NEW source, ComputeTransition(source), job' = job PROVE StampsBounded'
    BY <1>2, ComputeType DEF StampsBounded
<1>3. CASE FollowFallback \/ MissDead \/ MissFallback
    BY <1>2, <1>3 DEF FollowFallback, MissDead, MissFallback, OnCached, Scanning
<1>4. CASE StepUncached
    BY <1>2, <1>4 DEF StepUncached, Scanning
<1>5. ASSUME NEW id \in 0..Len(states), MissInterned(id) PROVE StampsBounded'
    BY <1>2, <1>5 DEF MissInterned, OnCached, Scanning
<1>6. QED
    BY <1>1, <1>3, <1>4, <1>5 DEF Next

\* Every step leaves the scan off the cache only with a set a full cache refused.
LEMMA PressurePreserved ==
    ASSUME Inv, Next
    PROVE  UncachedOnlyUnderPressure'
<1>t. /\ states \in Seq(DeterministicState) /\ Len(states) \in Nat
      /\ DOMAIN states = 1..Len(states)
      /\ cursor \in { Uncached } \cup 0..(Len(states) - 1)
    BY LenProperties DEF Inv, TypeOK
<1>n. \A id \in Nat : id # Uncached
    BY DEF Uncached
<1>1. CASE SelectStart \/ Report \/ Finish \/ MissDead
    BY <1>1, <1>n DEF SelectStart, Report, Finish, MissDead, OutcomeDead,
                      UncachedOnlyUnderPressure
<1>2. CASE FollowKnown
    <2>1. CASE KnownSlot = DEAD_TRANSITION
        BY <1>2, <2>1 DEF FollowKnown, OutcomeDead, UncachedOnlyUnderPressure
    <2>2. CASE KnownSlot # DEAD_TRANSITION
        <3>1. OnCached /\ OutcomeCached(KnownSlot) /\ KnownSlot \in 0..(Len(states) - 1)
            BY <1>2, <2>2, KnownSlotFacts DEF FollowKnown
        <3>2. cursor' # Uncached
            BY <1>t, <1>n, <3>1 DEF OutcomeCached
        <3>3. QED
            BY <3>2 DEF UncachedOnlyUnderPressure
    <2>3. QED
        BY <2>1, <2>2
<1>3. ASSUME NEW id \in Nat, OutcomeCached(id) PROVE UncachedOnlyUnderPressure'
    BY <1>3, <1>n DEF OutcomeCached, UncachedOnlyUnderPressure
<1>4. ASSUME NEW id \in 0..Len(states), MissInterned(id) PROVE UncachedOnlyUnderPressure'
    BY <1>3, <1>4, InternedIdentifier DEF MissInterned
<1>5. CASE FollowFallback
    <2>1. /\ OnCached /\ UNCHANGED <<budget, states>> /\ KnownSlot = FALLBACK_TRANSITION
          /\ active' = Computed(Source)
        BY <1>5 DEF FollowFallback, OutcomeUncached, cacheVars, OnCached, Scanning
    <2>2. cursor + 1 \in DOMAIN states /\ symbol \in Symbol
        BY <1>t, <2>1, KnownSlotFacts
    <2>3. Delta(cursor + 1, symbol) = Computed(Source)
        BY MissComputesSlotSet DEF Delta, SlotSet, Source
    <2>4. /\ Computed(Source) # {} /\ Full
          /\ \A k \in DOMAIN states : states[k].nfa_states # Computed(Source)
        BY <2>1, <2>2, <2>3 DEF Inv, SlotsAreExact, KnownSlot
    <2>5. QED
        BY <2>1, <2>4 DEF UncachedOnlyUnderPressure, Full
<1>6. CASE MissFallback
    <2>1. /\ OnCached /\ UNCHANGED budget
          /\ Computed(Source) # {} /\ Full /\ Candidates(Computed(Source)) = {}
          /\ active' = Computed(Source)
          /\ states' = SetTransition(states, FALLBACK_TRANSITION)
        BY <1>6 DEF MissFallback, OutcomeUncached, OnCached, Scanning, Interned
    <2>2. /\ cursor \in 0..(Len(states) - 1) /\ symbol \in Symbol
        BY <2>1, KnownSlotFacts
    <2>3. /\ states' \in Seq(DeterministicState)
          /\ Len(states') = Len(states)
          /\ \A i \in 1..Len(states) : states'[i].nfa_states = states[i].nfa_states
        <3>1. cursor \in Nat /\ cursor < Len(states) /\ FALLBACK_TRANSITION \in Slot
            BY <1>t, <2>2, SlotConstants
        <3>2. /\ SetTransition(states, FALLBACK_TRANSITION) \in Seq(DeterministicState)
              /\ Len(SetTransition(states, FALLBACK_TRANSITION)) = Len(states)
              /\ \A i \in 1..Len(states) :
                   SetTransition(states, FALLBACK_TRANSITION)[i].nfa_states
                      = states[i].nfa_states
            BY <1>t, <2>2, <3>1, SetTransitionType
        <3>3. QED
            BY <2>1, <3>2
    <2>4. \A k \in 1..Len(states) : states[k].nfa_states # Computed(Source)
        BY <2>1, MissComputesSlotSet, NoCandidateNotCached
    <2>5. DOMAIN states' = 1..Len(states)
        BY <2>3, LenProperties
    <2>6. QED
        BY <2>1, <2>3, <2>4, <2>5 DEF UncachedOnlyUnderPressure, Full
<1>7. CASE StepUncached
    <2>1. /\ Scanning /\ UNCHANGED <<budget, states>> /\ cursor = Uncached
        BY <1>7 DEF StepUncached, cacheVars, Scanning
    <2>2. Computed(active) \in SUBSET job.db.state
        BY ComputedIsExact DEF Inv
    <2>3. CASE OutcomeDead
        BY <2>3 DEF OutcomeDead, UncachedOnlyUnderPressure
    <2>4. ASSUME NEW id \in Candidates(Computed(active)), OutcomeCached(id)
          PROVE  UncachedOnlyUnderPressure'
        <3>1. id \in Nat
            BY <1>t, <2>2, CandidatesExact
        <3>2. QED
            BY <1>3, <2>4, <3>1
    <2>5. CASE /\ Computed(active) # {} /\ Candidates(Computed(active)) = {}
               /\ OutcomeUncached(Computed(active))
        <3>1. active' = Computed(active)
            BY <2>5 DEF OutcomeUncached
        <3>2. Full
            BY <2>1 DEF Inv, UncachedOnlyUnderPressure, Scanning
        <3>3. \A k \in 1..Len(states) : states[k].nfa_states # Computed(active)
            BY <2>2, <2>5, NoCandidateNotCached
        <3>4. QED
            BY <1>t, <2>1, <2>5, <3>1, <3>2, <3>3 DEF UncachedOnlyUnderPressure, Full
    <2>6. QED
        BY <1>7, <2>3, <2>4, <2>5 DEF StepUncached
<1>8. QED
    BY <1>1, <1>2, <1>4, <1>5, <1>6, <1>7 DEF Next

-----------------------------------------------------------------------------
(* The invariant holds at first and is inductive. *)

\* DeterministicCache::new establishes the invariant.
LEMMA InitInv == Init => Inv
<1> SUFFICES ASSUME Init PROVE Inv
    OBVIOUS
<1> DEFINE root == ExtendEpsilonClosure(job.db, { job.root }, {})
<1>1. /\ job \in Jobs /\ budget \in Budgets /\ budget \in Nat \ {0}
      /\ states = << NewDeterministicState(root) >>
      /\ buckets = [h \in HashValue |-> IF h = StateSetHash(root) THEN {0} ELSE {}]
    BY CacheAssumption DEF Init
<1>2. root \in SUBSET job.db.state
    BY ClosureInStates
<1>3. NewDeterministicState(root) \in DeterministicState
    BY <1>1, <1>2, NewStateType
<1> HIDE DEF root
<1>4. /\ states \in Seq(DeterministicState) /\ Len(states) = 1
      /\ DOMAIN states = {1}
      /\ states[1] = NewDeterministicState(root)
    BY <1>1, <1>3
<1>5. Len(job.input) \in Nat
    BY <1>1, JobFacts, LenProperties
<1>6. TypeOK
    BY <1>1, <1>4, <1>5, CacheAssumption DEF Init, TypeOK, NoEnd, Uncached
<1>7. /\ states[1].nfa_states = root
      /\ states[1].terminals = TerminalsOf(job.db, root)
      /\ \A a \in Symbol : states[1].transitions[a] = UNKNOWN_TRANSITION
    BY <1>4 DEF NewDeterministicState
<1>8. RootIsCached
    BY <1>4, <1>7 DEF RootIsCached, root
<1>9. TerminalsExact
    <2>1. 1..Len(states) = {1}
        BY <1>4
    <2>2. QED
        BY <1>7, <2>1 DEF TerminalsExact
<1>10. BucketsExact
    <2>1. StateSetHash(root) \in HashValue /\ 1..Len(states) = {1}
        BY <1>1, <1>2, <1>4, CacheAssumption
    <2>2. QED
        BY <1>1, <1>7, <2>1 DEF BucketsExact
<1>11. BudgetRespected
    BY <1>1, <1>4, CacheAssumption DEF BudgetRespected
<1>12. SlotsAreExact
    <2>1. \A i \in DOMAIN states, a \in Symbol :
             states[i].transitions[a] = UNKNOWN_TRANSITION
        BY <1>4, <1>7
    <2>2. ~ (UNKNOWN_TRANSITION < IdLimit)
        BY CacheAssumption DEF UNKNOWN_TRANSITION
    <2>3. QED
        BY <2>1, <2>2, SlotConstants DEF SlotsAreExact
<1>13. StampsBounded /\ UncachedOnlyUnderPressure /\ TouchedCoversEnds
    BY DEF Init, StampsBounded, UncachedOnlyUnderPressure, TouchedCoversEnds
<1>14. QED
    BY <1>6, <1>8, <1>9, <1>10, <1>11, <1>12, <1>13 DEF Inv

\* A step that changes nothing keeps the invariant.
LEMMA InvStutters ==
    ASSUME Inv, UNCHANGED cachedVars
    PROVE  Inv'
<1>1. UNCHANGED <<job, remaining, phase, start, position, events, budget, cursor, states,
                  buckets, active, next, best_end, touched_ordinals, cache_seen,
                  cache_generation, metrics>>
    BY DEF cachedVars, cacheVars, scratchVars, terminalVars
<1>2. DeterministicState' = DeterministicState
    BY <1>1 DEF DeterministicState
<1>3. TypeOK'
    BY <1>1, <1>2 DEF Inv, TypeOK
<1>4. CacheInv'
    BY <1>1, CacheUntouched
<1>5. StampsBounded' /\ UncachedOnlyUnderPressure' /\ TouchedCoversEnds'
    BY <1>1 DEF Inv, StampsBounded, UncachedOnlyUnderPressure, TouchedCoversEnds, Full
<1>6. QED
    BY <1>3, <1>4, <1>5 DEF Inv, CacheInv

\* The invariant is inductive.
LEMMA InvInductive == Inv /\ [Next]_cachedVars => Inv'
<1> SUFFICES ASSUME Inv, [Next]_cachedVars PROVE Inv'
    OBVIOUS
<1>1. CASE Next
    <2>1. TypeOK' /\ StampsBounded' /\ UncachedOnlyUnderPressure' /\ TouchedCoversEnds'
        BY <1>1, TypePreserved, StampsPreserved, PressurePreserved, TouchedPreserved
    <2>2. CacheInv'
        BY <1>1, CachePreserved
    <2>3. QED
        BY <2>1, <2>2 DEF Inv, CacheInv
<1>2. CASE UNCHANGED cachedVars
    BY <1>2, InvStutters
<1>3. QED
    BY <1>1, <1>2

\* The invariant holds of every scan.
LEMMA InvHolds == Spec => []Inv
BY InitInv, InvInductive, PTL DEF Spec

-----------------------------------------------------------------------------
(* What every execution of the cached engine keeps. *)

\* Every variable keeps its type, the stamps and the cursor their ranges.
THEOREM TypeCorrect == Spec => []TypeOK
<1>1. Inv => TypeOK
    BY DEF Inv
<1>2. QED
    BY <1>1, InvHolds, PTL

\* The cache never outgrows its budget, nor its identifiers the sentinels.
THEOREM BudgetIsRespected == Spec => []BudgetRespected
<1>1. Inv => BudgetRespected
    BY DEF Inv
<1>2. QED
    BY <1>1, InvHolds, PTL

\* A filled slot always tells the truth: the exact successor, the empty one, or
\* one the full cache does not hold (DeterministicCache::transition).
THEOREM SlotsStayExact == Spec => []SlotsAreExact
<1>1. Inv => SlotsAreExact
    BY DEF Inv
<1>2. QED
    BY <1>1, InvHolds, PTL

\* Looking a cached set up finds its one identifier, whatever the hash function
\* does (DeterministicCache::lookup).
THEOREM LookupStaysExact == Spec => []LookupIsExact
<1>1. ASSUME Inv PROVE LookupIsExact
    <2>1. SUFFICES ASSUME NEW i \in 1..Len(states)
                   PROVE  Candidates(states[i].nfa_states) = { i - 1 }
        BY <1>1, LenProperties DEF LookupIsExact, Inv, TypeOK
    <2>2. states[i] \in DeterministicState
        BY <1>1, ElementOfSeq DEF Inv, TypeOK
    <2>3. states[i].nfa_states \in SUBSET job.db.state
        BY <2>2 DEF DeterministicState
    <2>4. QED
        BY <1>1, <2>3, CandidatesExact
<1>2. QED
    BY <1>1, InvHolds, PTL

\* No stamp of an earlier transition, from before or after a wrap of the counter,
\* passes for a mark of the next one (Scratch::reset_cached_transition).
THEOREM StampsNeverStale == Spec => []NoStaleStamp
<1>1. Inv => NoStaleStamp
    BY FreshStamps DEF Inv, NoStaleStamp
<1>2. QED
    BY <1>1, InvHolds, PTL

\* The scan leaves the cache only for a nonempty set the full cache lacks.
THEOREM PressureOnly == Spec => []UncachedOnlyUnderPressure
<1>1. Inv => UncachedOnlyUnderPressure
    BY DEF Inv
<1>2. QED
    BY <1>1, InvHolds, PTL

\* Resetting the touched ordinals resets every end (Scratch::reset_terminals).
THEOREM TouchedAlwaysCovers == Spec => []TouchedCoversEnds
<1>1. Inv => TouchedCoversEnds
    BY DEF Inv
<1>2. QED
    BY <1>1, InvHolds, PTL

\* A step that fills one slot of an unchanged or extended table evicts nothing.
LEMMA MissEvictsNothing ==
    ASSUME Inv, NEW table, NEW slot, MissTable(table, slot), symbol \in Symbol,
           KnownSlot = UNKNOWN_TRANSITION
    PROVE  NoEvictionStep
<1>1. /\ states \in Seq(DeterministicState) /\ Len(states) \in Nat /\ Len(table) \in Nat
      /\ DOMAIN states = 1..Len(states)
    BY LenProperties DEF Inv, TypeOK, MissTable
<1>2. /\ Len(states') = Len(table)
      /\ \A i \in 1..Len(table) :
           /\ states'[i].nfa_states = table[i].nfa_states
           /\ \A a \in Symbol :
                states'[i].transitions[a] =
                   IF i = cursor + 1 /\ a = symbol THEN slot ELSE table[i].transitions[a]
    BY <1>1, SetTransitionType DEF MissTable
<1>3. SUFFICES ASSUME NEW i \in 1..Len(states)
               PROVE  /\ states'[i].nfa_states = states[i].nfa_states
                      /\ \A a \in Symbol :
                           states[i].transitions[a] # UNKNOWN_TRANSITION =>
                              states'[i].transitions[a] = states[i].transitions[a]
    BY <1>1, <1>2 DEF NoEvictionStep, MissTable
<1>4. i \in 1..Len(table) /\ table[i] = states[i]
    BY <1>1 DEF MissTable
<1>5. QED
    BY <1>2, <1>4 DEF KnownSlot

\* An unchanged cache evicts nothing.
LEMMA SameEvictsNothing ==
    ASSUME Inv, states' = states
    PROVE  NoEvictionStep
<1>1. Len(states) \in Nat
    BY LenProperties DEF Inv, TypeOK
<1>2. QED
    BY <1>1 DEF NoEvictionStep

\* No step ever removes a cached set, renames it, or rewrites a filled slot
\* (docs/adr/0005-lazy-determinization.md: the cache only grows).
THEOREM NothingEvicted == Spec => NoEviction
<1>1. ASSUME Inv, Next PROVE NoEvictionStep
    <2>t. states \in Seq(DeterministicState) /\ Len(states) \in Nat
        BY <1>1, LenProperties DEF Inv, TypeOK
    <2>1. CASE \/ SelectStart \/ FollowKnown \/ FollowFallback \/ StepUncached
               \/ Report \/ Finish
        <3>1. states' = states
            BY <2>1 DEF SelectStart, FollowKnown, FollowFallback, StepUncached, Report,
                        Finish, cacheVars
        <3>2. QED
            BY <1>1, <3>1, SameEvictsNothing
    <2>2. CASE MissDead
        <3>1. OnCached /\ KnownSlot = UNKNOWN_TRANSITION
            BY <2>2 DEF MissDead
        <3>2. MissTable(states, DEAD_TRANSITION) /\ symbol \in Symbol
            BY <1>1, <2>t, <2>2, <3>1, SlotConstants, KnownSlotFacts DEF MissDead, MissTable
        <3>3. QED
            BY <1>1, <3>1, <3>2, MissEvictsNothing
    <2>3. ASSUME NEW id \in 0..Len(states), MissInterned(id) PROVE NoEvictionStep
        <3>1. OnCached /\ KnownSlot = UNKNOWN_TRANSITION
            BY <2>3 DEF MissInterned
        <3>2. symbol \in Symbol
            BY <1>1, <3>1, KnownSlotFacts
        <3>3. PICK table : MissTable(table, id)
            BY <1>1, <2>3, MissInternedTable
        <3>4. QED
            BY <1>1, <3>1, <3>2, <3>3, MissEvictsNothing
    <2>4. CASE MissFallback
        <3>1. OnCached /\ KnownSlot = UNKNOWN_TRANSITION
            BY <2>4 DEF MissFallback
        <3>2. MissTable(states, FALLBACK_TRANSITION) /\ symbol \in Symbol
            BY <1>1, <2>t, <2>4, <3>1, SlotConstants, KnownSlotFacts DEF MissFallback, MissTable
        <3>3. QED
            BY <1>1, <3>1, <3>2, MissEvictsNothing
    <2>5. QED
        BY <1>1, <2>1, <2>2, <2>3, <2>4 DEF Next
<1>2. ASSUME Inv, [Next]_cachedVars PROVE [NoEvictionStep]_cachedVars
    BY <1>1, <1>2
<1>3. QED
    BY <1>2, InvHolds, PTL DEF Spec, NoEviction

-----------------------------------------------------------------------------
(* The counters of misses and fallbacks tell of the cache. *)

\* A miss fills its slot and no other, also when its successor joins the cache.
LEMMA MissFillsOne ==
    ASSUME Inv, NEW table, NEW slot, MissTable(table, slot), symbol \in Symbol,
           KnownSlot = UNKNOWN_TRANSITION, slot # UNKNOWN_TRANSITION,
           \A i \in 1..Len(table) : i > Len(states) =>
              \A a \in Symbol : table[i].transitions[a] = UNKNOWN_TRANSITION
    PROVE  /\ << cursor + 1, symbol >> \notin Filled
           /\ Filled' = Filled \cup { << cursor + 1, symbol >> }
           /\ states'[cursor + 1].transitions[symbol] = slot
           /\ \A p \in Filled :
                states'[p[1]].transitions[p[2]] = states[p[1]].transitions[p[2]]
<1>1. /\ states \in Seq(DeterministicState) /\ Len(states) \in Nat /\ Len(table) \in Nat
      /\ DOMAIN states = 1..Len(states) /\ Len(states) <= Len(table)
      /\ cursor \in 0..(Len(states) - 1) /\ cursor + 1 \in 1..Len(states)
    BY LenProperties DEF Inv, TypeOK, MissTable
<1>2. /\ states' \in Seq(DeterministicState)
      /\ Len(states') = Len(table)
      /\ \A i \in 1..Len(table) : \A a \in Symbol :
            states'[i].transitions[a] =
               IF i = cursor + 1 /\ a = symbol THEN slot ELSE table[i].transitions[a]
    BY <1>1, SetTransitionType DEF MissTable
<1>3. DOMAIN states' = 1..Len(table)
    BY <1>2, LenProperties
<1>4. \A i \in 1..Len(states) : i \in 1..Len(table) /\ table[i] = states[i]
    BY <1>1 DEF MissTable
<1>5. \A i \in 1..Len(table) : \A a \in Symbol :
         states'[i].transitions[a] =
            IF i = cursor + 1 /\ a = symbol THEN slot
            ELSE IF i \in 1..Len(states) THEN states[i].transitions[a] ELSE UNKNOWN_TRANSITION
    <2>1. SUFFICES ASSUME NEW i \in 1..Len(table), NEW a \in Symbol
                   PROVE  states'[i].transitions[a] =
                             IF i = cursor + 1 /\ a = symbol THEN slot
                             ELSE IF i \in 1..Len(states) THEN states[i].transitions[a]
                             ELSE UNKNOWN_TRANSITION
        OBVIOUS
    <2>2. i \in 1..Len(states) \/ i > Len(states)
        BY <1>1
    <2>3. QED
        BY <1>2, <1>4, <2>2
<1>6. << cursor + 1, symbol >> \notin Filled
    BY DEF Filled, KnownSlot
<1>7. ASSUME NEW p \in Filled
      PROVE  states'[p[1]].transitions[p[2]] = states[p[1]].transitions[p[2]]
    <2>1. /\ p = << p[1], p[2] >> /\ p[1] \in 1..Len(states) /\ p[2] \in Symbol
          /\ p # << cursor + 1, symbol >>
        BY <1>1, <1>6, <1>7 DEF Filled
    <2>2. ~ (p[1] = cursor + 1 /\ p[2] = symbol)
        BY <2>1
    <2>3. QED
        BY <1>4, <1>5, <2>1, <2>2
<1>8. Filled' = { p \in (1..Len(table)) \X Symbol :
                    states'[p[1]].transitions[p[2]] # UNKNOWN_TRANSITION }
    BY <1>3 DEF Filled, UNKNOWN_TRANSITION
<1>9. ASSUME NEW p \in Filled' PROVE p \in Filled \cup { << cursor + 1, symbol >> }
    <2>1. /\ p \in (1..Len(table)) \X Symbol
          /\ states'[p[1]].transitions[p[2]] # UNKNOWN_TRANSITION
        BY <1>8, <1>9
    <2>2. p = << p[1], p[2] >> /\ p[1] \in 1..Len(table) /\ p[2] \in Symbol
        BY <2>1
    <2>3. CASE p[1] = cursor + 1 /\ p[2] = symbol
        BY <2>2, <2>3
    <2>4. CASE ~ (p[1] = cursor + 1 /\ p[2] = symbol)
        <3>1. p[1] \in 1..Len(states) /\ states[p[1]].transitions[p[2]] # UNKNOWN_TRANSITION
            BY <1>5, <2>1, <2>2, <2>4
        <3>2. << p[1], p[2] >> \in Filled
            BY <1>1, <2>2, <3>1 DEF Filled
        <3>3. QED
            BY <2>2, <3>2
    <2>5. QED
        BY <2>3, <2>4
<1>10. ASSUME NEW p \in Filled \cup { << cursor + 1, symbol >> } PROVE p \in Filled'
    <2>1. CASE p \in Filled
        <3>1. /\ p \in (1..Len(states)) \X Symbol
              /\ states[p[1]].transitions[p[2]] # UNKNOWN_TRANSITION
            BY <1>1, <2>1 DEF Filled
        <3>2. p \in (1..Len(table)) \X Symbol
            BY <1>1, <3>1
        <3>3. QED
            BY <1>7, <1>8, <2>1, <3>1, <3>2
    <2>2. CASE p = << cursor + 1, symbol >>
        <3>1. cursor + 1 \in 1..Len(table)
            BY <1>1
        <3>2. QED
            BY <1>5, <1>8, <2>2, <3>1
    <2>3. QED
        BY <1>10, <2>1, <2>2
<1>11. states'[cursor + 1].transitions[symbol] = slot
    BY <1>1, <1>5
<1>12. Filled' = Filled \cup { << cursor + 1, symbol >> }
    BY <1>9, <1>10
<1>13. QED
    BY <1>6, <1>7, <1>11, <1>12

\* Nothing is computed without a count once a set was carried off the cache.
CountersInv ==
    /\ IsFiniteSet(Filled)
    /\ PressureIsReported
    /\ phase = "scan" /\ cursor = Uncached => metrics.fallbacks > 0

\* What a miss that counts itself, and a fallback when it fell back, keeps.
LEMMA MissCounted ==
    ASSUME Inv, CountersInv, NEW table, NEW slot, MissTable(table, slot), symbol \in Symbol,
           KnownSlot = UNKNOWN_TRANSITION, slot # UNKNOWN_TRANSITION,
           \A i \in 1..Len(table) : i > Len(states) =>
              \A a \in Symbol : table[i].transitions[a] = UNKNOWN_TRANSITION,
           Count(0, 1, IF slot = FALLBACK_TRANSITION THEN 1 ELSE 0)
    PROVE  IsFiniteSet(Filled') /\ PressureIsReported'
<1> DEFINE new == << cursor + 1, symbol >>
<1>1. /\ new \notin Filled /\ Filled' = Filled \cup { new }
      /\ states'[cursor + 1].transitions[symbol] = slot
      /\ \A p \in Filled : states'[p[1]].transitions[p[2]] = states[p[1]].transitions[p[2]]
    BY MissFillsOne
<1>2. /\ metrics.misses \in Nat /\ metrics.fallbacks \in Nat
      /\ metrics'.misses = metrics.misses + 1
      /\ metrics'.fallbacks =
            metrics.fallbacks + (IF slot = FALLBACK_TRANSITION THEN 1 ELSE 0)
    BY DEF Count, Inv, TypeOK
<1>3. IsFiniteSet(Filled) /\ metrics.misses = Cardinality(Filled)
    BY DEF CountersInv, PressureIsReported
<1>4. IsFiniteSet(Filled') /\ Cardinality(Filled') = Cardinality(Filled) + 1
    <2> HIDE DEF new
    <2>1. QED
        BY <1>1, <1>3, FS_AddElement
<1>5. (\E p \in Filled' : states'[p[1]].transitions[p[2]] = FALLBACK_TRANSITION)
        <=> \/ slot = FALLBACK_TRANSITION
            \/ \E p \in Filled : states[p[1]].transitions[p[2]] = FALLBACK_TRANSITION
    <2>1. ASSUME NEW p \in Filled', states'[p[1]].transitions[p[2]] = FALLBACK_TRANSITION
          PROVE  \/ slot = FALLBACK_TRANSITION
                 \/ \E q \in Filled : states[q[1]].transitions[q[2]] = FALLBACK_TRANSITION
        <3>1. CASE p \in Filled
            BY <1>1, <2>1, <3>1
        <3>2. CASE p = new
            BY <1>1, <2>1, <3>2
        <3>3. QED
            BY <1>1, <2>1, <3>1, <3>2
    <2>2. ASSUME slot = FALLBACK_TRANSITION
          PROVE  \E p \in Filled' : states'[p[1]].transitions[p[2]] = FALLBACK_TRANSITION
        <3>1. new \in Filled' /\ states'[new[1]].transitions[new[2]] = FALLBACK_TRANSITION
            BY <1>1, <2>2
        <3>2. QED
            BY <3>1
    <2>3. ASSUME NEW p \in Filled, states[p[1]].transitions[p[2]] = FALLBACK_TRANSITION
          PROVE  \E q \in Filled' : states'[q[1]].transitions[q[2]] = FALLBACK_TRANSITION
        BY <1>1, <2>3
    <2>4. QED
        BY <2>1, <2>2, <2>3
<1>6. FALLBACK_TRANSITION' = FALLBACK_TRANSITION
    BY DEF FALLBACK_TRANSITION
<1>7. metrics.fallbacks > 0 <=>
         \E p \in Filled : states[p[1]].transitions[p[2]] = FALLBACK_TRANSITION
    BY DEF CountersInv, PressureIsReported
<1>8. metrics'.fallbacks > 0 <=>
         \E p \in Filled' : states'[p[1]].transitions[p[2]] = FALLBACK_TRANSITION
    <2> DEFINE before == \E p \in Filled : states[p[1]].transitions[p[2]] = FALLBACK_TRANSITION
    <2>1. metrics'.fallbacks > 0 <=> slot = FALLBACK_TRANSITION \/ before
        <3>1. metrics.fallbacks > 0 <=> before
            BY <1>7
        <3> HIDE DEF before
        <3>2. QED
            BY <1>2, <3>1
    <2>2. QED
        BY <1>5, <2>1, Zenon
<1>9. QED
    BY <1>2, <1>3, <1>4, <1>6, <1>8 DEF PressureIsReported

\* A step that fills no slot and counts a fallback only after one was stored.
LEMMA NothingFilled ==
    ASSUME CountersInv, states' = states, metrics'.misses = metrics.misses,
           metrics'.fallbacks > 0 <=> metrics.fallbacks > 0
    PROVE  IsFiniteSet(Filled') /\ PressureIsReported'
<1>1. Filled' = Filled /\ FALLBACK_TRANSITION' = FALLBACK_TRANSITION
    BY DEF Filled, UNKNOWN_TRANSITION, FALLBACK_TRANSITION
<1>2. QED
    BY <1>1 DEF CountersInv, PressureIsReported

\* Initially no slot is filled and nothing is counted.
LEMMA CountersInit == Init => CountersInv
<1> SUFFICES ASSUME Init PROVE CountersInv
    OBVIOUS
<1>1. DOMAIN states = {1} /\ \A a \in Symbol : states[1].transitions[a] = UNKNOWN_TRANSITION
    BY DEF Init, NewDeterministicState
<1>2. Filled = {}
    BY <1>1 DEF Filled
<1>3. metrics.misses = 0 /\ metrics.fallbacks = 0 /\ phase = "select"
    BY DEF Init
<1>4. QED
    BY <1>2, <1>3, FS_EmptySet DEF CountersInv, PressureIsReported

\* Every step keeps the counters true.
LEMMA CountersKept ==
    ASSUME Inv, CountersInv, Next
    PROVE  CountersInv'
<1>t. /\ states \in Seq(DeterministicState) /\ Len(states) \in Nat
      /\ metrics.misses \in Nat /\ metrics.fallbacks \in Nat
      /\ cursor \in { Uncached } \cup 0..(Len(states) - 1)
    BY LenProperties DEF Inv, TypeOK
<1>n. \A id \in Nat : id # Uncached
    BY DEF Uncached
<1>1. CASE SelectStart \/ Report \/ Finish
    <2>2. states' = states /\ metrics' = metrics
        BY <1>1 DEF SelectStart, Report, Finish, cacheVars
    <2>3. phase' = "scan" => cursor' = 0
        BY <1>1 DEF SelectStart, Report, Finish
    <2>4. IsFiniteSet(Filled') /\ PressureIsReported'
        BY <2>2, NothingFilled
    <2>5. QED
        BY <1>n, <2>3, <2>4 DEF CountersInv
<1>2. CASE FollowKnown
    <2>1. /\ states' = states /\ metrics'.misses = metrics.misses
          /\ metrics'.fallbacks = metrics.fallbacks
        BY <1>2, <1>t DEF FollowKnown, Count, cacheVars
    <2>2. IsFiniteSet(Filled') /\ PressureIsReported'
        BY <2>1, NothingFilled
    <2>3. phase' = "scan" => cursor' # Uncached
        <3>1. CASE KnownSlot = DEAD_TRANSITION
            BY <1>2, <3>1 DEF FollowKnown, OutcomeDead
        <3>2. CASE KnownSlot # DEAD_TRANSITION
            <4>1. OnCached /\ OutcomeCached(KnownSlot) /\ KnownSlot \in 0..(Len(states) - 1)
                BY <1>2, <3>2, KnownSlotFacts DEF FollowKnown
            <4>2. QED
                BY <1>t, <1>n, <4>1 DEF OutcomeCached
        <3>3. QED
            BY <3>1, <3>2
    <2>4. QED
        BY <2>2, <2>3 DEF CountersInv
<1>3. CASE FollowFallback
    <2>1. OnCached /\ KnownSlot = FALLBACK_TRANSITION
        BY <1>3 DEF FollowFallback
    <2>2. /\ states' = states /\ metrics'.misses = metrics.misses
          /\ metrics'.fallbacks = metrics.fallbacks + 1
        BY <1>3, <1>t DEF FollowFallback, Count, cacheVars
    <2>3. cursor + 1 \in DOMAIN states /\ symbol \in Symbol
        <3>1. cursor \in 0..(Len(states) - 1) /\ symbol \in Symbol
            BY <2>1, KnownSlotFacts
        <3>2. QED
            BY <1>t, <3>1, LenProperties
    <2>4. << cursor + 1, symbol >> \in Filled
        BY <2>1, <2>3, SlotConstants DEF Filled, KnownSlot
    <2>5. metrics.fallbacks > 0
        BY <2>1, <2>4 DEF KnownSlot, CountersInv, PressureIsReported
    <2>6. metrics'.fallbacks > 0
        BY <1>t, <2>2
    <2>7. IsFiniteSet(Filled') /\ PressureIsReported'
        BY <2>2, <2>5, <2>6, NothingFilled
    <2>8. QED
        BY <2>6, <2>7 DEF CountersInv
<1>4. CASE MissDead
    <2>1. OnCached /\ KnownSlot = UNKNOWN_TRANSITION
        BY <1>4 DEF MissDead
    <2>2. MissTable(states, DEAD_TRANSITION) /\ symbol \in Symbol
        BY <1>t, <1>4, <2>1, SlotConstants, KnownSlotFacts DEF MissDead, MissTable
    <2>3. Count(0, 1, IF DEAD_TRANSITION = FALLBACK_TRANSITION THEN 1 ELSE 0)
        BY <1>4, SlotConstants DEF MissDead
    <2>4. DEAD_TRANSITION # UNKNOWN_TRANSITION
        BY SlotConstants
    <2>5. \A i \in 1..Len(states) : i > Len(states) =>
             \A a \in Symbol : states[i].transitions[a] = UNKNOWN_TRANSITION
        BY <1>t
    <2>6. IsFiniteSet(Filled') /\ PressureIsReported'
        BY <2>1, <2>2, <2>3, <2>4, <2>5, MissCounted
    <2>7. QED
        BY <1>4, <2>6 DEF MissDead, OutcomeDead, CountersInv
<1>5. ASSUME NEW id \in 0..Len(states), MissInterned(id) PROVE CountersInv'
    <2>1. OnCached /\ KnownSlot = UNKNOWN_TRANSITION
        BY <1>5 DEF MissInterned
    <2>2. PICK table :
             /\ MissTable(table, id)
             /\ id + 1 \in 1..Len(table)
             /\ \/ id = Len(states) /\ ~ Full
                  /\ table = Append(states, NewDeterministicState(Computed(Source)))
                  /\ Candidates(Computed(Source)) = {}
                \/ id < Len(states) /\ table = states /\ id \in Candidates(Computed(Source))
        BY <1>5, MissInternedTable
    <2>3. id \in 0..(IdLimit - 1)
        BY <1>t, <2>2, CacheAssumption DEF Full, Inv, BudgetRespected
    <2>4. id # UNKNOWN_TRANSITION /\ id # FALLBACK_TRANSITION /\ symbol \in Symbol
        BY <2>1, <2>3, SlotConstants, KnownSlotFacts
    <2>5. \A i \in 1..Len(table) : i > Len(states) =>
             \A a \in Symbol : table[i].transitions[a] = UNKNOWN_TRANSITION
        <3>1. CASE table = states
            BY <1>t, <3>1
        <3>2. CASE table = Append(states, NewDeterministicState(Computed(Source)))
            <4> DEFINE new == NewDeterministicState(Computed(Source))
            <4>1. \A a \in Symbol : new.transitions[a] = UNKNOWN_TRANSITION
                BY DEF NewDeterministicState
            <4>2. Computed(Source) \in SUBSET job.db.state /\ job \in Jobs
                BY ComputedIsExact DEF Inv, TypeOK
            <4>3. new \in DeterministicState
                BY <4>2, NewStateType
            <4> HIDE DEF new
            <4>4. table = Append(states, new)
                BY <3>2 DEF new
            <4>5. Len(table) = Len(states) + 1 /\ table[Len(states) + 1] = new
                BY <1>t, <4>3, <4>4, AppendProperties
            <4>6. ASSUME NEW i \in 1..Len(table), i > Len(states)
                  PROVE  \A a \in Symbol : table[i].transitions[a] = UNKNOWN_TRANSITION
                <5>1. i = Len(states) + 1
                    BY <1>t, <4>5, <4>6
                <5>2. QED
                    BY <4>1, <4>5, <5>1
            <4>7. QED
                BY <4>6
        <3>3. QED
            BY <2>2, <3>1, <3>2
    <2>6. Count(0, 1, IF id = FALLBACK_TRANSITION THEN 1 ELSE 0)
        BY <1>5, <2>4 DEF MissInterned
    <2>7. IsFiniteSet(Filled') /\ PressureIsReported'
        BY <2>1, <2>2, <2>4, <2>5, <2>6, MissCounted
    <2>8. cursor' # Uncached
        BY <1>5, <1>n DEF MissInterned, OutcomeCached
    <2>9. QED
        BY <2>7, <2>8 DEF CountersInv
<1>6. CASE MissFallback
    <2>1. OnCached /\ KnownSlot = UNKNOWN_TRANSITION
        BY <1>6 DEF MissFallback
    <2>2. MissTable(states, FALLBACK_TRANSITION) /\ symbol \in Symbol
        BY <1>t, <1>6, <2>1, SlotConstants, KnownSlotFacts DEF MissFallback, MissTable
    <2>3. Count(0, 1, IF FALLBACK_TRANSITION = FALLBACK_TRANSITION THEN 1 ELSE 0)
        BY <1>6 DEF MissFallback
    <2>4. FALLBACK_TRANSITION # UNKNOWN_TRANSITION
        BY SlotConstants
    <2>5. \A i \in 1..Len(states) : i > Len(states) =>
             \A a \in Symbol : states[i].transitions[a] = UNKNOWN_TRANSITION
        BY <1>t
    <2>6. IsFiniteSet(Filled') /\ PressureIsReported'
        BY <2>1, <2>2, <2>3, <2>4, <2>5, MissCounted
    <2>7. metrics'.fallbacks > 0
        BY <1>6, <1>t DEF MissFallback, Count
    <2>8. QED
        BY <2>6, <2>7 DEF CountersInv
<1>7. CASE StepUncached
    <2>1. /\ states' = states /\ metrics'.misses = metrics.misses
          /\ metrics'.fallbacks = metrics.fallbacks + 1
        BY <1>7, <1>t DEF StepUncached, Count, cacheVars
    <2>2. metrics.fallbacks > 0
        BY <1>7 DEF StepUncached, Scanning, CountersInv
    <2>3. metrics'.fallbacks > 0
        BY <1>t, <2>1
    <2>4. IsFiniteSet(Filled') /\ PressureIsReported'
        BY <2>1, <2>2, <2>3, NothingFilled
    <2>5. QED
        BY <2>3, <2>4 DEF CountersInv
<1>8. QED
    BY <1>1, <1>2, <1>3, <1>4, <1>5, <1>6, <1>7 DEF Next

\* Every miss has filled one slot of its own, and a fallback has been counted exactly when
\* some successor did not fit into the cache (ScanStats of rustmatch/src/engine.rs).
THEOREM CountersTellOfTheCache == Spec => []PressureIsReported
<1>1. ASSUME CountersInv, UNCHANGED cachedVars PROVE CountersInv'
    <2>1. states' = states /\ metrics' = metrics /\ phase' = phase /\ cursor' = cursor
        BY <1>1 DEF cachedVars, cacheVars
    <2>2. IsFiniteSet(Filled') /\ PressureIsReported'
        BY <1>1, <2>1, NothingFilled
    <2>3. QED
        BY <1>1, <2>1, <2>2 DEF CountersInv
<1>2. Inv /\ CountersInv /\ [Next]_cachedVars => CountersInv'
    BY <1>1, CountersKept
<1>3. CountersInv => PressureIsReported
    BY DEF CountersInv
<1>4. QED
    BY <1>2, <1>3, CountersInit, InvHolds, PTL DEF Spec

-----------------------------------------------------------------------------
(* What the cached engine delivers is what the exact scan delivers: every   *)
(* step of CachedScan is a step of Scan in which the live set is the set    *)
(* the cursor stands for.                                                   *)

\* Exact is instantiated with this module's own constants, so each of its operators is
\* the operator of the same name here: the closure,
LEMMA SameClosure ==
    \A db, seeds, visited :
        Exact!ExtendEpsilonClosure(db, seeds, visited) = ExtendEpsilonClosure(db, seeds, visited)
BY DEF Exact!ExtendEpsilonClosure, ExtendEpsilonClosure, Exact!ExtendClosure, ExtendClosure

\* the targets of the consuming edges,
LEMMA SameTargets ==
    \A db, source, a : Exact!ConsumingTargets(db, source, a) = ConsumingTargets(db, source, a)
BY DEF Exact!ConsumingTargets, ConsumingTargets

\* the ordinals a state set accepts,
LEMMA SameTerminals ==
    \A db, S : Exact!TerminalsOf(db, S) = TerminalsOf(db, S)
BY DEF Exact!TerminalsOf, TerminalsOf

\* what recording an end does,
LEMMA SameRecord ==
    \A best, ordinals, end :
        Exact!RecordTerminals(best, ordinals, end) = RecordTerminals(best, ordinals, end)
BY DEF Exact!RecordTerminals, RecordTerminals

\* the events of a start,
LEMMA SameEvents ==
    \A s, best, touched : Exact!EventsOf(s, best, touched) = EventsOf(s, best, touched)
BY DEF Exact!EventsOf, EventsOf, Exact!Ascending, Ascending, Exact!Cardinality, Cardinality

\* and the choice of the next start.
LEMMA SameMin == \A S : Exact!Min(S) = Min(S)
BY DEF Exact!Min, Min

-----------------------------------------------------------------------------
(* Steps. *)

\* The successor of the exact scan, for a job without assertions.
LEMMA ExactSuccessor ==
    ASSUME Inv, NEW source
    PROVE  Exact!Successor(source) = Computed(source)
<1>1. ~ job.uses_assertions
    BY JobFacts DEF Inv, TypeOK
<1>2. Exact!Successor(source)
        = ExtendEpsilonClosure(job.db, ConsumingTargets(job.db, source, symbol), {})
    BY <1>1, SameClosure, SameTargets DEF Exact!Successor, Exact!Closure, symbol
<1>3. QED
    BY <1>2, ComputedIsExact DEF Inv

\* What the cursor stands for during a scan.
LEMMA RepresentedNow ==
    ASSUME phase = "scan"
    PROVE  /\ cursor = Uncached => Represented = active
           /\ cursor # Uncached => Represented = Source
BY DEF Represented, Source

\* Dying at a unit is a step of the exact scan.
LEMMA DeadStep ==
    ASSUME Inv, Scanning, OutcomeDead, Exact!Successor(Represented) = {}
    PROVE  Exact!Die
<1>1. phase = "scan" /\ UNCHANGED <<job, remaining, start, events>>
    BY DEF Scanning
<1>2. phase' = "report" /\ UNCHANGED <<position, best_end>>
    BY DEF OutcomeDead, terminalVars
<1>3. Represented' = {}
    BY <1>2 DEF Represented
<1>4. QED
    BY <1>1, <1>2, <1>3 DEF Exact!Die

\* Consuming a unit into a nonempty set S, with the terminals of S recorded, is a
\* step of the exact scan when the new cursor stands for S.
LEMMA UnitStep ==
    ASSUME Inv, Scanning, Advance, NEW S, S # {}, Exact!Successor(Represented) = S,
           Record(TerminalsOf(job.db, S)),
           phase' = "scan" => Represented' = S
    PROVE  Exact!ConsumeUnit
<1>1. phase = "scan" /\ UNCHANGED <<job, remaining, start, events>>
    BY DEF Scanning
<1>2. /\ position' = position + 1
      /\ phase' = Exact!PhaseAfterUnit
    BY DEF Advance, Exact!PhaseAfterUnit
<1>3. best_end' = Exact!RecordTerminals(best_end, Exact!TerminalsOf(job.db, S), position + 1)
    BY SameRecord, SameTerminals DEF Record
<1>4. Represented' = IF phase' = "scan" THEN S ELSE {}
    BY DEF Represented
<1>5. QED
    BY <1>1, <1>2, <1>3, <1>4 DEF Exact!ConsumeUnit

\* Entering or staying in the cache.
LEMMA CachedStep ==
    ASSUME Inv, CacheInv', Scanning, NEW id \in Nat, id + 1 \in 1..Len(states'),
           OutcomeCached(id), states'[id + 1].nfa_states = Exact!Successor(Represented),
           Exact!Successor(Represented) # {}
    PROVE  Exact!ConsumeUnit
<1>1. job' = job
    BY DEF Scanning
<1>2. states'[id + 1].terminals = TerminalsOf(job.db, Exact!Successor(Represented))
    BY <1>1 DEF CacheInv, TerminalsExact
<1>3. Advance /\ Record(TerminalsOf(job.db, Exact!Successor(Represented))) /\ cursor' = id
    BY <1>2 DEF OutcomeCached
<1>4. id # Uncached
    BY DEF Uncached
<1>5. phase' = "scan" => Represented' = Exact!Successor(Represented)
    BY <1>3, <1>4 DEF Represented
<1>6. QED
    BY <1>3, <1>5, UnitStep

\* Leaving or staying off the cache.
LEMMA UncachedStep ==
    ASSUME Inv, Scanning, NEW S, S # {}, OutcomeUncached(S),
           Exact!Successor(Represented) = S
    PROVE  Exact!ConsumeUnit
<1>1. Advance /\ Record(TerminalsOf(job.db, S)) /\ cursor' = Uncached /\ active' = S
    BY DEF OutcomeUncached
<1>2. phase' = "scan" => Represented' = S
    BY <1>1 DEF Represented
<1>3. QED
    BY <1>1, <1>2, UnitStep

\* A hit knows its successor: DEAD is the empty one, an identifier names it.
LEMMA KnownSuccessor ==
    ASSUME Inv, OnCached, KnownSlot \notin { UNKNOWN_TRANSITION, FALLBACK_TRANSITION }
    PROVE  /\ KnownSlot = DEAD_TRANSITION => Computed(Source) = {}
           /\ KnownSlot # DEAD_TRANSITION =>
                /\ KnownSlot \in 0..(Len(states) - 1)
                /\ states[KnownSlot + 1].nfa_states = Computed(Source)
                /\ Computed(Source) # {}
<1>1. /\ states \in Seq(DeterministicState) /\ Len(states) \in Nat
      /\ DOMAIN states = 1..Len(states)
    BY LenProperties DEF Inv, TypeOK
<1>2. cursor + 1 \in DOMAIN states /\ symbol \in Symbol
    BY <1>1, KnownSlotFacts
<1>3. Delta(cursor + 1, symbol) = Computed(Source)
    BY MissComputesSlotSet DEF Delta, SlotSet, Source
<1>4. /\ KnownSlot < IdLimit =>
           states[KnownSlot + 1].nfa_states = Computed(Source) /\ Computed(Source) # {}
      /\ KnownSlot = DEAD_TRANSITION => Computed(Source) = {}
    BY <1>2, <1>3 DEF Inv, SlotsAreExact, KnownSlot
<1>5. ASSUME KnownSlot # DEAD_TRANSITION
      PROVE  KnownSlot \in 0..(Len(states) - 1) /\ KnownSlot < IdLimit
    <2>1. KnownSlot \in 0..(Len(states) - 1)
        BY <1>5, KnownSlotFacts
    <2>2. QED
        BY <1>1, <2>1, CacheAssumption DEF Inv, BudgetRespected
<1>6. QED
    BY <1>4, <1>5

\* An interned miss names the successor it computed.
LEMMA InternedSuccessor ==
    ASSUME Inv, NEW id \in 0..Len(states), MissInterned(id)
    PROVE  states'[id + 1].nfa_states = Computed(Source)
<1>1. symbol \in Symbol /\ Computed(Source) \in SUBSET job.db.state
    BY KnownSlotFacts, MissComputesSlotSet DEF MissInterned
<1>2. PICK table :
         /\ MissTable(table, id)
         /\ id + 1 \in 1..Len(table)
         /\ \/ id = Len(states) /\ ~ Full
              /\ table = Append(states, NewDeterministicState(Computed(Source)))
              /\ Candidates(Computed(Source)) = {}
            \/ id < Len(states) /\ table = states /\ id \in Candidates(Computed(Source))
    BY MissInternedTable
<1>3. table[id + 1].nfa_states = Computed(Source)
    <2>1. CASE table = states
        BY <1>1, <1>2, <2>1, CandidatesExact
    <2>2. CASE id = Len(states) /\ table = Append(states, NewDeterministicState(Computed(Source)))
        <3>1. table[id + 1] = NewDeterministicState(Computed(Source))
            BY <1>1, <2>2, NewStateType, AppendProperties DEF Inv, TypeOK
        <3>2. QED
            BY <3>1 DEF NewDeterministicState
    <2>3. CASE id < Len(states) /\ table = states /\ id \in Candidates(Computed(Source))
        BY <2>1, <2>3
    <2>4. QED
        BY <1>2, <2>2, <2>3
<1>4. states' = SetTransition(table, id) /\ table \in Seq(DeterministicState) /\ id \in Slot
      /\ cursor \in Nat /\ cursor < Len(table)
    BY <1>2, LenProperties DEF MissTable, Inv, TypeOK
<1>5. SetTransition(table, id)[id + 1].nfa_states = table[id + 1].nfa_states
    BY <1>1, <1>2, <1>4, SetTransitionType
<1>6. QED
    BY <1>3, <1>4, <1>5

\* Every step of the cached engine is a step of the exact scan or changes nothing of it.
LEMMA NextImplementsExact ==
    ASSUME Inv, Next, CacheInv', TouchedCoversEnds'
    PROVE  Exact!Next
<1>t. /\ states \in Seq(DeterministicState) /\ Len(states) \in Nat
      /\ cursor \in { Uncached } \cup 0..(Len(states) - 1)
      /\ best_end \in [Ordinal -> Nat] /\ touched_ordinals \subseteq Ordinal
    BY LenProperties DEF Inv, TypeOK
<1>s. ASSUME OnCached
      PROVE  /\ Scanning /\ symbol \in Symbol
             /\ Exact!Successor(Represented) = Computed(Source)
    BY <1>s, ExactSuccessor, KnownSlotFacts, RepresentedNow DEF OnCached, Scanning
<1>1. CASE SelectStart
    <2>1. ~ job.uses_assertions /\ job' = job /\ states' = states
        BY <1>1, JobFacts DEF Inv, TypeOK, SelectStart, cacheVars
    <2>2. Exact!Closure({ job.root }, start', FALSE)
            = ExtendEpsilonClosure(job.db, { job.root }, {})
        BY <2>1, SameClosure DEF Exact!Closure
    <2>3. Represented' = states[1].nfa_states
        BY <1>1, <2>1 DEF SelectStart, Represented, Uncached
    <2>4. Represented' = Exact!Closure({ job.root }, start', FALSE)
        BY <2>2, <2>3 DEF Inv, RootIsCached
    <2>5. best_end' = [o \in Ordinal |-> Exact!NoEnd]
        <3>1. best_end' = [o \in Ordinal |-> IF o \in touched_ordinals THEN NoEnd
                                             ELSE best_end[o]]
            BY <1>1 DEF SelectStart, ResetTerminals
        <3>2. \A o \in Ordinal : o \notin touched_ordinals => best_end[o] = NoEnd
            BY DEF Inv, TouchedCoversEnds
        <3>3. QED
            BY <3>1, <3>2 DEF NoEnd, Exact!NoEnd
    <2>6. Exact!SelectStart
        BY <1>1, <2>4, <2>5, SameMin DEF SelectStart, Exact!SelectStart
    <2>7. QED
        BY <2>6 DEF Exact!Next
<1>2. CASE FollowKnown
    <2>1. OnCached /\ KnownSlot \notin { UNKNOWN_TRANSITION, FALLBACK_TRANSITION }
          /\ states' = states
        BY <1>2 DEF FollowKnown, cacheVars
    <2>2. CASE KnownSlot = DEAD_TRANSITION
        <3>1. OutcomeDead /\ Exact!Successor(Represented) = {}
            BY <1>2, <1>s, <2>1, <2>2, KnownSuccessor DEF FollowKnown
        <3>2. QED
            BY <1>s, <2>1, <3>1, DeadStep DEF Exact!Next
    <2>3. CASE KnownSlot # DEAD_TRANSITION
        <3>1. OutcomeCached(KnownSlot)
            BY <1>2, <2>3 DEF FollowKnown
        <3>2. /\ KnownSlot \in Nat /\ KnownSlot + 1 \in 1..Len(states')
              /\ states'[KnownSlot + 1].nfa_states = Exact!Successor(Represented)
              /\ Exact!Successor(Represented) # {}
            BY <1>t, <1>s, <2>1, <2>3, KnownSuccessor
        <3>3. Exact!ConsumeUnit
            BY <1>s, <2>1, <3>1, <3>2, CachedStep
        <3>4. QED
            BY <3>3 DEF Exact!Next
    <2>4. QED
        BY <2>2, <2>3
<1>3. CASE FollowFallback
    <2>1. OnCached /\ KnownSlot = FALLBACK_TRANSITION /\ OutcomeUncached(Computed(Source))
        BY <1>3 DEF FollowFallback
    <2>2. Computed(Source) # {}
        <3>1. cursor + 1 \in DOMAIN states /\ symbol \in Symbol
            BY <1>t, <2>1, KnownSlotFacts, LenProperties
        <3>2. Delta(cursor + 1, symbol) = Computed(Source)
            BY MissComputesSlotSet DEF Delta, SlotSet, Source
        <3>3. QED
            BY <2>1, <3>1, <3>2 DEF Inv, SlotsAreExact, KnownSlot
    <2>3. Exact!ConsumeUnit
        BY <1>s, <2>1, <2>2, UncachedStep
    <2>4. QED
        BY <2>3 DEF Exact!Next
<1>4. CASE MissDead
    <2>1. OnCached /\ OutcomeDead /\ Computed(Source) = {}
        BY <1>4 DEF MissDead
    <2>2. QED
        BY <1>s, <2>1, DeadStep DEF Exact!Next
<1>5. ASSUME NEW id \in 0..Len(states), MissInterned(id) PROVE Exact!Next
    <2>1. OnCached /\ OutcomeCached(id) /\ Computed(Source) # {}
        BY <1>5 DEF MissInterned
    <2>2. id \in Nat /\ id + 1 \in 1..Len(states')
        BY <1>5, InternedIdentifier
    <2>3. states'[id + 1].nfa_states = Computed(Source)
        BY <1>5, InternedSuccessor
    <2>4. Exact!ConsumeUnit
        BY <1>s, <2>1, <2>2, <2>3, CachedStep
    <2>5. QED
        BY <2>4 DEF Exact!Next
<1>6. CASE MissFallback
    <2>1. OnCached /\ OutcomeUncached(Computed(Source)) /\ Computed(Source) # {}
        BY <1>6 DEF MissFallback
    <2>2. Exact!ConsumeUnit
        BY <1>s, <2>1, UncachedStep
    <2>3. QED
        BY <2>2 DEF Exact!Next
<1>7. CASE StepUncached
    <2>1. Scanning /\ states' = states /\ Exact!Successor(Represented) = Computed(active)
        BY <1>7, ExactSuccessor, RepresentedNow DEF StepUncached, Scanning, cacheVars
    <2>2. Computed(active) \in SUBSET job.db.state
        BY ComputedIsExact DEF Inv
    <2>3. CASE Computed(active) = {} /\ OutcomeDead
        BY <2>1, <2>3, DeadStep DEF Exact!Next
    <2>4. ASSUME NEW id \in Candidates(Computed(active)), OutcomeCached(id),
                 Computed(active) # {}
          PROVE  Exact!Next
        <3>1. /\ id \in Nat /\ id + 1 \in 1..Len(states')
              /\ states'[id + 1].nfa_states = Computed(active)
            BY <1>t, <2>1, <2>2, CandidatesExact
        <3>2. Exact!ConsumeUnit
            BY <2>1, <2>4, <3>1, CachedStep
        <3>3. QED
            BY <3>2 DEF Exact!Next
    <2>5. CASE Computed(active) # {} /\ OutcomeUncached(Computed(active))
        BY <2>1, <2>5, UncachedStep DEF Exact!Next
    <2>6. QED
        BY <1>7, <2>3, <2>4, <2>5 DEF StepUncached
<1>8. CASE Report
    <2>1. touched_ordinals = Exact!Touched
        BY <1>t DEF Inv, TouchedCoversEnds, Exact!Touched, NoEnd, Exact!NoEnd
    <2>2. Represented = {} /\ Represented' = {}
        BY <1>8 DEF Report, Represented
    <2>3. Exact!Report
        BY <1>8, <2>1, <2>2, SameEvents DEF Report, Exact!Report, terminalVars
    <2>4. QED
        BY <2>3 DEF Exact!Next
<1>9. CASE Finish
    <2>1. Represented = {} /\ Represented' = {}
        BY <1>9 DEF Finish, Represented
    <2>2. QED
        BY <1>9, <2>1 DEF Finish, Exact!Finish, Exact!Next, terminalVars
<1>10. QED
    BY <1>1, <1>2, <1>3, <1>4, <1>5, <1>6, <1>7, <1>8, <1>9 DEF Next

\* The engine with the cache delivers what the exact scan delivers, for every
\* budget: cache pressure never changes an answer
\* (docs/adr/0005-lazy-determinization.md).
THEOREM CachedScanImplementsScan == Spec => ImplementsScan
<1>1. Init => Exact!Init
    BY DEF Init, Exact!Init, Represented, NoEnd, Exact!NoEnd
<1>2. ASSUME Inv, Inv', [Next]_cachedVars
      PROVE  [Exact!Next]_(Exact!scanVars)
    <2>1. CASE Next
        <3>1. CacheInv' /\ TouchedCoversEnds'
            BY <1>2 DEF Inv, CacheInv
        <3>2. QED
            BY <1>2, <2>1, <3>1, NextImplementsExact
    <2>2. CASE UNCHANGED cachedVars
        BY <2>2 DEF cachedVars, cacheVars, scratchVars, terminalVars, Exact!scanVars,
                    Represented
    <2>3. QED
        BY <1>2, <2>1, <2>2
<1>3. QED
    BY <1>1, <1>2, InvHolds, PTL DEF Spec, ImplementsScan, Exact!Spec

-----------------------------------------------------------------------------
(* Through the exact scan, the engine delivers what the match-event rule     *)
(* asks for.                                                                  *)

Rule == INSTANCE ScanProof WITH live <- Represented

\* Rule, too, has this module's own operators: its assumptions are those made here,
LEMMA RuleFinite == \A S : Rule!IsFiniteSet(S) <=> IsFiniteSet(S)
BY Zenon DEF Rule!IsFiniteSet, IsFiniteSet

LEMMA RuleJobs == \A j \in Jobs : Rule!JobShape(j)
<1>1. \A S, edges, seeds, visited :
          Rule!ExtendClosure(S, edges, seeds, visited) = ExtendClosure(S, edges, seeds, visited)
    BY Zenon DEF Rule!ExtendClosure, ExtendClosure
<1>2. \A db, root : Rule!NoneAsserted(db, root) <=> NoneAsserted(db, root)
    BY <1>1, Zenon DEF Rule!NoneAsserted, NoneAsserted, Rule!PlainEdges, PlainEdges
<1>3. \A S : Rule!Database(S) = Database(S)
    BY DEF Rule!Database, Database, Rule!Assertion, Assertion
<1>4. QED
    BY <1>2, <1>3, RuleFinite, JobsAssumption, Zenon DEF Rule!JobShape, JobShape

LEMMA RuleImplementsSelection == Rule!Spec => Rule!Selection!Spec
BY Rule!ScanImplementsSelection, RuleFinite, RuleJobs, AlphabetAssumption

\* and its steps are those of the exact scan.
LEMMA RuleClosure ==
    \A seeds, p, c : Exact!Closure(seeds, p, c) = Rule!Closure(seeds, p, c)
<1>1. \A S, edges, seeds, visited :
          Exact!ExtendClosure(S, edges, seeds, visited) = Rule!ExtendClosure(S, edges, seeds, visited)
    BY Zenon DEF Exact!ExtendClosure, Rule!ExtendClosure
<1>2. \A db, seeds, visited :
          Exact!ExtendEpsilonClosure(db, seeds, visited) = Rule!ExtendEpsilonClosure(db, seeds, visited)
    BY <1>1, Zenon DEF Exact!ExtendEpsilonClosure, Rule!ExtendEpsilonClosure
<1>3. \A a, input, p, c :
          Exact!AssertionMatches(a, input, p, c) = Rule!AssertionMatches(a, input, p, c)
    BY Zenon DEF Exact!AssertionMatches, Rule!AssertionMatches, Exact!IsWordBoundary,
                 Rule!IsWordBoundary, Exact!IsWordAt, Rule!IsWordAt
<1>4. \A db, input, p, c :
          Exact!FollowsWithoutConsuming(db, input, p, c) = Rule!FollowsWithoutConsuming(db, input, p, c)
    BY <1>3 DEF Exact!FollowsWithoutConsuming, Rule!FollowsWithoutConsuming
<1>5. QED
    BY <1>1, <1>2, <1>4, Zenon
    DEF Exact!Closure, Rule!Closure, Exact!ExtendAssertionClosure, Rule!ExtendAssertionClosure

LEMMA RuleNext ==
    /\ Exact!Init => Rule!Init
    /\ Exact!Next => Rule!Next
    /\ Exact!scanVars = Rule!scanVars
<1>1. \A S : Exact!Min(S) = Rule!Min(S)
    BY Zenon DEF Exact!Min, Rule!Min
<1>2. Exact!NoEnd = Rule!NoEnd
    BY Zenon DEF Exact!NoEnd, Rule!NoEnd
<1>3. \A S : Exact!Successor(S) = Rule!Successor(S)
    BY RuleClosure, Zenon
    DEF Exact!Successor, Rule!Successor, Exact!ConsumingTargets, Rule!ConsumingTargets
<1>4. \A best, ordinals, end :
          Exact!RecordTerminals(best, ordinals, end) = Rule!RecordTerminals(best, ordinals, end)
    BY Zenon DEF Exact!RecordTerminals, Rule!RecordTerminals
<1>5. \A db, S : Exact!TerminalsOf(db, S) = Rule!TerminalsOf(db, S)
    BY Zenon DEF Exact!TerminalsOf, Rule!TerminalsOf
<1>6. \A s, best, touched : Exact!EventsOf(s, best, touched) = Rule!EventsOf(s, best, touched)
    BY Zenon DEF Exact!EventsOf, Rule!EventsOf, Exact!Ascending, Rule!Ascending,
                 Exact!Cardinality, Rule!Cardinality
<1>7. Exact!Touched = Rule!Touched
    BY <1>2, Zenon DEF Exact!Touched, Rule!Touched
<1>8. Exact!SelectStart => Rule!SelectStart
    BY <1>1, <1>2, RuleClosure DEF Exact!SelectStart, Rule!SelectStart
<1>9. Exact!ConsumeUnit => Rule!ConsumeUnit
    BY <1>3, <1>4, <1>5
    DEF Exact!ConsumeUnit, Rule!ConsumeUnit, Exact!PhaseAfterUnit, Rule!PhaseAfterUnit
<1>10. Exact!Die => Rule!Die
    BY <1>3 DEF Exact!Die, Rule!Die
<1>11. Exact!Report => Rule!Report
    BY <1>6, <1>7 DEF Exact!Report, Rule!Report
<1>12. Exact!Finish => Rule!Finish
    BY DEF Exact!Finish, Rule!Finish
<1>13. Exact!Init => Rule!Init
    BY <1>2 DEF Exact!Init, Rule!Init
<1>14. Exact!scanVars = Rule!scanVars
    BY DEF Exact!scanVars, Rule!scanVars
<1>15. QED
    BY <1>8, <1>9, <1>10, <1>11, <1>12, <1>13, <1>14 DEF Exact!Next, Rule!Next

\* Whatever the patterns compile to, the input, the starts and the budget: each start
\* scanned with the cache delivers its longest matches, each once, and nothing else
\* (docs/adr/0002-match-event-semantics.md, docs/adr/0005-lazy-determinization.md).
THEOREM CachedScanImplementsSelection == Spec => Rule!Selection!Spec
<1>1. Exact!Spec => Rule!Spec
    <2>1. [Exact!Next]_(Exact!scanVars) => [Rule!Next]_(Rule!scanVars)
        BY RuleNext DEF Exact!scanVars, Rule!scanVars
    <2>2. QED
        BY <2>1, RuleNext, PTL DEF Exact!Spec, Rule!Spec
<1>2. QED
    BY <1>1, CachedScanImplementsScan, RuleImplementsSelection, PTL DEF ImplementsScan
=============================================================================
