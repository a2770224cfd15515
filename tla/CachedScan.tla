------------------------------ MODULE CachedScan ------------------------------
(***************************************************************************)
(* The lazily determinized engine of rustmatch/src/engine.rs                *)
(* (scan_without_assertions_cached and DeterministicCache,                  *)
(* docs/adr/0005-lazy-determinization.md).                                  *)
(*                                                                          *)
(* The cache maps NFA state sets to small integers and fills their          *)
(* transition tables as units are met.  It never evicts: once its budget is *)
(* used up, a successor it does not hold is recomputed every time, and the  *)
(* scan carries that set in `active' until it meets a cached set again.     *)
(*                                                                          *)
(* A transition slot is a number, as in the code: the identifiers of cached *)
(* states lie below IdLimit, the three largest numbers are sentinels.       *)
(* Visit marks are generation stamps that wrap.                             *)
(***************************************************************************)
EXTENDS ScanJob

CONSTANTS
    Budgets,            \* the state cache budgets callers may configure
    IdLimit,            \* FALLBACK_TRANSITION, 2^32 - 3 in the code
    GenerationModulus,  \* stamps are u32: 2^32 in the code
    HashValue,          \* the u64 hash values
    StateSetHash(_)     \* state_set_hash: any function of the sorted states

ASSUME CacheAssumption ==
    /\ Budgets \subseteq Nat \ {0}
    /\ IdLimit \in Nat \ {0}
    /\ GenerationModulus \in Nat \ {0, 1}
    /\ \A j \in Jobs : ~ j.uses_assertions
    /\ \A j \in Jobs : \A x \in SUBSET j.db.state : StateSetHash(x) \in HashValue

FALLBACK_TRANSITION == IdLimit
DEAD_TRANSITION     == IdLimit + 1
UNKNOWN_TRANSITION  == IdLimit + 2
Slot == 0..(IdLimit + 2)

Uncached == -1      \* ScanCursor::Uncached; a cached cursor is an identifier

VARIABLES
    job, remaining, phase, start, position, events,   \* as in Scan
    budget,
    cursor,                                           \* ScanCursor
    states, buckets,                                  \* DeterministicCache
    active, next, best_end, touched_ordinals,         \* Scratch
    cache_seen, cache_generation,                     \* Scratch
    metrics                                           \* ScanStats

scratchVars == <<active, next, cache_seen, cache_generation>>
terminalVars == <<best_end, touched_ordinals>>
cacheVars == <<states, buckets>>
cachedVars == <<job, remaining, phase, start, position, events, budget, cursor,
                cacheVars, scratchVars, terminalVars, metrics>>

symbol == job.input[position + 1]

-----------------------------------------------------------------------------
(* DeterministicCache.  Identifier i names states[i + 1]. *)

DeterministicState ==
    [nfa_states  : SUBSET job.db.state,
     terminals   : SUBSET Ordinal,
     transitions : [Symbol -> Slot]]

NewDeterministicState(nfa_states) ==
    [nfa_states  |-> nfa_states,
     terminals   |-> TerminalsOf(job.db, nfa_states),
     transitions |-> [a \in Symbol |-> UNKNOWN_TRANSITION]]

\* Mutant of Candidates: only the first entry of the bucket is compared.
CandidatesFirst(nfa_states) ==
    { id \in buckets[StateSetHash(nfa_states)] :
        /\ states[id + 1].nfa_states = nfa_states
        /\ \A other \in buckets[StateSetHash(nfa_states)] : id <= other }

\* lookup: the bucket of the hash, then full equality.
Candidates(nfa_states) ==
    { id \in buckets[StateSetHash(nfa_states)] : states[id + 1].nfa_states = nfa_states }

\* intern refuses a new state when the budget or the identifiers run out.
Full == Len(states) >= budget \/ Len(states) >= IdLimit

\* The identifiers a successor set may resolve to; none when it cannot be interned.
Interned(nfa_states) ==
    IF Candidates(nfa_states) # {} THEN Candidates(nfa_states)
    ELSE IF Full THEN {} ELSE { Len(states) }

-----------------------------------------------------------------------------
(* Scratch::reset_cached_transition and compute_transition.                  *)

\* wrapping_add(1) yields zero.
GenerationWraps == cache_generation + 1 = GenerationModulus
NextGeneration == IF GenerationWraps THEN 1 ELSE cache_generation + 1
\* Mutant of ClearedMarks: the stamps survive the wrap.
ClearedMarksNever == cache_seen

ClearedMarks == IF GenerationWraps THEN [s \in job.db.state |-> 0] ELSE cache_seen

Computed(source) ==
    ExtendEpsilonClosure(job.db, ConsumingTargets(job.db, source, symbol),
                         { s \in job.db.state : ClearedMarks[s] = NextGeneration })

ComputeTransition(source) ==
    /\ cache_generation' = NextGeneration
    /\ cache_seen' = [s \in job.db.state |->
                        IF s \in Computed(source) THEN NextGeneration ELSE ClearedMarks[s]]

-----------------------------------------------------------------------------
(* What the scan loop does with a TransitionOutcome. *)

Record(ordinals) ==
    /\ best_end' = RecordTerminals(best_end, ordinals, position + 1)
    /\ touched_ordinals' = touched_ordinals \cup ordinals

Advance ==
    /\ position' = position + 1
    /\ phase' = IF position + 1 = Len(job.input) THEN "report" ELSE "scan"

OutcomeDead ==
    /\ phase' = "report"
    /\ UNCHANGED <<position, cursor, terminalVars>>

OutcomeCached(id) ==
    /\ Record(states'[id + 1].terminals)
    /\ cursor' = id
    /\ Advance

\* The swap of active and next; `filled' is what was computed into next.
OutcomeUncached(filled) ==
    /\ Record(TerminalsOf(job.db, filled))
    /\ cursor' = Uncached
    /\ active' = filled /\ next' = active
    /\ Advance

Count(hits, misses, fallbacks) ==
    metrics' = [hits      |-> metrics.hits + hits,
                misses    |-> metrics.misses + misses,
                fallbacks |-> metrics.fallbacks + fallbacks]

Scanning == phase = "scan" /\ UNCHANGED <<job, remaining, start, events, budget>>
OnCached == Scanning /\ cursor # Uncached
KnownSlot == states[cursor + 1].transitions[symbol]
Source == states[cursor + 1].nfa_states

-----------------------------------------------------------------------------
(* DeterministicCache::new runs before the first start: the root closure is *)
(* interned as identifier 0, and mem::take leaves `active' empty.           *)

Init ==
    /\ job \in Jobs
    /\ budget \in Budgets
    /\ remaining = job.starts
    /\ phase = "select"
    /\ start = 0
    /\ position = 0
    /\ events = <<>>
    /\ cursor = 0
    /\ LET root == ExtendEpsilonClosure(job.db, { job.root }, {})
       IN  /\ states = << NewDeterministicState(root) >>
           /\ buckets = [h \in HashValue |-> IF h = StateSetHash(root) THEN {0} ELSE {}]
    /\ active = {} /\ next = {}
    /\ best_end = [o \in Ordinal |-> NoEnd]
    /\ touched_ordinals = {}
    /\ cache_seen = [s \in job.db.state |-> 0]
    /\ cache_generation = 0
    /\ metrics = [hits |-> 0, misses |-> 0, fallbacks |-> 0]

\* Scratch::reset_cached_start: the stamps are not cleared.
SelectStart ==
    /\ phase = "select"
    /\ remaining # {}
    /\ start' = Min(remaining)
    /\ position' = start'
    /\ active' = {} /\ next' = {}
    /\ best_end' = ResetTerminals(best_end, touched_ordinals)
    /\ touched_ordinals' = {}
    /\ cursor' = 0
    /\ phase' = "scan"
    /\ UNCHANGED <<job, remaining, events, budget, cacheVars, cache_seen,
                   cache_generation, metrics>>

\* The slot holds an identifier or DEAD: nothing is computed.
FollowKnown ==
    /\ OnCached
    /\ KnownSlot \notin { UNKNOWN_TRANSITION, FALLBACK_TRANSITION }
    /\ Count(1, 0, 0)
    /\ UNCHANGED <<cacheVars, scratchVars>>
    /\ IF KnownSlot = DEAD_TRANSITION THEN OutcomeDead ELSE OutcomeCached(KnownSlot)

\* Mutant of FollowFallback: computed from the list the uncached scan left.
FollowFallbackFromActive ==
    /\ OnCached
    /\ KnownSlot = FALLBACK_TRANSITION
    /\ Count(0, 0, 1)
    /\ ComputeTransition(active)
    /\ OutcomeUncached(Computed(active))
    /\ UNCHANGED cacheVars

\* The slot says the successor did not fit: it is recomputed, never looked up.
FollowFallback ==
    /\ OnCached
    /\ KnownSlot = FALLBACK_TRANSITION
    /\ Count(0, 0, 1)
    /\ ComputeTransition(Source)
    /\ OutcomeUncached(Computed(Source))
    /\ UNCHANGED cacheVars

\* Mutant of SetTransition: the other slots of the state are lost.
SetTransitionAlone(table, transition) ==
    [table EXCEPT ![cursor + 1] =
        [nfa_states  |-> @.nfa_states,
         terminals   |-> @.terminals,
         transitions |-> [a \in Symbol |-> IF a = symbol THEN transition
                                           ELSE UNKNOWN_TRANSITION]]]

SetTransition(table, transition) ==
    [table EXCEPT ![cursor + 1] =
        [nfa_states  |-> @.nfa_states,
         terminals   |-> @.terminals,
         transitions |-> [@.transitions EXCEPT ![symbol] = transition]]]

\* An unknown slot whose successor set is empty.
MissDead ==
    /\ OnCached
    /\ KnownSlot = UNKNOWN_TRANSITION
    /\ Computed(Source) = {}
    /\ Count(0, 1, 0)
    /\ ComputeTransition(Source)
    /\ states' = SetTransition(states, DEAD_TRANSITION)
    /\ OutcomeDead
    /\ next' = {}
    /\ UNCHANGED <<buckets, active>>

\* An unknown slot whose successor set is in the cache, or now joins it.
MissInterned(id) ==
    /\ OnCached
    /\ KnownSlot = UNKNOWN_TRANSITION
    /\ Computed(Source) # {}
    /\ id \in Interned(Computed(Source))
    /\ Count(0, 1, 0)
    /\ ComputeTransition(Source)
    /\ IF id = Len(states)
       THEN /\ states' = SetTransition(
                            Append(states, NewDeterministicState(Computed(Source))), id)
            /\ buckets' = [buckets EXCEPT ![StateSetHash(Computed(Source))] = @ \cup {id}]
       ELSE /\ states' = SetTransition(states, id)
            /\ UNCHANGED buckets
    /\ OutcomeCached(id)
    /\ next' = Computed(Source)
    /\ UNCHANGED active

\* Mutant of MissFallback: a refused successor is stored as dead.
MissFallbackDead ==
    /\ OnCached
    /\ KnownSlot = UNKNOWN_TRANSITION
    /\ Computed(Source) # {}
    /\ Interned(Computed(Source)) = {}
    /\ Count(0, 1, 1)
    /\ ComputeTransition(Source)
    /\ states' = SetTransition(states, DEAD_TRANSITION)
    /\ OutcomeUncached(Computed(Source))
    /\ UNCHANGED buckets

\* Mutant of MissFallback: the refused successor counts as a miss alone.
MissFallbackUncounted ==
    /\ OnCached
    /\ KnownSlot = UNKNOWN_TRANSITION
    /\ Computed(Source) # {}
    /\ Interned(Computed(Source)) = {}
    /\ Count(0, 1, 0)
    /\ ComputeTransition(Source)
    /\ states' = SetTransition(states, FALLBACK_TRANSITION)
    /\ OutcomeUncached(Computed(Source))
    /\ UNCHANGED buckets

\* An unknown slot whose successor set the full cache refuses.
MissFallback ==
    /\ OnCached
    /\ KnownSlot = UNKNOWN_TRANSITION
    /\ Computed(Source) # {}
    /\ Interned(Computed(Source)) = {}
    /\ Count(0, 1, 1)
    /\ ComputeTransition(Source)
    /\ states' = SetTransition(states, FALLBACK_TRANSITION)
    /\ OutcomeUncached(Computed(Source))
    /\ UNCHANGED buckets

\* Mutant of StepUncached: the cache is never looked up again.
StepUncachedForever ==
    /\ Scanning
    /\ cursor = Uncached
    /\ Count(0, 0, 1)
    /\ ComputeTransition(active)
    /\ UNCHANGED cacheVars
    /\ \/ /\ Computed(active) = {}
          /\ OutcomeDead
          /\ next' = {}
          /\ UNCHANGED active
       \/ /\ Computed(active) # {}
          /\ OutcomeUncached(Computed(active))

\* The uncached cursor recomputes every unit and re-enters the cache when it can.
StepUncached ==
    /\ Scanning
    /\ cursor = Uncached
    /\ Count(0, 0, 1)
    /\ ComputeTransition(active)
    /\ UNCHANGED cacheVars
    /\ \/ /\ Computed(active) = {}
          /\ OutcomeDead
          /\ next' = {}
          /\ UNCHANGED active
       \/ /\ Computed(active) # {}
          /\ \E id \in Candidates(Computed(active)) : OutcomeCached(id)
          /\ next' = Computed(active)
          /\ UNCHANGED active
       \/ /\ Computed(active) # {}
          /\ Candidates(Computed(active)) = {}
          /\ OutcomeUncached(Computed(active))

Report ==
    /\ phase = "report"
    /\ events' = events \o EventsOf(start, best_end, touched_ordinals)
    /\ remaining' = remaining \ { start }
    /\ phase' = "select"
    /\ UNCHANGED <<job, start, position, budget, cursor, cacheVars, scratchVars,
                   terminalVars, metrics>>

Finish ==
    /\ phase = "select"
    /\ remaining = {}
    /\ phase' = "done"
    /\ UNCHANGED <<job, remaining, start, position, events, budget, cursor, cacheVars,
                   scratchVars, terminalVars, metrics>>

Next ==
    \/ SelectStart
    \/ FollowKnown \/ FollowFallback
    \/ MissDead \/ (\E id \in 0..Len(states) : MissInterned(id)) \/ MissFallback
    \/ StepUncached
    \/ Report \/ Finish

Spec == Init /\ [][Next]_cachedVars

-----------------------------------------------------------------------------
(* Properties *)

\* The shape of the cache, of Scratch and of the loops: a cached cursor is an
\* identifier in use, and the generation stays below its modulus.
TypeOK ==
    /\ job \in Jobs
    /\ budget \in Budgets
    /\ remaining \subseteq job.starts
    /\ phase \in {"select", "scan", "report", "done"}
    /\ start \in Nat
    /\ position \in 0..Len(job.input)
    /\ cursor \in { Uncached } \cup 0..(Len(states) - 1)
    /\ states \in Seq(DeterministicState)
    /\ buckets \in [HashValue -> SUBSET Nat]
    /\ active \subseteq job.db.state /\ next \subseteq job.db.state
    /\ best_end \in [Ordinal -> Nat]
    /\ touched_ordinals \subseteq Ordinal
    /\ cache_seen \in [job.db.state -> Nat]
    /\ cache_generation \in 0..(GenerationModulus - 1)
    /\ metrics \in [hits : Nat, misses : Nat, fallbacks : Nat]
    /\ phase = "scan" => /\ start \in remaining
                         /\ position \in start..(Len(job.input) - 1)

\* The cache never holds more states than the caller allowed, and its
\* identifiers never reach the sentinels (DeterministicCache::intern).
BudgetRespected == Len(states) <= budget /\ Len(states) <= IdLimit

\* A state set has one identifier, and looking it up finds that identifier even
\* when other sets share its hash (DeterministicCache::lookup).
LookupIsExact ==
    \A i \in DOMAIN states :
        Candidates(states[i].nfa_states) = { i - 1 }

\* The successor of a cached state on a symbol, computed with no mark set.
Delta(i, a) ==
    ExtendEpsilonClosure(job.db, ConsumingTargets(job.db, states[i].nfa_states, a), {})

\* Every filled slot tells the truth for ever: an identifier names the exact,
\* nonempty successor, DEAD stands for the empty one, and FALLBACK for a nonempty successor
\* that is not in the cache and never will be.  The last clause is what lets
\* FollowFallback skip the lookup and the emptiness test.
SlotsAreExact ==
    \A i \in DOMAIN states : \A a \in Symbol :
        LET slot == states[i].transitions[a]
        IN  /\ slot < IdLimit =>
                  /\ Delta(i, a) # {}
                  /\ slot < Len(states)
                  /\ states[slot + 1].nfa_states = Delta(i, a)
            /\ slot = DEAD_TRANSITION => Delta(i, a) = {}
            /\ slot = FALLBACK_TRANSITION =>
                  /\ Delta(i, a) # {}
                  /\ Full
                  /\ \A k \in DOMAIN states : states[k].nfa_states # Delta(i, a)

\* No stamp left by an earlier transition equals the stamp of the next one, even
\* after the counter has wrapped (Scratch::reset_cached_transition).
NoStaleStamp == \A s \in job.db.state : ClearedMarks[s] # NextGeneration

\* The scan is off the cache only with a nonempty set the cache does not hold.
UncachedOnlyUnderPressure ==
    phase = "scan" /\ cursor = Uncached =>
        /\ active # {}
        /\ Full
        /\ \A k \in DOMAIN states : states[k].nfa_states # active

\* The slots filled so far.
Filled ==
    { p \in (DOMAIN states) \X Symbol : states[p[1]].transitions[p[2]] # UNKNOWN_TRANSITION }

\* The counters, the only sign of a cache too small, tell the truth about it: every miss
\* filled one slot, so none was missed twice, and a fallback was counted, wherever it was
\* met, exactly when some successor did not fit (ScanStats, ADR 0005).
PressureIsReported ==
    /\ metrics.misses = Cardinality(Filled)
    /\ metrics.fallbacks > 0 <=>
          \E p \in Filled : states[p[1]].transitions[p[2]] = FALLBACK_TRANSITION

\* touched_ordinals lists exactly the ordinals with an end.
TouchedCoversEnds == \A o \in Ordinal : best_end[o] # NoEnd <=> o \in touched_ordinals

\* No eviction: a step keeps every cached set under its identifier and never
\* rewrites a filled slot (docs/adr/0005-lazy-determinization.md).
NoEvictionStep ==
    /\ Len(states) <= Len(states')
    /\ \A i \in DOMAIN states :
         /\ states'[i].nfa_states = states[i].nfa_states
         /\ \A a \in Symbol :
              states[i].transitions[a] # UNKNOWN_TRANSITION =>
                  states'[i].transitions[a] = states[i].transitions[a]
NoEviction == [][NoEvictionStep]_cachedVars

\* The set of states the cursor stands for.
Represented ==
    IF phase # "scan" THEN {}
    ELSE IF cursor = Uncached THEN active
    ELSE states[cursor + 1].nfa_states

Exact == INSTANCE Scan WITH live <- Represented

\* Cache pressure never changes what a scan reports: with any budget the engine
\* implements the exact scan, the set its cursor stands for being the live set.
ImplementsScan == Exact!Spec
=============================================================================
