-------------------------------- MODULE Scan ---------------------------------
(***************************************************************************)
(* What scanning means, free of every scratch buffer and cache of           *)
(* rustmatch/src/engine.rs: for each candidate start the set of NFA states  *)
(* that are live after each unit, and the greatest end at which each        *)
(* ordinal has been accepted.  NfaScan and CachedScan are the two engines,  *)
(* and each is shown to implement this module.                              *)
(***************************************************************************)
EXTENDS ScanJob

VARIABLES
    job,        \* the call being executed
    remaining,  \* the candidate starts whose matches are not delivered yet
    phase,      \* select a start, scan from it, report its matches, done
    start,      \* the candidate start
    position,   \* the next unit to consume
    live,       \* the NFA states reachable from start by the consumed units
    best_end,   \* per ordinal, the greatest accepted end so far
    events      \* what the sink has been called with, in call order

scanVars == <<job, remaining, phase, start, position, live, best_end, events>>

\* The exact closures: no state is marked beforehand.
Closure(seeds, p, after_current) ==
    IF job.uses_assertions
    THEN ExtendAssertionClosure(job.db, job.input, p, after_current, seeds, {})
    ELSE ExtendEpsilonClosure(job.db, seeds, {})

\* The states live after the unit at `position' is consumed.
Successor(source) ==
    Closure(ConsumingTargets(job.db, source, job.input[position + 1]),
            position + 1, TRUE)

\* Where an engine goes after consuming a unit into a nonempty set.
PhaseAfterUnit == IF position + 1 = Len(job.input) THEN "report" ELSE "scan"

Touched == { o \in Ordinal : best_end[o] # NoEnd }

Init ==
    /\ job \in Jobs
    /\ remaining = job.starts
    /\ phase = "select"
    /\ start = 0
    /\ position = 0
    /\ live = {}
    /\ best_end = [o \in Ordinal |-> NoEnd]
    /\ events = <<>>

SelectStart ==
    /\ phase = "select"
    /\ remaining # {}
    /\ start' = Min(remaining)
    /\ position' = start'
    /\ live' = Closure({ job.root }, start', FALSE)
    /\ best_end' = [o \in Ordinal |-> NoEnd]
    /\ phase' = "scan"
    /\ UNCHANGED <<job, remaining, events>>

ConsumeUnit ==
    /\ phase = "scan"
    /\ Successor(live) # {}
    /\ best_end' = RecordTerminals(best_end, TerminalsOf(job.db, Successor(live)),
                                   position + 1)
    /\ position' = position + 1
    /\ phase' = PhaseAfterUnit
    /\ live' = IF phase' = "scan" THEN Successor(live) ELSE {}
    /\ UNCHANGED <<job, remaining, start, events>>

\* No state survives the unit: no longer match exists from this start.
Die ==
    /\ phase = "scan"
    /\ Successor(live) = {}
    /\ phase' = "report"
    /\ live' = {}
    /\ UNCHANGED <<job, remaining, start, position, best_end, events>>

Report ==
    /\ phase = "report"
    /\ events' = events \o EventsOf(start, best_end, Touched)
    /\ remaining' = remaining \ { start }
    /\ phase' = "select"
    /\ UNCHANGED <<job, start, position, live, best_end>>

Finish ==
    /\ phase = "select"
    /\ remaining = {}
    /\ phase' = "done"
    /\ UNCHANGED <<job, remaining, start, position, live, best_end, events>>

Next == SelectStart \/ ConsumeUnit \/ Die \/ Report \/ Finish

Spec == Init /\ [][Next]_scanVars
FairSpec == Spec /\ WF_scanVars(Next)
=============================================================================
