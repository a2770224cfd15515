------------------------------- MODULE NfaScan -------------------------------
(***************************************************************************)
(* The reference engine of rustmatch/src/engine.rs, three loops of one      *)
(* shape: scan_without_assertions_nfa (cache budget zero),                  *)
(* scan_with_assertions, and scan_assertion_view_starts (one root of a      *)
(* shared database).  They differ only in the closure they take, which      *)
(* job.uses_assertions selects, in the root and in the starts.              *)
(*                                                                          *)
(* One scratch is allocated per scan and reused by every start and every    *)
(* unit, so each buffer carries what the previous step left in it until a   *)
(* reset clears it.  The lists `active' and `next' are sets here (nothing   *)
(* depends on their order); `active_seen' and `next_seen' are the states    *)
(* whose mark is true.                                                      *)
(***************************************************************************)
EXTENDS ScanJob

VARIABLES
    job, remaining, phase, start, position, events,   \* as in Scan
    active, next, active_seen, next_seen,             \* Scratch
    best_end, touched_ordinals                        \* Scratch

nfaVars == <<job, remaining, phase, start, position, events,
             active, next, active_seen, next_seen, best_end, touched_ordinals>>

\* Mutant of Extend: a line end may hold before the first unit.
ExtendAfterCurrent(seeds, p, after_current, seen) ==
    IF job.uses_assertions
    THEN ExtendAssertionClosure(job.db, job.input, p, TRUE, seeds, seen)
    ELSE ExtendEpsilonClosure(job.db, seeds, seen)

Extend(seeds, p, after_current, seen) ==
    IF job.uses_assertions
    THEN ExtendAssertionClosure(job.db, job.input, p, after_current, seeds, seen)
    ELSE ExtendEpsilonClosure(job.db, seeds, seen)

Init ==
    /\ job \in Jobs
    /\ remaining = job.starts
    /\ phase = "select"
    /\ start = 0
    /\ position = 0
    /\ events = <<>>
    /\ active = {} /\ next = {}
    /\ active_seen = {} /\ next_seen = {}
    /\ best_end = [o \in Ordinal |-> NoEnd]
    /\ touched_ordinals = {}

\* Scratch::reset_start, then the closure of the root.
ResetStart ==
    LET active_cleared == {}
        seen_cleared   == {}
        reached == Extend({ job.root }, start', FALSE, seen_cleared)
    IN  /\ active' = active_cleared \cup reached
        /\ active_seen' = seen_cleared \cup reached
        /\ best_end' = ResetTerminals(best_end, touched_ordinals)
        /\ touched_ordinals' = {}

SelectStart ==
    /\ phase = "select"
    /\ remaining # {}
    /\ start' = Min(remaining)
    /\ position' = start'
    /\ ResetStart
    /\ phase' = "scan"
    /\ UNCHANGED <<job, remaining, events, next, next_seen>>

\* Mutant of ResetNext: the marks of two units ago stay set.
ResetNextKeepingMarks == [next |-> {}, seen |-> next_seen]

\* Scratch::reset_next: what remains of the buffer the last swap handed over.
ResetNext == [next |-> {}, seen |-> {}]

(***************************************************************************)
(* One unit: reset_next, the closure of every matching edge, the terminals  *)
(* of the new set, the swap of both pairs of buffers, and the break when    *)
(* the new set is empty.                                                    *)
(***************************************************************************)
ConsumeUnit ==
    LET reset   == ResetNext
        targets == ConsumingTargets(job.db, active, job.input[position + 1])
        reached == Extend(targets, position + 1, TRUE, reset.seen)
        filled  == reset.next \cup reached
        accepted == TerminalsOf(job.db, filled)
    IN  /\ phase = "scan"
        /\ active' = filled
        /\ active_seen' = reset.seen \cup reached
        /\ next' = active
        /\ next_seen' = active_seen
        /\ best_end' = RecordTerminals(best_end, accepted, position + 1)
        /\ touched_ordinals' = touched_ordinals \cup accepted
        /\ position' = IF filled = {} THEN position ELSE position + 1
        /\ phase' = IF filled = {} \/ position + 1 = Len(job.input)
                    THEN "report" ELSE "scan"
        /\ UNCHANGED <<job, remaining, start, events>>

Report ==
    /\ phase = "report"
    /\ events' = events \o EventsOf(start, best_end, touched_ordinals)
    /\ remaining' = remaining \ { start }
    /\ phase' = "select"
    /\ UNCHANGED <<job, start, position, active, next, active_seen, next_seen,
                   best_end, touched_ordinals>>

Finish ==
    /\ phase = "select"
    /\ remaining = {}
    /\ phase' = "done"
    /\ UNCHANGED <<job, remaining, start, position, events, active, next,
                   active_seen, next_seen, best_end, touched_ordinals>>

Next == SelectStart \/ ConsumeUnit \/ Report \/ Finish

Spec == Init /\ [][Next]_nfaVars
FairSpec == Spec /\ WF_nfaVars(Next)

-----------------------------------------------------------------------------
(* Properties *)

Exact == INSTANCE Scan WITH live <- IF phase = "scan" THEN active ELSE {}

\* The engine implements the exact scan: its active list is the live set, whatever
\* the buffers it reuses still hold, and it ends as the exact scan does.
ImplementsScan == Exact!FairSpec
=============================================================================
