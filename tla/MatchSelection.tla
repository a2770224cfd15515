--------------------------- MODULE MatchSelection ----------------------------
(***************************************************************************)
(* The normative match-event rule (docs/adr/0002-match-event-semantics.md), *)
(* one step per candidate start: the sink receives, in some order, exactly  *)
(* one event for each ordinal some consuming path accepts from that start,  *)
(* with the greatest accepted end.  Scan is shown to implement this module. *)
(***************************************************************************)
EXTENDS ScanJob

VARIABLES job, remaining, events

selectionVars == <<job, remaining, events>>

Init ==
    /\ job \in Jobs
    /\ remaining = job.starts
    /\ events = <<>>

\* The events of one start, each exactly once.
Deliver(s) ==
    /\ \E delivered \in SetToSeqs(LongestMatches(job.db, job.root, job.input, s)) :
           events' = events \o delivered
    /\ remaining' = remaining \ { s }
    /\ UNCHANGED job

Next == \E s \in remaining : Deliver(s)

Spec == Init /\ [][Next]_selectionVars
FairSpec == Spec /\ WF_selectionVars(Next)
=============================================================================
