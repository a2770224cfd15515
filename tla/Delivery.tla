------------------------------- MODULE Delivery -------------------------------
(***************************************************************************)
(* What Matcher::scan promises its caller when several partitions are       *)
(* scanned (rustmatch/src/api.rs): either no callback is invoked, or every  *)
(* match is delivered once, in partition order, until the sink panics.      *)
(***************************************************************************)
EXTENDS Sequences, Naturals

CONSTANT EventLists   \* the sequences of matches a scan can have to deliver

VARIABLES events, status, delivered

deliveryVars == <<events, status, delivered>>

Init ==
    /\ events \in EventLists
    /\ status = "scanning"
    /\ delivered = <<>>

\* An error or a panic while the partitions are scanned.
Fail ==
    /\ status = "scanning"
    /\ status' = "failed"
    /\ UNCHANGED <<events, delivered>>

Commit ==
    /\ status = "scanning"
    /\ status' = "delivering"
    /\ UNCHANGED <<events, delivered>>

CallSink ==
    /\ status = "delivering"
    /\ Len(delivered) < Len(events)
    /\ delivered' = Append(delivered, events[Len(delivered) + 1])
    /\ status' \in {"delivering", "failed"}
    /\ UNCHANGED events

Return ==
    /\ status = "delivering"
    /\ delivered = events
    /\ status' = "complete"
    /\ UNCHANGED <<events, delivered>>

Next == Fail \/ Commit \/ CallSink \/ Return

Spec == Init /\ [][Next]_deliveryVars
=============================================================================
