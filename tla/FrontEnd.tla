------------------------------- MODULE FrontEnd --------------------------------
(***************************************************************************)
(* From the text of a pattern list to its report: each row is registered    *)
(* with MatcherBuilder::add_with_flags (rustmatch/src/api.rs), which parses *)
(* it, and the registered patterns are classified and reported.  The report *)
(* command gives up at the first row that is refused.                       *)
(***************************************************************************)
EXTENDS PatternSyntax, CohortFacts

CONSTANTS
    Files,          \* the lists of rows read from their text, in sets
    Registrations   \* lists of patterns taken up where their parse has ended

frontVars == << parserVars, factVars >>

Idle == [kind |-> "idle"]

NoCall ==
    /\ units = <<>> /\ insensitive = FALSE /\ index = 0
    /\ stack = << EmptyFrame(0) >> /\ atom = <<>> /\ class = NoClass
    /\ outcome = Idle

FrontInit ==
    /\ NoCall
    /\ facts = <<>> /\ free = <<>> /\ bearing = <<>> /\ receipts = <<>>
    /\ \/ (\E some \in Files : rows \in some) /\ registered = <<>> /\ status = "parse"
       \/ (\E some \in Registrations : registered \in some) /\ rows = registered /\ status = "classify"

Row == rows[Len(registered) + 1]
Reading == status = "parse" /\ outcome = Idle

\* add_with_flags looks for the identifier before it looks at the pattern.
Duplicate == \E i \in DOMAIN registered : registered[i].id = Row.id

AddPattern ==
    /\ Reading /\ Len(registered) < Len(rows)
    /\ IF Duplicate
       THEN /\ status' = "rejected"
            /\ UNCHANGED << parserVars, rows, registered, facts, free, bearing, receipts >>
       ELSE LET call == Entry(Row.units, Row.insensitive) IN
            /\ units' = call.units
            /\ insensitive' = call.insensitive
            /\ index' = call.index
            /\ outcome' = call.outcome
            /\ UNCHANGED << stack, atom, class, factVars >>

Parse == ParseStep /\ UNCHANGED factVars

\* A pattern joins the list only once it is parsed; a refusal leaves no trace.
Register ==
    /\ status = "parse" /\ outcome.kind = "ok"
    /\ registered' = Append(registered, [id |-> Row.id, expression |-> outcome.expression])
    /\ units' = <<>> /\ insensitive' = FALSE /\ index' = 0
    /\ stack' = << EmptyFrame(0) >> /\ atom' = <<>> /\ class' = NoClass
    /\ outcome' = Idle
    /\ UNCHANGED << rows, facts, free, bearing, receipts, status >>

Reject ==
    /\ status = "parse" /\ outcome.kind \in { "invalid", "empty", "too deep" }
    /\ status' = "rejected"
    /\ UNCHANGED << parserVars, rows, registered, facts, free, bearing, receipts >>

StartClassify ==
    /\ Reading /\ Len(registered) = Len(rows)
    /\ status' = "classify"
    /\ UNCHANGED << parserVars, rows, registered, facts, free, bearing, receipts >>

Report == ReportStep /\ UNCHANGED parserVars

FrontNext == AddPattern \/ Parse \/ Register \/ Reject \/ StartClassify \/ Report

FrontSpec == FrontInit /\ [][FrontNext]_frontVars
=============================================================================
