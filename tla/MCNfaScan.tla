------------------------------ MODULE MCNfaScan -------------------------------
(* The reference engine against the exact scan and the match-event rule. *)
EXTENDS NfaScan, MCJobs

Selection == INSTANCE MatchSelection

\* The reference engine delivers exactly the longest matches of
\* docs/adr/0002-match-event-semantics.md, each once, and always ends.
ImplementsSelection == Selection!FairSpec
=============================================================================
