--------------------------------- MODULE MCGate ---------------------------------
(***************************************************************************)
(* A gate of two quality steps, two inputs of the oracle and three evidence *)
(* commands, on machines with a Java 21 in some of the three places.        *)
(***************************************************************************)
EXTENDS Gate

MCQualitySteps == << "format", "tests" >>
MCFixtureSets == << "literals", "case-fold" >>
MCAdapters == << "verify-literals", "verify-assertions", "verify-cohort-parity" >>
MCHomes == { << >>, << 1, 8 >>, << 21, 0, 2 >> }
=============================================================================
