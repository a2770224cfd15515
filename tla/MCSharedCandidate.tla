-------------------------- MODULE MCSharedCandidate ---------------------------
(***************************************************************************)
(* Two to four partitions whose filters use different tables, over inputs   *)
(* whose words do not divide evenly among the shards.                       *)
(***************************************************************************)
EXTENDS SharedCandidate

\* One filter per table, one beyond ASCII, one in two tables.
MCFilters ==
    << CompileFilter({ <<"a">> }),
       CompileFilter({ <<"b", "a">>, <<"u", "b">> }),
       CompileFilter({ <<"b", "b", "a">> }),
       CompileFilter({ <<"a">>, <<"b", "b", "b", "b">> }) >>

Texts ==
    { <<"c", "c", "c", "c", "a">>,
      <<"c", "c", "b", "c", "b", "a">>,
      <<"c", "c", "c", "c", "c", "c", "c", "a", "u">>,
      <<"c", "c", "c", "b", "b", "a", "b", "b", "b", "b">>,
      <<"a", "b", "a", "a", "c", "c">>,
      <<"c", "c", "a">> }

Groups == { <<1, 2>>, <<2, 1>>, <<3, 2>>, <<1, 2, 3>>, <<4, 2, 1, 3>>, <<2>> }

CallOf(text, group, missing, on, literal_on) ==
    [input                     |-> text,
     filters                   |-> [i \in DOMAIN group |-> MCFilters[group[i]]],
     unfiltered                |-> missing,
     prefilter_enabled         |-> on,
     literal_prefilter_enabled |-> literal_on]

MCCalls ==
    { CallOf(t, g, {}, TRUE, TRUE) : t \in Texts, g \in Groups }
    \cup { CallOf(t, <<1, 2>>, {}, on, ~ on) : t \in Texts, on \in BOOLEAN }
    \cup { CallOf(t, <<1, 2>>, { 2 }, TRUE, TRUE) : t \in Texts }

\* A hash that collides on prefixes with the same first unit.
MCHashIndex(units) == units[1]
=============================================================================
