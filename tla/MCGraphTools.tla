----------------------------- MODULE MCGraphTools -----------------------------
(* Instances of GraphTools: four symbols, one of them in a test file, two of
   one name, three whose names end alike; a store of a few edges. *)
EXTENDS GraphTools

CONSTANT EdgesAtMost

MCNodes == 1..4
MCTestNodes == {4}
MCEnclosing == <<>>
MCInterfaceMethods == [n \in MCNodes |-> IF n = 1 THEN {3} ELSE {}]
\* One and two share their name, as packages of one leaf make them.
MCQname == <<<<"core", "B", "F">>, <<"core", "B", "F">>, <<"B", "F">>, <<"core", "T">>>>
MCCanonicalId == <<<<"r/core", "(B)", "F">>, <<"r/wbft/core", "(B)", "F">>, <<>>, <<"core", "T">>>>

\* Ambiguous, exact among several, unique, over-qualified, shared, over-qualified
\* and shared, canonical, unknown.
MCNames == {<<"F">>, <<"B", "F">>, <<"T">>, <<"x", "B", "F">>, <<"core", "B", "F">>,
            <<"x", "core", "B", "F">>, MCCanonicalId[2], <<"x", "y">>}

MCEdges ==
  {[src |-> m, dst |-> n, type |-> "calls"] : m \in MCNodes, n \in MCNodes}
    \union {[src |-> 1, dst |-> 3, type |-> "implements"], [src |-> 2, dst |-> 3, type |-> "uses_type"]}
MCStores == UNION {kSubset(k, MCEdges) : k \in 0..EdgesAtMost}

MCRankings == {<<>>, <<4, 1, 2, 3>>, <<1, 4, 2>>}
MCPRs == <<{1, 2}, {3}, {4}, {}>>
MCImpacts == {[g \in 1..6 |-> CASE g = 1 -> callers [] g = 3 -> users [] g = 6 -> others [] OTHER -> <<>>] :
                callers \in {<<>>, <<2>>, <<3, 2>>}, users \in {<<>>, <<1>>, <<NoNode, 3>>},
                others \in {<<>>, <<2, 4>>}}

Asked(tools, names, intents, filters, excludes, depths, maxima) ==
  [tool : tools, name : names, intent : intents, only : filters, excludeTests : excludes,
   depth : depths, max : maxima]
MCCalls ==
  Asked(Relatives \union {"get_subgraph"}, MCNames, {FALSE}, {MCNodes}, BOOLEAN, {0, 2}, {0, 1, 2})
    \union Asked({"impact_analysis"}, MCNames, {FALSE}, {MCNodes}, {FALSE}, {0}, {0, 2, 3})
    \union Asked({"concurrency_impact"}, MCNames, {FALSE}, {MCNodes}, {FALSE}, {0}, {0})
    \union Asked({"change_history"}, MCNames \union {<<>>}, BOOLEAN, {MCNodes}, {FALSE}, {0}, {0, 1})
    \union Asked({"find_symbol"}, MCNames \union {<<>>}, {FALSE}, {MCNodes, {1, 4}}, BOOLEAN, {0}, {0})
    \union Asked({"search_text"}, {<<>>, <<"F">>}, {FALSE}, {MCNodes, {2, 3}}, BOOLEAN, {0}, {0, 1})
=============================================================================
