----------------------------- MODULE MCExpansion -----------------------------
(* Instances of Expansion. Nodes are numbers; a graph is a few edges. A seed
   list has the nodes 1 and 2 and the chunk, which lies in node 3, whose name
   node 1 has too. *)
EXTENDS Expansion

CONSTANTS EdgesAtMost, Chunk

MCNodes == 1..4
MCSpans == {Chunk}
MCEnclosing == [c \in MCSpans |-> 3]
MCPlace == [c \in MCNodes \union MCSpans |-> IF c \in {3, 4} THEN 3 ELSE 1]
MCQname == <<"core.F", "T.M", "core.F", "I.M">>
MCInterfaceMethods == [n \in MCNodes |-> IF n = 2 THEN {4} ELSE {}]

MCEdges ==
  {[src |-> m, dst |-> n, type |-> "calls"] : m \in MCNodes, n \in MCNodes}
    \union {[src |-> 3, dst |-> 4, type |-> "implements"], [src |-> 1, dst |-> 4, type |-> "uses_type"]}
MCGraphs == UNION {kSubset(k, MCEdges) : k \in 0..EdgesAtMost}

Seed(c, s) == [citation |-> c, score |-> s]
MCSeedLists == {<<>>, <<Seed(1, 4)>>, <<Seed(1, 4), Seed(2, 2)>>,
                <<Seed(2, 6), Seed(Chunk, 4), Seed(1, 2)>>}
=============================================================================
