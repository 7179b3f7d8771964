------------------------------ MODULE MCComposer ------------------------------
(* Instances of Composer. The shape of a funnel maps a key to what stages 2
   and 3 found there: Code or Knowledge for a seed, the source key of the edge
   to a neighbor, or Absent. *)
EXTENDS Composer

CONSTANT EdgesAtLeast   \* leave out funnels with fewer edges

Absent == 0
Code == -1
Knowledge == -2

MCScore(k) == Cardinality(Keys) + 1 - k
MCScores == 1..Cardinality(Keys)

KeysWith(g, S) == {k \in Keys : g[k] \in S}
Shapes == {g \in [Keys -> Keys \union {Absent, Code, Knowledge}] :
             /\ \A k \in Keys : g[k] # k
             /\ KeysWith(g, {Code}) # {}
             /\ Cardinality(KeysWith(g, Keys)) >= EdgesAtLeast}

MCFunnels ==
  {[seeds |-> {[key |-> k, score |-> MCScore(k), origin |-> "seed",
                knowledge |-> g[k] = Knowledge] : k \in KeysWith(g, {Code, Knowledge})},
    edges |-> {[source |-> g[k], target |-> k, score |-> MCScore(k)] :
                 k \in KeysWith(g, Keys)}] : g \in Shapes}

MCInputs == {Merged(f) : f \in MCFunnels}
=============================================================================
