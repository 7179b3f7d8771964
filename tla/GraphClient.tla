------------------------------ MODULE GraphClient ------------------------------
(***************************************************************************)
(* How the graph client reads its store: the plan of a walk, the nodes it  *)
(* starts from, and how stored edges become neighbors. Stage 3 and the     *)
(* direct graph tools share it. Source: internal/ckgclient/real.go.        *)
(***************************************************************************)
EXTENDS Integers, Sequences, FiniteSets, FiniteSetsExt

CONSTANTS
  Nodes,               \* citations of the graph's symbols
  Spans,               \* citations that are no symbol: a chunk, a stale range
  Enclosing,           \* the node a span lies in, or NoNode
  NoNode,
  Qname,               \* per node its qualified name, which several may share
  InterfaceMethods     \* per method, its namesakes on the interfaces of its type

EdgeTypes == {"calls", "invokes", "implements", "imports", "references",
              "extends", "defines", "uses_type"}
Relations == {"calls", "called_by", "implements", "imports", "references",
              "tested_by", "embeds", "defines"}
Citations == Nodes \union Spans
StoredEdge == [src : Nodes, dst : Nodes, type : EdgeTypes]
Neighbor == [source : Nodes, target : Nodes, relation : Relations]

ASSUME GraphClientInputs ==
  /\ Nodes \intersect Spans = {} /\ NoNode \notin Citations
  /\ Enclosing \in [Spans -> Nodes \union {NoNode}]
  /\ InterfaceMethods \in [Nodes -> SUBSET Nodes]

Smaller(m, n) == IF m < n THEN m ELSE n

planTraversal(rels) ==
  LET TypesOf(r) == CASE r \in {"calls", "called_by"} -> {"calls", "invokes"}
                      [] r = "embeds" -> {"extends"}
                      [] r = "tested_by" -> {}
                      [] OTHER -> {r}
  IN [reverse |-> "called_by" \in rels,
      types |-> IF rels = {} THEN EdgeTypes \ {"uses_type"} ELSE UNION {TypesOf(r) : r \in rels}]

\* A walk has one direction; a mixed set is refused.
Mixed(rels) == "called_by" \in rels /\ rels # {"called_by"}

\* Edge types without a counterpart are dropped from every answer.
Translated(e) == e.type # "uses_type"
relationFromEdgeType(type, reverse) ==
  CASE type \in {"calls", "invokes"} -> IF reverse THEN "called_by" ELSE "calls"
    [] type = "extends" -> "embeds"
    [] OTHER -> type

\* A citation names the node with its range, else the first node around it.
matchQname(c) == IF c \in Nodes THEN c ELSE Enclosing[c]

\* The store's edges within hops of the start nodes, in the walk's direction.
Neighborhood(edges, start, plan, hops) ==
  LET Near(e) == IF plan.reverse THEN e.dst ELSE e.src
      Far(e) == IF plan.reverse THEN e.src ELSE e.dst
      From(S) == {e \in edges : Near(e) \in S /\ e.type \in plan.types}
      within[k \in 1..hops] ==
        IF k = 1 THEN From(start) ELSE within[k - 1] \union From({Far(e) : e \in within[k - 1]})
  IN within[hops]

\* The store is asked for a name: it starts from one of the nodes that have it,
\* or from all of them.
OneOrAll(S) == {S} \union {{n} : n \in S}
SameName(n) == {m \in Nodes : Qname[m] = Qname[n]}

\* The nodes a walk may start from: a reverse walk adds the interface methods
\* of the seed, unless the store fails to name them, which ends nothing.
Starts(node, reverse) ==
  LET bridged == UNION {SameName(m) : m \in InterfaceMethods[node]}
  IN {own \union more : own \in OneOrAll(SameName(node)), more \in IF reverse THEN {{}, bridged} ELSE {{}}}

\* Source and target are the ends of the stored edge, whatever the direction.
AsNeighbor(e, reverse) ==
  [source |-> e.src, target |-> e.dst, relation |-> relationFromEdgeType(e.type, reverse)]

\* The sets that MaxTotal may leave of S: the store's order decides which; no
\* positive maximum leaves all.
Capped(S, max) ==
  IF max <= 0 THEN {S} ELSE kSubset(Smaller(max, Cardinality(S)), S)

\* What a walk may find: all there is, or as much as MaxTotal lets through.
Walks(edges, node, plan, hops, max) ==
  UNION {{{AsNeighbor(e, plan.reverse) : e \in E} : E \in Capped(Neighborhood(edges, start, plan, hops), max)}
         : start \in Starts(node, plan.reverse)}
=============================================================================
