------------------------------ MODULE GraphTools ------------------------------
(***************************************************************************)
(* One direct call of a graph tool: find_symbol, find_callers,             *)
(* find_callees, get_subgraph, impact_analysis, concurrency_impact,        *)
(* change_history, search_text. A call reads the store several times, each *)
(* read may fail on its own, and a name may mean several symbols.          *)
(* Source: internal/mcp/{graph,analysis,concurrency,search,testfilter}.go, *)
(* internal/ckgclient/real.go.                                             *)
(***************************************************************************)
EXTENDS GraphClient, Lists, SequencesExt

CONSTANTS
  CanonicalId,    \* per node its canonical id, in dotted segments like the names; some have none
  TestNodes,      \* nodes in test and test-support files
  Stores,         \* the sets of edges the store may hold
  Calls,          \* the calls a client makes
  Rankings,       \* what the full-text index may rank for a query
  Impacts,        \* what ckg's impact analysis may answer, category by category
  Hunks, PRs,     \* the evidence for an intent; per node its pull requests
  DefaultSubgraphMaxTotal, DefaultSearchLimit, FilterOverfetchRatio

Relatives == {"find_callers", "find_callees"}
Traversals == {"get_subgraph", "impact_analysis", "concurrency_impact", "change_history"}
Tools == Relatives \union Traversals \union {"find_symbol", "search_text"}
impactGroupOrder == <<"callers", "interface_impact", "type_users", "distributed",
                      "concurrent", "other_refs">>
Name == Seq(STRING)
\* only: the nodes that the call's kinds, language and path filters let through.
Call == [tool : Tools, name : Name, intent : BOOLEAN, only : SUBSET Nodes,
         excludeTests : BOOLEAN, depth : Nat, max : Nat]

ASSUME GraphToolsInputs ==
  /\ \A n \in Nodes : Qname[n] \in Name /\ CanonicalId[n] \in Name
  /\ TestNodes \subseteq Nodes /\ PRs \in [Nodes -> SUBSET Nat]
  /\ IsFiniteSet(Nodes) /\ \A g \in Stores : g \subseteq StoredEdge /\ IsFiniteSet(g)
  /\ Calls \subseteq Call
  /\ {DefaultSubgraphMaxTotal, DefaultSearchLimit, FilterOverfetchRatio} \subseteq Nat \ {0}
  /\ \A r \in Rankings : r \in Seq(Nodes)
  /\ \A i \in Impacts : i \in [DOMAIN impactGroupOrder -> Seq(Nodes \union {NoNode})]

VARIABLES
  store,      \* the graph's edges
  impact,     \* ckg's impact analysis of the call's symbol, per category
  call,
  step,         \* the read the call is about to make
  dropped,    \* leading segments dropped from the name so far
  cands,      \* the nodes the name was resolved to, then the one the call acts on
  target,     \* what a traversal is asked for: a qualified name, or the name as given
  nodes, edges, groups, hunks, prs,   \* the reply's parts
  reply       \* "none", "error" or "ok"

parts == <<nodes, edges, groups, hunks, prs>>
toolsVars == <<store, impact, call, step, dropped, cands, target, parts, reply>>

NothingFound == [g \in DOMAIN impactGroupOrder |-> <<>>]

ToolsInit ==
  /\ store \in Stores /\ call \in Calls
  /\ impact \in IF call.tool = "impact_analysis" THEN Impacts ELSE {NothingFound}
  /\ step = "arguments" /\ dropped = 0 /\ cands = {} /\ target = call.name
  /\ nodes = {} /\ edges = {} /\ groups = NothingFound /\ hunks = {} /\ prs = {}
  /\ reply = "none"

Reply(kind) == reply' = kind /\ step' = "replied"

(***************************************************************************)
(* Arguments                                                               *)
(***************************************************************************)
Missing == call.name = <<>> /\ ~ (call.tool = "change_history" /\ call.intent)

RefuseCall ==
  /\ step = "arguments" /\ Missing
  /\ Reply("error")
  /\ UNCHANGED <<store, impact, call, dropped, cands, target, parts>>

AcceptCall ==
  /\ step = "arguments" /\ ~ Missing
  /\ step' = CASE call.tool = "search_text" -> "index"
             [] call.tool = "change_history" /\ call.intent -> "evidence"
             [] OTHER -> "canonical"
  /\ UNCHANGED <<store, impact, call, dropped, cands, target, parts, reply>>

(***************************************************************************)
(* Resolving the name                                                      *)
(***************************************************************************)
\* A failed lookup of the canonical id counts as a miss.
LookupCanonical ==
  /\ step = "canonical"
  /\ \/ \E n \in Nodes : CanonicalId[n] = call.name /\ cands' = {n} /\ step' = "resolved"
     \/ step' = "suffix" /\ UNCHANGED cands
  /\ UNCHANGED <<store, impact, call, dropped, target, parts, reply>>

SuffixMatches(name) == {n \in Nodes : IsSuffix(name, Qname[n])}
Remaining(k) == SubSeq(call.name, k + 1, Len(call.name))

\* resolveFlexibleNodes: no match drops one more leading segment.
LookupSuffix ==
  /\ step = "suffix"
  /\ cands' = SuffixMatches(Remaining(dropped))
  /\ IF cands' = {} /\ dropped < Len(call.name) - 1
     THEN dropped' = dropped + 1 /\ step' = "suffix"
     ELSE step' = "resolved" /\ UNCHANGED dropped
  /\ UNCHANGED <<store, impact, call, target, parts, reply>>

\* The error ends a find tool's call; the traversals take the name as unresolved.
SuffixLookupFails ==
  /\ step = "suffix"
  /\ IF call.tool \in Traversals
     THEN step' = "resolved" /\ UNCHANGED reply
     ELSE Reply("error")
  /\ UNCHANGED <<store, impact, call, dropped, cands, target, parts>>

\* Fault: one of several matches.
firstResolved(defs, name) == defs

\* What the first match of the exact name may be, or the one of a name that all
\* matches share: among nodes of one name the store's order decides.
uniqueResolved(defs, name) ==
  LET exact == {n \in defs : Qname[n] = name}
  IN IF exact # {} THEN exact ELSE IF Cardinality({Qname[n] : n \in defs}) = 1 THEN defs ELSE {}

\* resolveQname goes on with the name of the node, resolveNodeID with the node.
\* An unresolved name goes to the traversal as it was given, but never to the
\* pull requests.
BindTraversal ==
  /\ step = "resolved" /\ call.tool \in Traversals
  /\ \/ \E n \in uniqueResolved(cands, call.name) : cands' = {n} /\ target' = Qname[n]
     \/ uniqueResolved(cands, call.name) = {} /\ cands' = {} /\ UNCHANGED target
  /\ IF cands' = {} /\ call.tool = "change_history"
     THEN Reply("ok")
     ELSE step' = (IF call.tool = "impact_analysis" THEN "file" ELSE "read") /\ UNCHANGED reply
  /\ UNCHANGED <<store, impact, call, dropped, parts>>

\* resolveSeedFile looks the name up once more, for a file to tell beside it; a
\* lookup that fails or finds several names yields none.
LookupSeedFile ==
  /\ step = "file"
  /\ \/ \E n \in {m \in Nodes : CanonicalId[m] = target} \union uniqueResolved(SuffixMatches(target), target) :
          cands' = {n}
     \/ cands' = {}
  /\ step' = "read"
  /\ UNCHANGED <<store, impact, call, dropped, target, parts, reply>>

\* filterCitationsTests, filterHitsTests
ShownNodes(S) == IF call.excludeTests THEN S \ TestNodes ELSE S

nodeMatchesKinds(n) == n \in call.only

ReplySymbols ==
  /\ step = "resolved" /\ call.tool = "find_symbol"
  /\ nodes' = ShownNodes({n \in cands : nodeMatchesKinds(n)})
  /\ Reply("ok")
  /\ UNCHANGED <<store, impact, call, dropped, cands, target, edges, groups, hunks, prs>>

\* find_callers and find_callees: no match is an empty answer, and the first of
\* several matches is the seed.
BindSeed ==
  /\ step = "resolved" /\ call.tool \in Relatives
  /\ IF cands = {}
     THEN Reply("ok") /\ UNCHANGED <<cands, nodes>>
     ELSE \E n \in cands : cands' = {n} /\ nodes' = {n} /\ step' = "read" /\ UNCHANGED reply
  /\ UNCHANGED <<store, impact, call, dropped, target, edges, groups, hunks, prs>>

(***************************************************************************)
(* The reads that answer                                                   *)
(***************************************************************************)
Reading(tools) ==
  /\ step = "read" /\ call.tool \in tools
  /\ UNCHANGED <<store, impact, call, dropped, target>>

Depth == IF call.depth = 0 THEN 1 ELSE call.depth

\* filterNeighborsByTarget
ShownByTarget(E) == IF call.excludeTests THEN {e \in E : e.target \notin TestNodes} ELSE E

ReadRelatives ==
  /\ Reading(Relatives)
  /\ LET plan == planTraversal({IF call.tool = "find_callers" THEN "called_by" ELSE "calls"})
     IN \E found \in UNION {Walks(store, n, plan, Depth, call.max) : n \in cands} :
          edges' = ShownByTarget(found)
  /\ Reply("ok")
  /\ UNCHANGED <<cands, nodes, groups, hunks, prs>>

\* filterEdgesTests
ShownEdges(E) ==
  IF call.excludeTests THEN {e \in E : {e.source, e.target} \intersect TestNodes = {}} ELSE E

Root == {n \in Nodes : Qname[n] = target}
Touching(S) == {e \in store : e.src \in S \/ e.dst \in S}
EndsOf(E) == {e.src : e \in E} \union {e.dst : e \in E}

\* The store's answer: the nodes within depth, and edges some of which lead out.
Within(start, depth) ==
  LET within[k \in 0..depth] ==
        IF k = 0 THEN start ELSE within[k - 1] \union EndsOf(Touching(within[k - 1]))
  IN within[depth]

\* Fault: an edge whose other end was not delivered is kept.
AnyEdge(reached) == {e \in Touching(reached) : Translated(e)}
Usable(reached) ==
  {e \in store : Translated(e) /\ e.src \in reached /\ e.dst \in reached}

EdgeLimit == IF call.max > 0 THEN call.max ELSE DefaultSubgraphMaxTotal

\* The cap is on the edges; only their ends stay among the nodes, and the seed:
\* the first node of the answer that has the name.
ReadSubgraph ==
  /\ Reading({"get_subgraph"})
  /\ \E start \in OneOrAll(Root) :
       LET reached == Within(start, Depth)
       IN \E E \in Capped(Usable(reached), EdgeLimit) :
            /\ \/ \E seed \in reached \intersect Root : cands' = {seed}
               \/ Root = {} /\ cands' = {}
            /\ edges' = ShownEdges({AsNeighbor(e, FALSE) : e \in E})
            /\ nodes' = ShownNodes(reached \intersect (cands' \union EndsOf(E)))
  /\ Reply("ok")
  /\ UNCHANGED <<groups, hunks, prs>>

\* Fault: entries without a file or a line are kept.
allEntries(g) == impact[g]
\* Entries without a file or a line do not count.
Entries(g) == Kept(impact[g], Nodes)
FirstOf(list, max) == SubSeq(list, 1, Smaller(max, Len(list)))

\* Fault: the count starts over with every category.
roomPerCategory(g) == call.max
\* One count for all categories, in their fixed order.
Hits(S) == UNION {{h} \X DOMAIN Entries(h) : h \in S}
roomFor(g) == call.max - Cardinality(Hits(1..g - 1))

impactResultFromMap ==
  [g \in DOMAIN impactGroupOrder |->
     IF call.max = 0 THEN Entries(g) ELSE FirstOf(Entries(g), roomFor(g))]

\* Not found: no node of that name, or none in the file.
ReadImpact ==
  /\ Reading({"impact_analysis"})
  /\ \/ Root # {} /\ groups' = impactResultFromMap
     \/ groups' = NothingFound
  /\ Reply("ok")
  /\ UNCHANGED <<cands, nodes, edges, hunks, prs>>

ReadConcurrency ==
  /\ Reading({"concurrency_impact"})
  /\ nodes' \in IF Root = {} THEN {{}} ELSE SUBSET Nodes
  /\ Reply("ok")
  /\ UNCHANGED <<cands, edges, groups, hunks, prs>>

ReadEvidence ==
  /\ step = "evidence"
  /\ hunks' \in SUBSET Hunks
  /\ IF call.name = <<>> THEN Reply("ok") ELSE step' = "canonical" /\ UNCHANGED reply
  /\ UNCHANGED <<store, impact, call, dropped, cands, target, nodes, edges, groups, prs>>

ReadPRs ==
  /\ Reading({"change_history"})
  /\ prs' \in UNION {Capped(PRs[n], call.max) : n \in cands}
  /\ Reply("ok")
  /\ UNCHANGED <<cands, nodes, edges, groups, hunks>>

\* BM25Search: with a filter more rows are fetched, and the first of them that
\* the filter lets through are kept.
Search(ranking) ==
  LET limit == IF call.max > 0 THEN call.max ELSE DefaultSearchLimit
      fetch == IF call.only = Nodes THEN limit ELSE limit * FilterOverfetchRatio
      rows == Kept(FirstOf(ranking, fetch), call.only)
  IN ToSet(FirstOf(rows, limit))

ReadIndex ==
  /\ step = "index"
  /\ \E ranking \in Rankings : nodes' = ShownNodes(Search(ranking))
  /\ Reply("ok")
  /\ UNCHANGED <<store, impact, call, dropped, cands, target, edges, groups, hunks, prs>>

\* Any failed read ends the call, and nothing of the reply is kept.
ReadFails ==
  /\ step \in {"read", "evidence", "index"}
  /\ Reply("error")
  /\ nodes' = {} /\ edges' = {} /\ groups' = NothingFound /\ hunks' = {} /\ prs' = {}
  /\ UNCHANGED <<store, impact, call, dropped, cands, target>>

Resolve == LookupCanonical \/ LookupSuffix \/ SuffixLookupFails
Bind == BindTraversal \/ LookupSeedFile \/ ReplySymbols \/ BindSeed
Read == \/ ReadRelatives \/ ReadSubgraph \/ ReadImpact \/ ReadConcurrency
        \/ ReadEvidence \/ ReadPRs \/ ReadIndex \/ ReadFails

ToolsNext == RefuseCall \/ AcceptCall \/ Resolve \/ Bind \/ Read
ToolsSpec == ToolsInit /\ [][ToolsNext]_toolsVars
-----------------------------------------------------------------------------
(***************************************************************************)
(* Properties                                                              *)
(***************************************************************************)
\* Types of the call's state.
ToolsTypeOK ==
  /\ store \subseteq StoredEdge /\ call \in Call
  /\ step \in {"arguments", "canonical", "suffix", "resolved", "file", "evidence", "read", "index",
              "replied"}
  /\ dropped \in 0..Len(call.name) /\ cands \subseteq Nodes /\ target \in Name
  /\ nodes \subseteq Nodes /\ edges \subseteq Neighbor
  /\ groups \in [DOMAIN impactGroupOrder -> Seq(Nodes)]
  /\ hunks \subseteq Hunks /\ prs \subseteq UNION {PRs[n] : n \in Nodes}
  /\ reply \in {"none", "error", "ok"}

Answers(tools) == reply = "ok" /\ call.tool \in tools

\* A subgraph is closed under its edges: whatever the cap cut and exclude_tests
\* took away, both ends of every edge are among the nodes, and so is the one node
\* of the name that it is rooted at (GetSubgraph's "keeping nodes and edges
\* consistent and bounded").
SubgraphClosed ==
  Answers({"get_subgraph"}) =>
    /\ {e.source : e \in edges} \union {e.target : e \in edges} \subseteq nodes
    /\ Root # {} => \E seed \in Root : cands = {seed} /\ ShownNodes(cands) \subseteq nodes
    /\ Cardinality(edges) <= EdgeLimit

\* The longest part of the call's name that some symbol's name ends with.
MeantBy(name) ==
  LET lengths == {k \in 0..Len(name) - 1 : SuffixMatches(SubSeq(name, k + 1, Len(name))) # {}}
  IN IF lengths = {} THEN {} ELSE SuffixMatches(SubSeq(name, Min(lengths) + 1, Len(name)))

\* A symbol the caller named, or the only one that could have been meant: each
\* time up to symbols of one qualified name, which resolution does not tell apart.
Meant(n) ==
  \/ \E m \in SameName(n) : call.name \in {Qname[m], CanonicalId[m]}
  \/ MeantBy(call.name) # {} /\ MeantBy(call.name) \subseteq SameName(n)

\* A traversal acts on meant symbols only, whichever lookups fail on the way. The
\* exception is the file told to the impact analysis, which may be that of a
\* symbol whose canonical id reads like the name. Among symbols of one name one is
\* taken without a word, even for a canonical id unless change_history was asked:
\* uniqueResolved's "WITHOUT ever silently guessing" and the single match that
\* docs/symbol-identity-design.md:80-83 asks for hold no further than this.
NeverGuesses ==
  call.tool \in Traversals /\ step \in {"file", "read", "replied"} =>
    /\ call.tool # "change_history" => \A n \in Root : Meant(n)
    /\ \A n \in cands : Meant(n) \/ (call.tool = "impact_analysis" /\ CanonicalId[n] = target)

\* The cap of an impact answer is one for all categories, and what it cuts are
\* the last ones: a category is not cut while a later one has hits.
ImpactCutsLast ==
  Answers({"impact_analysis"}) /\ call.max > 0 =>
    /\ Cardinality(UNION {{g} \X DOMAIN groups[g] : g \in DOMAIN groups}) <= call.max
    /\ \A g, h \in DOMAIN groups : g < h /\ groups[h] # <<>> => groups[g] = Entries(g)
=============================================================================
