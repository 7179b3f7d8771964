------------------------------ MODULE Expansion ------------------------------
(***************************************************************************)
(* Stage 3: one Expand call. The best seeds of stage 2 are widened, one    *)
(* graph walk per seed and direction, and the targets found are collected  *)
(* with the best evidence for each. A walk may fail on its own.            *)
(* Source: internal/composer/stage3, ckgclient Real.Neighbors.             *)
(***************************************************************************)
EXTENDS GraphClient

CONSTANTS
  Place,               \* rank of a citation's file and start line
  Graphs,              \* the sets of edges the store may hold
  SeedLists,           \* what stage 2 may deliver, best first
  Intents,
  MaxSeedsToExpand, NeighborsPerSeed, MaxFinalNeighbors

ASSUME ExpansionConfig ==
  /\ MaxSeedsToExpand \in Nat \ {0}
  /\ NeighborsPerSeed \in Nat \ {0}
  /\ MaxFinalNeighbors \in Nat \ {0}

ASSUME ExpansionInputs ==
  /\ Place \in [Citations -> Nat]
  /\ \A g \in Graphs : g \subseteq StoredEdge /\ IsFiniteSet(g)
  /\ \A s \in SeedLists :
       /\ s \in Seq([citation : Citations, score : Nat])
       /\ \A i, j \in DOMAIN s :
            i < j => s[i].score >= s[j].score /\ s[i].citation # s[j].citation

VARIABLES
  graph, seeds, intent,   \* fixed while the call runs
  at,          \* the seed under expansion
  answers,     \* per seed, the answers of its walks so far, one per direction
  agg,         \* neighborAggregator.byTarget
  failedSeeds, \* Stage3Output.FailedSeeds
  returned,    \* Expand has returned
  neighbors    \* the targets of Stage3Output.Neighbors

vars == <<graph, seeds, intent, at, answers, agg, failedSeeds, returned, neighbors>>

(***************************************************************************)
(* The traversal plan                                                      *)
(***************************************************************************)
intentToRelations ==
  [i \in Intents |->
     CASE i = "bug_fix" -> {"called_by", "calls"}
       [] i = "feature_add" -> {"imports", "implements", "references"}
       [] i = "refactor" -> {"called_by", "calls", "references", "implements"}
       [] i = "arch_explain" -> {"imports", "defines", "calls", "implements", "embeds"}
       [] i = "test_add" -> {"tested_by", "calls", "called_by"}
       [] i \in {"concurrency_safety", "security"} -> {"called_by", "references", "calls"}
       [] i = "docs_update" -> {"defines", "implements"}
       [] OTHER -> {}]

TraceIntents == {"bug_fix", "refactor", "arch_explain", "concurrency_safety", "security"}
intentToHops(i) == IF i \in TraceIntents THEN 2 ELSE 1

\* One group per direction, forward first; no relation at all is one broad walk.
splitByDirection(rels) ==
  LET forward == rels \ {"called_by"}
      reverse == rels \intersect {"called_by"}
      Group(g) == IF g = {} THEN <<>> ELSE <<g>>
  IN IF rels = {} THEN <<{}>> ELSE Group(forward) \o Group(reverse)

(***************************************************************************)
(* Expand                                                                  *)
(***************************************************************************)
\* Fault: one seed too many.
OneMoreSeed == 1..Smaller(Len(seeds), MaxSeedsToExpand + 1)
toExpand == 1..Smaller(Len(seeds), MaxSeedsToExpand)

buildSeedKeys == {seeds[i].citation : i \in DOMAIN seeds}

relationGroups == splitByDirection(intentToRelations[intent])

Init ==
  /\ graph \in Graphs /\ seeds \in SeedLists /\ intent \in Intents
  /\ at = 1
  /\ answers = [i \in DOMAIN seeds |-> <<>>]
  /\ agg = <<>> /\ failedSeeds = {} /\ returned = FALSE /\ neighbors = {}

Asking ==
  /\ at \in toExpand /\ Len(answers[at]) < Len(relationGroups)
  /\ UNCHANGED <<graph, seeds, intent, at, agg, failedSeeds, returned, neighbors>>
Answer(err, found) ==
  answers' = [answers EXCEPT ![at] = Append(@, [err |-> err, found |-> found])]

WalkAnswers ==
  /\ Asking
  /\ LET group == relationGroups[Len(answers[at]) + 1]
         node == matchQname(seeds[at].citation)
         plan == planTraversal(group)
     IN /\ node # NoNode /\ ~ Mixed(group)
        /\ \E found \in Walks(graph, node, plan, intentToHops(intent), NeighborsPerSeed) :
             Answer(FALSE, found)

\* No node at the citation, a mixed relation set, or the store's own error.
WalkFails == Asking /\ Answer(TRUE, {})

Answered == at \in toExpand /\ Len(answers[at]) = Len(relationGroups)
Found(i) == UNION {answers[i][g].found : g \in DOMAIN answers[i]}

\* seedErr outlives a later walk that succeeds.
SeedErr(i) == \E g \in DOMAIN answers[i] : answers[i][g].err

\* Fault: one failed walk gives the whole seed up.
AnyFailure(i) == SeedErr(i)
GaveNothing(i) == SeedErr(i) /\ Found(i) = {}

FailSeed ==
  /\ Answered /\ GaveNothing(at)
  /\ failedSeeds' = failedSeeds \union {seeds[at].citation}
  /\ at' = at + 1
  /\ UNCHANGED <<graph, seeds, intent, answers, agg, returned, neighbors>>

\* A target that is a seed already carries stronger evidence from stage 2.
Targets(i) == {n.target : n \in Found(i)} \ buildSeedKeys

\* Distance is 1 in every neighbor the client reports.
Decayed(score) == score \div (1 + 1)

Sources(i, t) == {[seed |-> seeds[i].citation, relation |-> n.relation] :
                    n \in {m \in Found(i) : m.target = t}}

\* The edges add may see first: those of the first walk that found the target.
FirstEdges(i, t) ==
  LET To(g) == {n \in answers[i][g].found : n.target = t}
  IN To(CHOOSE g \in DOMAIN answers[i] :
          To(g) # {} /\ \A h \in DOMAIN answers[i] : To(h) # {} => g <= h)

Better(score, entry) == score > entry.score

Merged(t, edge) ==
  LET score == Decayed(seeds[at].score)
      fresh == [edge |-> edge, score |-> score, sources |-> Sources(at, t)]
  IN IF t \notin DOMAIN agg THEN fresh
     ELSE LET all == agg[t].sources \union fresh.sources
          IN IF Better(score, agg[t]) THEN [fresh EXCEPT !.sources = all]
             ELSE [agg[t] EXCEPT !.sources = all]

AggregateSeed ==
  /\ Answered /\ ~ GaveNothing(at)
  /\ \E first \in [Targets(at) -> Found(at)] :
       /\ \A t \in Targets(at) : first[t] \in FirstEdges(at, t)
       /\ agg' = [t \in DOMAIN agg \union Targets(at) |->
                   IF t \in Targets(at) THEN Merged(t, first[t]) ELSE agg[t]]
  /\ at' = at + 1
  /\ UNCHANGED <<graph, seeds, intent, answers, failedSeeds, returned, neighbors>>

\* Fault: only the place counts.
PlacedBefore(t, u) == Place[t] < Place[u]
\* Equal scores and places are left in the order the map gave them.
RankedBefore(t, u) ==
  \/ agg[t].score > agg[u].score
  \/ agg[t].score = agg[u].score /\ Place[t] < Place[u]

\* The sort and the cap: no target left out ranks before one that is kept.
Rank ==
  /\ at \notin toExpand /\ ~ returned
  /\ returned' = TRUE
  /\ neighbors' \in {K \in kSubset(Smaller(MaxFinalNeighbors, Cardinality(DOMAIN agg)), DOMAIN agg) :
                       \A t \in K, u \in DOMAIN agg \ K : ~ RankedBefore(u, t)}
  /\ UNCHANGED <<graph, seeds, intent, at, answers, agg, failedSeeds>>

Next == WalkAnswers \/ WalkFails \/ FailSeed \/ AggregateSeed \/ Rank
Spec == Init /\ [][Next]_vars

(***************************************************************************)
(* Properties                                                              *)
(***************************************************************************)
\* Types; at most MaxSeedsToExpand seeds are walked from (Expand's call budget)
\* and at most NeighborsPerSeed edges come back per walk.
TypeOK ==
  /\ at \in 1..MaxSeedsToExpand + 1
  /\ \A i \in DOMAIN answers, g \in 1..2 : g \in DOMAIN answers[i] =>
     /\ answers[i][g].err \in BOOLEAN /\ answers[i][g].found \subseteq Neighbor
     /\ Cardinality(answers[i][g].found) <= NeighborsPerSeed
  /\ DOMAIN agg \subseteq Nodes
  /\ \A t \in DOMAIN agg : agg[t].edge \in Neighbor /\ agg[t].score \in Nat
  /\ failedSeeds \subseteq Citations
  /\ returned \in BOOLEAN /\ neighbors \subseteq DOMAIN agg

Done(i) == i \in toExpand /\ i < at
Finders(t) == {i \in toExpand : Done(i) /\ \E n \in Found(i) : n.target = t}

\* What any walk of any expanded seed found is collected, with every seed and
\* relation that led there, even when the seed's other walk failed; a seed, one
\* that was not expanded included, never comes back as a neighbor (Expand's
\* aggregation loop and its self-loop check).
PartialAnswersKept ==
  /\ DOMAIN agg = {t \in Nodes : Finders(t) # {}} \ {seeds[i].citation : i \in DOMAIN seeds}
  /\ \A t \in DOMAIN agg : agg[t].sources = UNION {Sources(i, t) : i \in Finders(t)}

\* A target reached from several seeds keeps the best of their scores and an
\* edge that a seed of that score found (neighborAggregator.add).
BestEvidence ==
  \A t \in DOMAIN agg :
    /\ \A i \in Finders(t) : agg[t].score >= Decayed(seeds[i].score)
    /\ agg[t].edge.target = t
    /\ \E i \in Finders(t) :
         agg[t].score = Decayed(seeds[i].score) /\ agg[t].edge \in Found(i)

\* A seed from which nothing came because a walk failed is named, and a seed that
\* is named gave nothing (Stage3Output.FailedSeeds).
FailuresNamed ==
  \A i \in toExpand : Done(i) =>
    (seeds[i].citation \in failedSeeds <=>
       Found(i) = {} /\ \E g \in DOMAIN answers[i] : answers[i][g].err)

\* The cap fills up and never drops a target for one with a lower score, whatever
\* order the aggregator's map is read in (neighborAggregator.results).
CapKeepsBest ==
  returned =>
    /\ Cardinality(neighbors) = Smaller(MaxFinalNeighbors, Cardinality(DOMAIN agg))
    /\ \A t \in neighbors, u \in DOMAIN agg \ neighbors : agg[t].score >= agg[u].score

\* Nothing a walk found is lost, and no failure that cost something.
AnswersAccounted == PartialAnswersKept /\ FailuresNamed

\* The best edge of each target and, under the cap, the best targets.
BestIsKept == BestEvidence /\ CapKeepsBest
=============================================================================
