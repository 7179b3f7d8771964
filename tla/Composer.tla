------------------------------- MODULE Composer -------------------------------
(***************************************************************************)
(* One Compose call: the stage pipeline from prompt to evidence pack.      *)
(* Stage 4 is module Allocator; stages 1-3 appear as what they hand on, a  *)
(* set of seed citations and a ranked set of graph edges; stage 5          *)
(* (sanitize) and the pack assembly are modelled item by item and edge by  *)
(* edge. Source: internal/composer/composer.go, sanitize/engine.go.        *)
(***************************************************************************)
EXTENDS Allocator

CONSTANTS
  Funnels,             \* [seeds, edges]: what stages 2 and 3 may deliver
  MaskedTokens,        \* token estimates a body can have after masking
  MaxEdgeOnlyTargets   \* maxEdgeOnlyTargets

ASSUME ComposerConfig ==
  /\ MaskedTokens \subseteq Nat
  /\ MaxEdgeOnlyTargets \in Nat

\* ScoredNeighbor: one edge per target; the source is whatever node the graph
\* walk found the edge on, a seed or, at depth 2, a node between.
Edge == [source : Keys, target : Keys, score : Scores]

NeighborCandidate(e) ==
  [key |-> e.target, score |-> e.score, origin |-> "neighbor", knowledge |-> FALSE]

\* What stage 4 is called with.
Merged(f) == <<f.seeds, {NeighborCandidate(e) : e \in f.edges}>>

ASSUME ComposerInputs ==
  \A f \in Funnels :
    /\ Merged(f) \in Inputs /\ f.edges \subseteq Edge
    /\ \A e \in f.edges : ~ \E c \in f.seeds : c.key = e.target

VARIABLES
  stage,       \* the pipeline stage Compose is in
  result,      \* "none" until Compose returns "pack" or an error
  edges,       \* s3Out.Neighbors
  items,       \* Stage5Output.Items
  matches,     \* per citation, the actions of the rules its body matches
  report,      \* Stage5Output.Redactions, the pack's SanitizeReport
  citations, bodies, neighbors,   \* the pack under assembly
  pending      \* edges the assembly loop has not reached

packVars == <<citations, bodies, neighbors, pending>>
vars == <<allocVars, stage, result, edges, items, matches, report, packVars>>

Actions == {"fail_closed", "drop", "mask"}

Init ==
  /\ \E f \in Funnels :
       /\ edges = f.edges
       /\ AllocStart(Merged(f)[1], Merged(f)[2])
  /\ stage = "intent" /\ result = "none"
  /\ items = <<>> /\ matches = [k \in Keys |-> {}] /\ report = {}
  /\ citations = {} /\ bodies = {} /\ neighbors = {} /\ pending = {}

(***************************************************************************)
(* Stages 1 to 4                                                           *)
(***************************************************************************)
\* A classifier error degrades the intent to Unknown; it never ends the call.
ClassifyIntent ==
  /\ stage = "intent"
  /\ stage' = "stage1"
  /\ UNCHANGED <<allocVars, result, edges, items, matches, report, packVars>>

RetrievalStages == {"stage1", "stage2", "stage3"}
After(s) == CASE s = "stage1" -> "stage2" [] s = "stage2" -> "stage3"
              [] s = "stage3" -> "stage4"

StageSucceeds ==
  /\ stage \in RetrievalStages
  /\ stage' = After(stage)
  /\ UNCHANGED <<allocVars, result, edges, items, matches, report, packVars>>

StageFails ==
  /\ stage \in RetrievalStages
  /\ stage' = "done" /\ result' = "stage_error"
  /\ UNCHANGED <<allocVars, edges, items, matches, report, packVars>>

Allocate ==
  /\ stage = "stage4"
  /\ AllocNext
  /\ stage' = IF loop' = "done" THEN "stage5" ELSE stage
  /\ UNCHANGED <<result, edges, items, matches, report, packVars>>

(***************************************************************************)
(* Stage 5: sanitize                                                       *)
(***************************************************************************)
\* The next body is inspected; m is the set of actions of the rules it matches.
Inspect(m) ==
  /\ stage = "stage5" /\ Len(items) < Len(selected)
  /\ matches' = [matches EXCEPT ![selected[Len(items) + 1].key] = m]
  /\ UNCHANGED <<allocVars, edges, packVars>>

Deliver(tokens, text) ==
  items' = Append(items, [key |-> selected[Len(items) + 1].key,
                          tokens |-> tokens, text |-> text])
Report(action) ==
  report' = report \union {[key |-> selected[Len(items) + 1].key, action |-> action]}

\* Fault: the match is reported, but the pass goes on.
RefuseAndContinue(m) ==
  /\ Inspect(m) /\ "fail_closed" \in m
  /\ Report("fail_closed")
  /\ Deliver(selected[Len(items) + 1].tokens, "raw")
  /\ UNCHANGED <<stage, result>>

\* A fail_closed match ends the whole pass, and Compose returns ErrFailClosed.
RefusePack(m) ==
  /\ Inspect(m) /\ "fail_closed" \in m
  /\ Report("fail_closed")
  /\ Deliver(selected[Len(items) + 1].tokens, "raw")
  /\ stage' = "done" /\ result' = "fail_closed"

\* Fault: the body is dropped without a redaction entry.
DropSilently(m) ==
  /\ Inspect(m) /\ "fail_closed" \notin m /\ "drop" \in m
  /\ Deliver(0, "dropped")
  /\ UNCHANGED <<stage, result, report>>

DropBody(m) ==
  /\ Inspect(m) /\ "fail_closed" \notin m /\ "drop" \in m
  /\ Report("drop")
  /\ Deliver(0, "dropped")
  /\ UNCHANGED <<stage, result>>

MaskBody(m, tokens) ==
  /\ Inspect(m) /\ m = {"mask"}
  /\ Report("mask")
  /\ Deliver(tokens, "masked")
  /\ UNCHANGED <<stage, result>>

KeepBody(m) ==
  /\ Inspect(m) /\ m = {}
  /\ Deliver(selected[Len(items) + 1].tokens, "raw")
  /\ UNCHANGED <<stage, result, report>>

Sanitize ==
  \E m \in SUBSET Actions :
    \/ RefusePack(m)
    \/ DropBody(m)
    \/ \E t \in MaskedTokens : MaskBody(m, t)
    \/ KeepBody(m)

(***************************************************************************)
(* assemblePack                                                            *)
(***************************************************************************)
KeptItems == {i \in DOMAIN items : items[i].text # "dropped"}

CollectBodies ==
  /\ stage = "stage5" /\ Len(items) = Len(selected)
  /\ stage' = "assemble"
  /\ citations' = {items[i].key : i \in KeptItems}
  /\ bodies' = {items[i] : i \in KeptItems}
  /\ pending' = edges
  /\ UNCHANGED <<allocVars, result, edges, items, matches, report, neighbors>>

BodyKeys == {b.key : b \in bodies}
EdgeOnly == citations \ BodyKeys

\* s3Out.Neighbors is sorted by score, then by the target's file and line.
Reach(e) ==
  /\ stage = "assemble" /\ e \in pending
  /\ \A d \in pending \ {e} : \/ e.score > d.score
                              \/ e.score = d.score /\ e.target < d.target
  /\ pending' = pending \ {e}
  /\ UNCHANGED <<allocVars, stage, result, edges, items, matches, report, bodies>>

\* The target already has a citation: the edge joins the pack.
AdmitEdge(e) ==
  /\ Reach(e)
  /\ e.source \in citations /\ e.target \in citations
  /\ neighbors' = neighbors \union {e}
  /\ UNCHANGED citations

\* Fault: the edge joins the pack, its target gets no citation.
AdmitUncited(e) ==
  /\ Reach(e)
  /\ e.source \in citations /\ e.target \notin citations
  /\ e.target \notin skipped
  /\ Cardinality(EdgeOnly) < MaxEdgeOnlyTargets
  /\ neighbors' = neighbors \union {e}
  /\ UNCHANGED citations

\* The target becomes an edge-only citation, unless stage 4 rejected it or the
\* pack holds the maximum of those already.
AdmitTarget(e) ==
  /\ Reach(e)
  /\ e.source \in citations /\ e.target \notin citations
  /\ e.target \notin skipped
  /\ Cardinality(EdgeOnly) < MaxEdgeOnlyTargets
  /\ neighbors' = neighbors \union {e}
  /\ citations' = citations \union {e.target}

RejectEdge(e) ==
  /\ Reach(e)
  /\ \/ e.source \notin citations
     \/ /\ e.target \notin citations
        /\ \/ e.target \in skipped
           \/ Cardinality(EdgeOnly) >= MaxEdgeOnlyTargets
  /\ UNCHANGED <<citations, neighbors>>

Release ==
  /\ stage = "assemble" /\ pending = {}
  /\ stage' = "done" /\ result' = "pack"
  /\ UNCHANGED <<allocVars, edges, items, matches, report, packVars>>

Assemble ==
  \/ CollectBodies
  \/ \E e \in pending : AdmitEdge(e) \/ AdmitTarget(e) \/ RejectEdge(e)
  \/ Release

Next == ClassifyIntent \/ StageSucceeds \/ StageFails \/ Allocate \/ Sanitize \/ Assemble

Spec == Init /\ [][Next]_vars
-----------------------------------------------------------------------------
(***************************************************************************)
(* Properties                                                              *)
(***************************************************************************)
SanitizedItem == [key : Keys, tokens : Nat, text : {"raw", "masked", "dropped"}]

\* Type invariant of the pipeline.
TypeOK ==
  /\ AllocTypeOK
  /\ stage \in RetrievalStages \union {"intent", "stage4", "stage5", "assemble", "done"}
  /\ result \in {"none", "stage_error", "fail_closed", "pack"}
  /\ edges \subseteq Edge /\ pending \subseteq edges /\ neighbors \subseteq edges
  /\ items \in Seq(SanitizedItem) /\ Len(items) <= Len(selected)
  /\ matches \in [Keys -> SUBSET Actions]
  /\ report \subseteq [key : Keys, action : Actions]
  /\ citations \subseteq Keys /\ bodies \subseteq SanitizedItem

Released == result = "pack"

\* EvidencePack.IsValid: the pack's bodies and both ends of its edges are
\* cited, while citations are added as the edge loop goes along; those that
\* edges alone brought in are bounded, whatever the graph delivers.
PackValid ==
  Released =>
    /\ Cardinality(EdgeOnly) <= MaxEdgeOnlyTargets
    /\ BodyKeys \subseteq citations
    /\ \A e \in neighbors : e.source \in citations /\ e.target \in citations

\* No text a rule forbids leaves Compose: one fail_closed match in any
\* selected body and no pack is released at all, a body matching a drop rule
\* is not in the pack, and one matching a mask rule is there masked only.
NoForbiddenText ==
  Released =>
    /\ \A i \in DOMAIN selected : "fail_closed" \notin matches[selected[i].key]
    /\ \A b \in bodies :
         /\ "drop" \notin matches[b.key]
         /\ "mask" \in matches[b.key] => b.text = "masked"

\* Every selected body that is missing from the pack is accounted for by a
\* drop entry in its report, and no body of the pack has one. A citation that
\* stage 4 evaluated and rejected does not come back through the graph, which
\* knows nothing of it: its absence is a signal (composer.go:371-376).
AbsenceIsExplained ==
  Released =>
    /\ \A i \in DOMAIN selected :
         selected[i].key \notin BodyKeys <=> [key |-> selected[i].key, action |-> "drop"] \in report
    /\ citations \intersect skipped = {}
=============================================================================
