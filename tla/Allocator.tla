------------------------------ MODULE Allocator ------------------------------
(***************************************************************************)
(* Stage 4 of the composer: greedy selection of citation bodies under a    *)
(* token budget, a citation cap and two slot reserves.                     *)
(* Source: internal/composer/budget/allocator.go.                          *)
(*                                                                         *)
(* mergeCandidates sorts, the loop then consumes the list front to back.   *)
(* Here the list is the set `todo` of candidates not yet consumed and its  *)
(* head is the candidate no other one sorts before.                        *)
(***************************************************************************)
EXTENDS Integers, Sequences, FiniteSets

CONSTANTS
  Keys,              \* citation keys; their order stands for (file, start line)
  Scores,            \* candidate scores
  BodyBudget,        \* MaxTokens * (1 - OverheadReserve), rounded down
  MaxCitations,      \* 0 means no cap
  NeighborReserve,   \* 0 disables the reserve
  KnowledgeReserve,  \* 0 disables the reserve
  BodyTokens,        \* token estimates a non-empty body can have
  SnippetTokens,     \* token estimates its head snippet can have
  Inputs             \* <<seeds, neighbors>> pairs Allocate may be called with

ASSUME AllocatorConfig ==
  /\ Keys \subseteq Int /\ Scores \subseteq Int
  /\ BodyBudget \in Nat /\ MaxCitations \in Nat
  /\ NeighborReserve \in Nat /\ KnowledgeReserve \in Nat
  /\ BodyTokens \subseteq Nat /\ SnippetTokens \subseteq Nat

Candidate == [key : Keys, score : Scores, origin : {"seed", "neighbor"},
              knowledge : BOOLEAN]

\* Stage 2 yields at most one seed per key and stage 3 one neighbor per
\* target; neighbors carry no chunk kind, so they are never knowledge.
ASSUME AllocatorInputs ==
  \A in \in Inputs :
    /\ in[1] \subseteq {c \in Candidate : c.origin = "seed"}
    /\ in[2] \subseteq {c \in Candidate : c.origin = "neighbor" /\ ~c.knowledge}
    /\ IsFiniteSet(in[1]) /\ IsFiniteSet(in[2])
    /\ \A c, d \in in[1] : c.key = d.key => c = d
    /\ \A c, d \in in[2] : c.key = d.key => c = d

VARIABLES
  candidates,         \* the merged list
  todo,               \* the part of it the loop has not reached
  selected,           \* Stage4Output.Selected, in selection order
  skipped,            \* Stage4Output.Skipped
  passed,             \* candidates a quota passed over: recorded nowhere in the output
  used,               \* running token total
  seedSelected, knowledgeSelected,
  fetchErrors, emptyBodies,
  capTruncated,       \* candidates never reached
  loop                \* "running" or "done"

counters == <<used, seedSelected, knowledgeSelected>>
allocVars == <<candidates, todo, selected, skipped, passed, counters,
               fetchErrors, emptyBodies, capTruncated, loop>>

(***************************************************************************)
(* mergeCandidates                                                         *)
(***************************************************************************)
\* Higher score first, then file and line; the sort is stable and seeds are
\* listed before neighbors, so a seed precedes a neighbor it ties with.
Before(c, d) ==
  \/ c.score > d.score
  \/ c.score = d.score /\ c.key < d.key
  \/ c.score = d.score /\ c.key = d.key /\ c.origin = "seed" /\ d.origin = "neighbor"

\* Of the candidates that share a key the first in sort order is kept.
mergeCandidates(seeds, neighbors) ==
  {c \in seeds \union neighbors :
     ~ \E d \in seeds \union neighbors : d.key = c.key /\ Before(d, c)}

IsNext(c) == c \in todo /\ \A d \in todo \ {c} : Before(c, d)

(***************************************************************************)
(* Slot accounting                                                         *)
(***************************************************************************)
seedCap ==
  IF MaxCitations > 0 /\ NeighborReserve > 0
  THEN IF MaxCitations - NeighborReserve < 1 THEN 1 ELSE MaxCitations - NeighborReserve
  ELSE MaxCitations

ReserveLeft == KnowledgeReserve - knowledgeSelected

SeedQuotaSpent(c) ==
  /\ c.origin = "seed" /\ seedCap > 0 /\ seedSelected >= seedCap
  /\ ~ (c.knowledge /\ knowledgeSelected < KnowledgeReserve)

\* Fault: code bodies may take one of the reserved slots.
HeldOneLate(c) ==
  /\ ~ c.knowledge /\ MaxCitations > 0 /\ KnowledgeReserve > 0
  /\ ReserveLeft > 0 /\ Len(selected) > MaxCitations - ReserveLeft

HeldForKnowledge(c) ==
  /\ ~ c.knowledge /\ MaxCitations > 0 /\ KnowledgeReserve > 0
  /\ ReserveLeft > 0 /\ Len(selected) >= MaxCitations - ReserveLeft

CapReached == MaxCitations > 0 /\ Len(selected) >= MaxCitations

(***************************************************************************)
(* The selection loop: one action per way an iteration can end             *)
(***************************************************************************)
AllocStart(seeds, neighbors) ==
  /\ candidates = mergeCandidates(seeds, neighbors)
  /\ todo = candidates
  /\ selected = <<>> /\ skipped = {} /\ passed = {}
  /\ used = 0 /\ seedSelected = 0 /\ knowledgeSelected = 0
  /\ fetchErrors = 0 /\ emptyBodies = 0 /\ capTruncated = 0
  /\ loop = "running"

AllocInit == \E in \in Inputs : AllocStart(in[1], in[2])

Consume(c) ==
  /\ loop = "running" /\ ~CapReached /\ IsNext(c)
  /\ todo' = todo \ {c}
  /\ UNCHANGED <<candidates, capTruncated, loop>>

PassOver(c) ==
  /\ Consume(c)
  /\ SeedQuotaSpent(c) \/ HeldForKnowledge(c)
  /\ passed' = passed \union {c}
  /\ UNCHANGED <<selected, skipped, counters, fetchErrors, emptyBodies>>

Fetched(c) == Consume(c) /\ ~SeedQuotaSpent(c) /\ ~HeldForKnowledge(c)

FetchFails(c) ==
  /\ Fetched(c)
  /\ fetchErrors' = fetchErrors + 1
  /\ skipped' = skipped \union {c.key}
  /\ UNCHANGED <<selected, passed, counters, emptyBodies>>

FetchEmpty(c) ==
  /\ Fetched(c)
  /\ emptyBodies' = emptyBodies + 1
  /\ skipped' = skipped \union {c.key}
  /\ UNCHANGED <<selected, passed, counters, fetchErrors>>

Item(c, tokens, degraded) ==
  [key |-> c.key, origin |-> c.origin, tokens |-> tokens, degraded |-> degraded]

Select(c, tokens, degraded) ==
  /\ selected' = Append(selected, Item(c, tokens, degraded))
  /\ used' = used + tokens
  /\ seedSelected' = IF c.origin = "seed" THEN seedSelected + 1 ELSE seedSelected
  /\ knowledgeSelected' = IF c.knowledge THEN knowledgeSelected + 1 ELSE knowledgeSelected
  /\ UNCHANGED <<skipped, passed, fetchErrors, emptyBodies>>

SelectFull(c, t) ==
  /\ Fetched(c)
  /\ used + t <= BodyBudget
  /\ Select(c, t, FALSE)

\* Fault: the snippet is not tested against the budget.
SelectSnippetUnchecked(c, t, s) ==
  /\ Fetched(c)
  /\ used + t > BodyBudget
  /\ Select(c, s, TRUE)

\* The body is too large but its head snippet is not.
SelectSnippet(c, t, s) ==
  /\ Fetched(c)
  /\ used + t > BodyBudget
  /\ used + s <= BodyBudget
  /\ Select(c, s, TRUE)

\* Too large, and the snippet is too large as well or does not exist: the
\* body has no more lines than a snippet, or SnippetLines is 0.
OverBudget(c, t) ==
  /\ Fetched(c)
  /\ used + t > BodyBudget
  /\ skipped' = skipped \union {c.key}
  /\ UNCHANGED <<selected, passed, counters, fetchErrors, emptyBodies>>

\* Fault: the count of candidates never reached is one short.
FinishLoopOffByOne ==
  /\ loop = "running"
  /\ todo = {} \/ CapReached
  /\ loop' = "done"
  /\ capTruncated' = Cardinality(todo) - 1
  /\ UNCHANGED <<candidates, todo, selected, skipped, passed, counters,
                 fetchErrors, emptyBodies>>

FinishLoop ==
  /\ loop = "running"
  /\ todo = {} \/ CapReached
  /\ loop' = "done"
  /\ capTruncated' = Cardinality(todo)
  /\ UNCHANGED <<candidates, todo, selected, skipped, passed, counters,
                 fetchErrors, emptyBodies>>

Process(c) ==
  \/ PassOver(c)
  \/ FetchFails(c)
  \/ FetchEmpty(c)
  \/ \E t \in BodyTokens : SelectFull(c, t)
  \/ \E t \in BodyTokens, s \in SnippetTokens : SelectSnippet(c, t, s)
  \/ \E t \in BodyTokens : OverBudget(c, t)

AllocNext == (\E c \in todo : Process(c)) \/ FinishLoop

AllocSpec == AllocInit /\ [][AllocNext]_allocVars
-----------------------------------------------------------------------------
(***************************************************************************)
(* Properties                                                              *)
(***************************************************************************)
SelectedItem == [key : Keys, origin : {"seed", "neighbor"}, tokens : Nat,
                 degraded : BOOLEAN]

\* Type invariant of the allocation state.
AllocTypeOK ==
  /\ candidates \subseteq Candidate /\ todo \subseteq candidates
  /\ selected \in Seq(SelectedItem)
  /\ skipped \subseteq Keys /\ passed \subseteq candidates
  /\ used \in Nat /\ seedSelected \in Nat /\ knowledgeSelected \in Nat
  /\ fetchErrors \in Nat /\ emptyBodies \in Nat /\ capTruncated \in Nat
  /\ loop \in {"running", "done"}

NeighborSelected == Len(selected) - seedSelected

\* Bodies selected never exceed the body share of the token budget, whatever
\* mix of full bodies and degraded snippets was taken.
WithinBudget == used <= BodyBudget

\* The citation cap bounds the selection.
WithinCap == MaxCitations > 0 => Len(selected) <= MaxCitations

\* A knowledge candidate the loop passed over or never reached lost its place
\* to at least as many knowledge candidates as the reserve (or the whole cap)
\* holds: code bodies alone never crowd out domain rules.
KnowledgeReserved ==
  /\ loop = "done"
  /\ \E c \in todo \union passed : c.knowledge
  => \/ knowledgeSelected >= KnowledgeReserve
     \/ knowledgeSelected >= MaxCitations

\* What the neighbor reserve really guarantees: when a neighbor was passed
\* over or never reached, the slots neighbors did get are those the seed quota
\* leaves them, less the knowledge reserve, which is taken out of the same
\* slots.
NeighborFloor ==
  /\ loop = "done" /\ MaxCitations > 0
  /\ \E c \in todo \union passed : c.origin = "neighbor"
  => NeighborSelected >= MaxCitations - seedCap - KnowledgeReserve

\* Both reserves are honoured, each by whatever the other one takes.
ReservesHonoured == KnowledgeReserved /\ NeighborFloor

\* A citation is judged once: its key is selected once at most and is never
\* both selected and skipped, though a seed and a neighbor may carry it.
\* assemblePack relies on it to tell rejected targets from selected ones.
JudgedOnce ==
  /\ \A i, j \in DOMAIN selected : selected[i].key = selected[j].key => i = j
  /\ \A i \in DOMAIN selected : selected[i].key \notin skipped

(***************************************************************************)
(* The reserves hold by these relations, preserved by every step.          *)
(***************************************************************************)
Unfilled == IF knowledgeSelected < KnowledgeReserve THEN ReserveLeft ELSE 0
Exempted == IF knowledgeSelected < KnowledgeReserve THEN knowledgeSelected
                                                    ELSE KnowledgeReserve

\* The slots in use and the unfilled part of the knowledge reserve together
\* fit under the cap; a reserve wider than the cap admits knowledge only.
\* Seeds exceed their quota by exempted knowledge only, and a candidate is
\* passed over only when its reserve was binding.
ReserveInv ==
  /\ knowledgeSelected <= Len(selected)
  /\ MaxCitations > 0 =>
       /\ KnowledgeReserve <= MaxCitations => Len(selected) + Unfilled <= MaxCitations
       /\ KnowledgeReserve > MaxCitations =>
            Len(selected) = knowledgeSelected /\ Len(selected) <= MaxCitations
       /\ seedSelected <= seedCap + Exempted
       /\ (\E c \in passed : c.origin = "neighbor") => Len(selected) + Unfilled >= MaxCitations
  /\ (\E c \in passed : c.knowledge) => knowledgeSelected >= KnowledgeReserve
  /\ loop = "done" => todo = {} \/ CapReached
=============================================================================
