------------------------------ MODULE GraphProofs ------------------------------
(***************************************************************************)
(* Proofs about stage 3, for every finite graph, every list of seeds and   *)
(* every value of the three caps.                                          *)
(***************************************************************************)
EXTENDS Expansion, GraphTools, ListProofs, SequenceTheorems

(***************************************************************************)
(* The walks                                                               *)
(***************************************************************************)
\* What a plan follows, an edge of the contract can name.
WalkedTypes == EdgeTypes \ {"uses_type"}

LEMMA PlanTypes ==
  ASSUME NEW relations \in SUBSET Relations
  PROVE  planTraversal(relations).types \subseteq WalkedTypes
  BY DEF planTraversal, Relations, EdgeTypes, WalkedTypes

LEMMA RelationTypes ==
  ASSUME NEW type \in WalkedTypes, NEW reverse
  PROVE  relationFromEdgeType(type, reverse) \in Relations
  BY DEF relationFromEdgeType, Relations, EdgeTypes, WalkedTypes

\* Within any number of hops, a neighborhood is a part of the graph.
LEMMA NeighborhoodIsStored ==
  ASSUME NEW g, NEW start, NEW plan, NEW hops \in Nat \ {0}
  PROVE  Neighborhood(g, start, plan, hops) \subseteq {e \in g : e.type \in plan.types}
<1>. DEFINE Near(e) == IF plan.reverse THEN e.dst ELSE e.src
            Far(e) == IF plan.reverse THEN e.src ELSE e.dst
            From(S) == {e \in g : Near(e) \in S /\ e.type \in plan.types}
            Further(E) == E \union From({Far(e) : e \in E})
            Eq(f) == f = [k \in 1..hops |->
                            IF k = 1 THEN From(start) ELSE f[k - 1] \union From({Far(e) : e \in f[k - 1]})]
            within == CHOOSE f : Eq(f)
            V == SUBSET {e \in g : e.type \in plan.types}
            last == hops - 1
            walk == [k \in 1..last |-> [E \in V |-> Further(E)]]
<1>1. last \in Nat /\ \A k \in 1..hops : k - 1 \in 0..last /\ (k # 1 => k - 1 \in 1..last /\ k - 1 \in 1..hops)
  OBVIOUS
<1>2. \A S : From(S) \in V
  OBVIOUS
<1>3. walk \in [1..last -> [V -> V]]
  <2>. HIDE DEF From
  <2>1. \A E \in V : Further(E) \in V
    BY <1>2
  <2>. HIDE DEF Further, V, last
  <2>. QED
    BY <2>1
<1>4. \E f : Eq(f)
  <2>1. \E f : Solves(f, last, V, From(start), walk)
    <3>. HIDE DEF walk, V, From, last
    <3>. QED
      BY <1>1, <1>2, <1>3, RecursionExists
  <2>2. PICK f \in [0..last -> V] : f[0] = From(start) /\ \A k \in 1..last : f[k] = walk[k][f[k - 1]]
    <3>. HIDE DEF walk, V, From, last
    <3>. QED
      BY <2>1 DEF Solves
  <2>. DEFINE h == [k \in 1..hops |-> f[k - 1]]
  <2>3. ASSUME NEW k \in 1..hops, k # 1 PROVE h[k] = Further(h[k - 1])
    <3>1. k - 1 \in 1..last /\ k - 1 \in 1..hops /\ (k - 1) - 1 \in 0..last
      BY <1>1, <2>3
    <3>2. f[k - 1] = walk[k - 1][f[(k - 1) - 1]] /\ f[(k - 1) - 1] \in V
      BY <2>2, <3>1
    <3>. HIDE DEF Further, V, last
    <3>. QED
      BY <2>3, <3>1, <3>2
  <2>4. h[1] = From(start)
    <3>1. 1 \in 1..hops /\ 1 - 1 = 0
      OBVIOUS
    <3>. HIDE DEF From, V
    <3>. QED
      BY <2>2, <3>1
  <2>5. \A k \in 1..hops : h[k] = IF k = 1 THEN From(start) ELSE Further(h[k - 1])
    <3>. HIDE DEF h, Further, From
    <3>. QED
      BY <2>3, <2>4
  <2>6. h = [k \in 1..hops |-> IF k = 1 THEN From(start) ELSE Further(h[k - 1])]
    <3>. HIDE DEF Further, From
    <3>. QED
      BY <2>5
  <2>7. Eq(h)
    <3>. HIDE DEF h, From
    <3>. QED
      BY <2>6
  <2>. QED
    BY <2>7
<1>5. Eq(within)
  <2>. HIDE DEF Eq
  <2>. QED
    BY <1>4
<1>6. \A k \in 1..hops : within[k] = IF k = 1 THEN From(start) ELSE Further(within[k - 1])
  <2>. HIDE DEF within, From
  <2>. QED
    BY <1>5
<1>7. \A k \in 0..last : within[k + 1] \in V
  <2>. DEFINE G == {k \in Nat : within[k + 1] \in V}
  <2>. HIDE DEF within, From
  <2>1. 0 \in G
    <3>1. 1 \in 1..hops /\ 0 + 1 = 1
      OBVIOUS
    <3>. HIDE DEF V, Further
    <3>. QED
      BY <1>2, <1>6, <3>1
  <2>2. ASSUME NEW k \in 1..last, k - 1 \in G PROVE k \in G
    <3>1. k + 1 \in 1..hops /\ k + 1 # 1 /\ (k + 1) - 1 = k /\ (k - 1) + 1 = k /\ k \in Nat
      OBVIOUS
    <3>2. within[k] \in V /\ within[k + 1] = Further(within[k])
      BY <1>6, <2>2, <3>1
    <3>. QED
      BY <1>2, <3>1, <3>2
  <2>. HIDE DEF G, last
  <2>3. 0..last \subseteq G
    BY <1>1, <2>1, <2>2, InductionUpTo
  <2>. QED
    BY <2>3 DEF G
<1>8. within[hops] \in V
  <2>1. hops - 1 \in 0..last /\ (hops - 1) + 1 = hops
    OBVIOUS
  <2>. HIDE DEF within, V, last
  <2>. QED
    BY <1>7, <2>1
<1>9. Neighborhood(g, start, plan, hops) = within[hops]
  BY DEF Neighborhood
<1>. HIDE DEF within
<1>. QED
  BY <1>8, <1>9

USE GraphClientInputs DEF Citations

LEMMA NeighborTypes ==
  ASSUME NEW e \in StoredEdge, e.type \in WalkedTypes, NEW reverse
  PROVE  AsNeighbor(e, reverse) \in Neighbor
<1>1. relationFromEdgeType(e.type, reverse) \in Relations
  BY RelationTypes
<1>. QED
  BY <1>1 DEF AsNeighbor, Neighbor, StoredEdge

\* A cap leaves a part, and no more than it says.
LEMMA CappedIs ==
  ASSUME NEW S, IsFiniteSet(S), NEW max \in Nat, NEW E \in Capped(S, max)
  PROVE  /\ E \subseteq S /\ IsFiniteSet(E)
         /\ max > 0 => Cardinality(E) \in Nat /\ Cardinality(E) <= max
<1>1. E \subseteq S /\ (max > 0 => Cardinality(E) = Smaller(max, Cardinality(S)))
  BY DEF Capped, kSubset
<1>2. IsFiniteSet(E) /\ Cardinality(E) \in Nat /\ Cardinality(S) \in Nat
  BY <1>1, FS_Subset, FS_CardinalityType
<1>. QED
  BY <1>1, <1>2 DEF Smaller

\* Reported edges are no more than the stored edges they come from.
LEMMA NeighborsOf ==
  ASSUME NEW E, IsFiniteSet(E), NEW reverse
  PROVE  LET N == {AsNeighbor(e, reverse) : e \in E}
         IN IsFiniteSet(N) /\ Cardinality(N) \in Nat /\ Cardinality(N) <= Cardinality(E)
<1>. DEFINE N == {AsNeighbor(e, reverse) : e \in E}
            f == [e \in E |-> AsNeighbor(e, reverse)]
<1>1. f \in Surjection(E, N)
  BY DEF Surjection
<1>2. IsFiniteSet(N) /\ Cardinality(N) <= Cardinality(E)
  <2>. HIDE DEF f, N
  <2>. QED
    BY <1>1, FS_Surjection
<1>. HIDE DEF N
<1>3. Cardinality(N) \in Nat
  BY <1>2, FS_CardinalityType
<1>. QED
  BY <1>2, <1>3 DEF N

\* A walk finds neighbors of the contract's types, and no more than its cap.
LEMMA WalksFind ==
  ASSUME NEW g \in SUBSET StoredEdge, IsFiniteSet(g), NEW node, NEW relations \in SUBSET Relations,
         NEW hops \in Nat \ {0}, NEW max \in Nat,
         NEW found \in Walks(g, node, planTraversal(relations), hops, max)
  PROVE  found \subseteq Neighbor /\ (max > 0 => Cardinality(found) <= max)
<1>. DEFINE plan == planTraversal(relations)
            All(S) == Neighborhood(g, S, plan, hops)
<1>1. PICK start \in Starts(node, plan.reverse) :
             \E E \in Capped(All(start), max) : found = {AsNeighbor(e, plan.reverse) : e \in E}
  BY DEF Walks
<1>2. All(start) \subseteq {e \in g : e.type \in plan.types}
  BY NeighborhoodIsStored
<1>. PICK E \in Capped(All(start), max) : found = {AsNeighbor(e, plan.reverse) : e \in E}
  BY <1>1
<1>3. IsFiniteSet(All(start))
  BY <1>2, FS_Subset
<1>4. E \subseteq All(start) /\ IsFiniteSet(E) /\ (max > 0 => Cardinality(E) \in Nat /\ Cardinality(E) <= max)
  BY <1>3, CappedIs
<1>5. Cardinality(found) \in Nat /\ Cardinality(found) <= Cardinality(E)
  BY <1>1, <1>4, NeighborsOf
<1>6. ASSUME NEW e \in E PROVE AsNeighbor(e, plan.reverse) \in Neighbor
  <2>1. e \in StoredEdge /\ e.type \in WalkedTypes
    BY <1>2, <1>4, PlanTypes
  <2>. QED
    BY <2>1, NeighborTypes
<1>. QED
  BY <1>1, <1>4, <1>5, <1>6

(***************************************************************************)
(* The graph tools                                                         *)
(***************************************************************************)
\* How far a name is resolved: nothing is looked up before the canonical id, and
\* a suffix is only tried when no longer one has a match.
ByCanonicalId == {n \in Nodes : CanonicalId[n] = call.name}
NoneBefore(k) == \A j \in 0..k - 1 : SuffixMatches(Remaining(j)) = {}
Unresolved == {"arguments", "canonical", "evidence", "index"}
Resolving ==
  /\ step \in Unresolved => dropped = 0 /\ cands = {}
  /\ step \in {"canonical", "suffix", "resolved", "file"} => dropped < Len(call.name)
  /\ step = "file" => call.tool = "impact_analysis" /\ (target = call.name \/ Root # {})
  /\ step = "suffix" => cands = {} /\ NoneBefore(dropped)
  /\ step = "resolved" =>
       \/ cands \subseteq ByCanonicalId
       \/ NoneBefore(dropped) /\ cands = SuffixMatches(Remaining(dropped))
  /\ step \in Unresolved \union {"suffix", "resolved"} => target = call.name
  /\ step = "evidence" => call.tool = "change_history"
  /\ step = "index" => call.tool = "search_text"

ToolsInv ==
  /\ ToolsTypeOK /\ IsFiniteSet(store)
  /\ \A g \in DOMAIN impactGroupOrder : impact[g] \in Seq(Nodes \union {NoNode})
  /\ reply = "none" <=> step # "replied"
  /\ Resolving /\ NeverGuesses /\ SubgraphClosed /\ ImpactCutsLast

LEMMA Categories == DOMAIN impactGroupOrder = 1..6
  BY DEF impactGroupOrder

LEMMA CallTypes ==
  ASSUME call \in Call
  PROVE  /\ call.name \in Seq(STRING) /\ call.depth \in Nat /\ call.max \in Nat /\ call.tool \in Tools
         /\ call.excludeTests \in BOOLEAN /\ call.only \subseteq Nodes
         /\ Depth \in Nat \ {0} /\ EdgeLimit \in Nat \ {0}
  BY GraphToolsInputs DEF Call, Name, Depth, EdgeLimit

LEMMA EntriesType ==
  ASSUME NEW g, impact[g] \in Seq(Nodes \union {NoNode})
  PROVE  Entries(g) \in Seq(Nodes)
<1>1. Kept(impact[g], Nodes) \in Seq((Nodes \union {NoNode}) \intersect Nodes)
  BY KeptType
<1>2. (Nodes \union {NoNode}) \intersect Nodes = Nodes
  OBVIOUS
<1>. QED
  BY <1>1, <1>2 DEF Entries

LEMMA FirstOfIs ==
  ASSUME NEW T, NEW list \in Seq(T), NEW max \in Int
  PROVE  /\ FirstOf(list, max) \in Seq(T)
         /\ max <= 0 => FirstOf(list, max) = <<>>
         /\ max >= 0 => Len(FirstOf(list, max)) <= max
         /\ Len(list) <= max => FirstOf(list, max) = list
<1>1. Len(list) \in Nat
  OBVIOUS
<1>2. CASE max <= 0
  BY <1>1, <1>2 DEF FirstOf, Smaller
<1>3. CASE max > 0
  <2>1. Smaller(max, Len(list)) \in 0..Len(list) /\ Smaller(max, Len(list)) <= max
    BY <1>1, <1>3 DEF Smaller
  <2>. QED
    BY <1>1, <1>3, <2>1 DEF FirstOf, Smaller
<1>. QED
  BY <1>2, <1>3

LEMMA ToolsStart == ToolsInit => ToolsInv
<1>. SUFFICES ASSUME ToolsInit PROVE ToolsInv
  OBVIOUS
<1>. USE DEF ToolsInit
<1>1. call \in Call /\ store \subseteq StoredEdge /\ IsFiniteSet(store)
  BY GraphToolsInputs
<1>2. NothingFound \in [DOMAIN impactGroupOrder -> Seq(Nodes)]
  BY DEF NothingFound
<1>3. \A g \in DOMAIN impactGroupOrder : impact[g] \in Seq(Nodes \union {NoNode})
  <2>1. CASE impact \in Impacts
    BY <2>1, GraphToolsInputs
  <2>2. CASE impact = NothingFound
    BY <2>2 DEF NothingFound
  <2>. QED
    BY <2>1, <2>2
<1>4. ToolsTypeOK
  <2>1. call.name \in Name /\ 0 \in 0..Len(call.name)
    BY <1>1, CallTypes DEF Name
  <2>. QED
    BY <1>1, <1>2, <2>1 DEF ToolsTypeOK
<1>5. Resolving
  BY DEF Resolving
<1>6. NeverGuesses /\ SubgraphClosed /\ ImpactCutsLast
  BY DEF NeverGuesses, SubgraphClosed, ImpactCutsLast, Answers
<1>. QED
  BY <1>1, <1>3, <1>4, <1>5, <1>6 DEF ToolsInv

\* What no step changes, and what therefore stands.
CallKept == UNCHANGED <<store, impact, call>>

LEMMA Unanswered ==
  ASSUME reply' # "ok"
  PROVE  SubgraphClosed' /\ ImpactCutsLast'
  BY DEF SubgraphClosed, ImpactCutsLast, Answers

\* Before a traversal is bound there is nothing to show.
LEMMA NothingGuessed ==
  ASSUME \/ step' \notin {"file", "read", "replied"}
         \/ call'.tool \notin Traversals
         \/ cands' = {} /\ target' = call'.name
  PROVE  NeverGuesses'
  BY DEF NeverGuesses, Root, Meant, SameName

LEMMA StillNoGuess ==
  ASSUME NeverGuesses, step \in {"file", "read", "replied"}, UNCHANGED <<call, target>>,
         cands' \subseteq cands \union Root, call.tool = "change_history" => cands' \subseteq cands
  PROVE  NeverGuesses'
<1>1. Root' = Root /\ \A n : Meant(n)' = Meant(n)
  BY DEF Root, Meant, MeantBy, SuffixMatches
<1>. QED
  BY <1>1 DEF NeverGuesses

\* Steps before the reply that leave its parts alone: the types of what moves, and
\* how far the name is resolved afterwards, are all there is to show.
LEMMA Moves ==
  ASSUME ToolsInv, CallKept, UNCHANGED <<parts, target>>, ToolsTypeOK', Resolving',
         reply' = "none" <=> step' # "replied", reply' # "ok",
         step' \notin {"file", "read"}, step' = "replied" => cands' = {} /\ target = call.name
  PROVE  ToolsInv'
<1>1. NeverGuesses' /\ SubgraphClosed' /\ ImpactCutsLast'
  BY Unanswered, NothingGuessed DEF ToolsInv, CallKept
<1>. QED
  BY <1>1 DEF ToolsInv, CallKept

LEMMA ArgumentsChecked ==
  ASSUME ToolsInv, RefuseCall \/ AcceptCall
  PROVE  ToolsInv'
<1>. USE DEF ToolsInv
<1>1. CallKept /\ UNCHANGED <<parts, target, dropped, cands>> /\ call \in Call
  BY DEF RefuseCall, AcceptCall, CallKept, ToolsTypeOK
<1>2. step = "arguments" /\ reply = "none"
  BY DEF RefuseCall, AcceptCall
<1>3. CASE RefuseCall
  <2>. USE DEF RefuseCall, Reply
  <2>1. ToolsTypeOK'
    BY <1>1, <1>3 DEF ToolsTypeOK, parts
  <2>2. Resolving'
    BY <1>3 DEF Resolving, Unresolved
  <2>3. step' = "replied" /\ reply' = "error" /\ cands' = {} /\ target = call.name
    BY <1>1, <1>2, <1>3 DEF Resolving, Unresolved
  <2>. QED
    BY <1>1, <2>1, <2>2, <2>3, Moves
<1>4. CASE AcceptCall
  <2>. USE DEF AcceptCall
  <2>1. step' \in {"index", "evidence", "canonical"} /\ reply' = "none"
    BY <1>2, <1>4
  <2>2. ToolsTypeOK'
    BY <1>1, <1>4, <2>1 DEF ToolsTypeOK, parts
  <2>3. step' = "canonical" => 0 < Len(call.name)
    <3>1. step' = "canonical" => call.name # <<>>
      BY <1>4 DEF Missing
    <3>2. call.name \in Seq(STRING)
      BY <1>1, CallTypes
    <3>. QED
      BY <3>1, <3>2
  <2>4. (step' = "evidence" => call.tool = "change_history") /\ (step' = "index" => call.tool = "search_text")
    BY <1>4
  <2>5. Resolving'
    BY <1>1, <1>2, <2>1, <2>3, <2>4 DEF Resolving, Unresolved, CallKept
  <2>. QED
    BY <1>1, <2>1, <2>2, <2>5, Moves
<1>. QED
  BY <1>3, <1>4

LEMMA Resolves ==
  ASSUME ToolsInv, Resolve
  PROVE  ToolsInv'
<1>. USE DEF ToolsInv
<1>1. CallKept /\ UNCHANGED <<parts, target>> /\ call \in Call /\ target = call.name
  BY DEF Resolve, LookupCanonical, LookupSuffix, SuffixLookupFails, CallKept, ToolsTypeOK, Resolving, Unresolved
<1>2. dropped \in Nat /\ dropped < Len(call.name) /\ Len(call.name) \in Nat /\ reply = "none"
  BY <1>1, CallTypes DEF Resolve, LookupCanonical, LookupSuffix, SuffixLookupFails, Resolving, ToolsTypeOK
<1>3. CASE LookupCanonical
  <2>. USE DEF LookupCanonical
  <2>1. dropped = 0 /\ cands = {}
    BY <1>3 DEF Resolving, Unresolved
  <2>2. step' \in {"suffix", "resolved"} /\ cands' \subseteq ByCanonicalId /\ (step' = "suffix" => cands' = {})
        /\ UNCHANGED <<dropped, reply>>
    BY <1>3, <2>1 DEF ByCanonicalId
  <2>3. ToolsTypeOK'
    BY <1>1, <2>2 DEF ToolsTypeOK, parts, ByCanonicalId, CallKept
  <2>4. ByCanonicalId' = ByCanonicalId /\ NoneBefore(0)
    BY <1>1 DEF ByCanonicalId, NoneBefore, CallKept
  <2>5. Resolving'
    BY <1>1, <1>2, <2>1, <2>2, <2>4 DEF Resolving, Unresolved, NoneBefore, CallKept
  <2>. QED
    BY <1>1, <1>2, <2>2, <2>3, <2>5, Moves
<1>4. CASE LookupSuffix
  <2>. USE DEF LookupSuffix
  <2>1. cands = {} /\ NoneBefore(dropped)
    BY <1>4 DEF Resolving
  <2>2. \A k : SuffixMatches(Remaining(k))' = SuffixMatches(Remaining(k))
    BY <1>1 DEF SuffixMatches, Remaining, CallKept
  <2>3. CASE cands' = {} /\ dropped < Len(call.name) - 1
    <3>1. dropped' = dropped + 1 /\ step' = "suffix" /\ reply' = reply
      BY <1>4, <2>3
    <3>2. ToolsTypeOK'
      BY <1>1, <1>2, <2>3, <3>1 DEF ToolsTypeOK, parts, CallKept
    <3>3. NoneBefore(dropped)'
      <4>1. ASSUME NEW j \in 0..dropped' - 1 PROVE SuffixMatches(Remaining(j)) = {}
        <5>1. j = dropped \/ j \in 0..dropped - 1
          BY <1>2, <3>1
        <5>. QED
          BY <1>4, <2>1, <2>3, <5>1 DEF NoneBefore
      <4>. QED
        BY <2>2, <4>1 DEF NoneBefore
    <3>4. Resolving'
      BY <1>1, <1>2, <2>3, <3>1, <3>3 DEF Resolving, Unresolved, CallKept
    <3>. QED
      BY <1>1, <1>2, <3>1, <3>2, <3>4, Moves
  <2>4. CASE ~ (cands' = {} /\ dropped < Len(call.name) - 1)
    <3>1. UNCHANGED <<dropped, reply>> /\ step' = "resolved" /\ cands' = SuffixMatches(Remaining(dropped))
      BY <1>4, <2>4
    <3>2. ToolsTypeOK'
      BY <1>1, <3>1 DEF ToolsTypeOK, parts, CallKept, SuffixMatches
    <3>3. NoneBefore(dropped)'
      BY <2>1, <2>2, <3>1 DEF NoneBefore
    <3>4. Resolving'
      BY <1>1, <1>2, <2>2, <3>1, <3>3 DEF Resolving, Unresolved, CallKept
    <3>. QED
      BY <1>1, <1>2, <3>1, <3>2, <3>4, Moves
  <2>. QED
    BY <2>3, <2>4
<1>5. CASE SuffixLookupFails
  <2>. USE DEF SuffixLookupFails, Reply
  <2>1. step' \in {"resolved", "replied"} /\ UNCHANGED <<dropped, cands>> /\ cands = {}
        /\ reply' \in {"none", "error"} /\ (reply' = "none" <=> step' # "replied")
    BY <1>2, <1>5 DEF Resolving
  <2>2. ToolsTypeOK'
    BY <1>1, <2>1 DEF ToolsTypeOK, parts, CallKept
  <2>3. Resolving'
    BY <1>1, <1>2, <2>1 DEF Resolving, Unresolved, CallKept
  <2>. QED
    BY <1>1, <2>1, <2>2, <2>3, Moves
<1>. QED
  BY <1>3, <1>4, <1>5 DEF Resolve

\* A suffix that has a match, after longer ones that have none, is what was meant.
LEMMA MeantIs ==
  ASSUME call.name \in Seq(STRING), NEW k \in Nat, k < Len(call.name), NoneBefore(k), SuffixMatches(Remaining(k)) # {}
  PROVE  MeantBy(call.name) = SuffixMatches(Remaining(k))
<1>. DEFINE name == call.name
            lengths == {j \in 0..Len(name) - 1 : SuffixMatches(SubSeq(name, j + 1, Len(name))) # {}}
<1>1. k \in lengths
  BY DEF Remaining
<1>2. ASSUME NEW j \in lengths PROVE k <= j
  <2>1. ~ (j \in 0..k - 1)
    BY DEF NoneBefore, Remaining
  <2>. QED
    BY <2>1
<1>3. lengths \subseteq Nat
  OBVIOUS
<1>4. Min(lengths) = k
  <2>. HIDE DEF lengths
  <2>1. \A x \in lengths : (\A y \in lengths : x <= y) => x = k
    BY <1>1, <1>2, <1>3
  <2>. QED
    BY <1>1, <1>2, <2>1 DEF Min
<1>. HIDE DEF lengths
<1>5. MeantBy(name) = SuffixMatches(SubSeq(name, Min(lengths) + 1, Len(name)))
  BY <1>1 DEF MeantBy, lengths
<1>. QED
  BY <1>4, <1>5 DEF Remaining

\* One that has the name, or one of matches that all have the same.
LEMMA UniqueIs ==
  ASSUME NEW defs \in SUBSET Nodes, NEW name, NEW n \in uniqueResolved(defs, name)
  PROVE  n \in defs /\ (Qname[n] = name \/ \A m \in defs : Qname[m] = Qname[n])
<1>. DEFINE names == {Qname[m] : m \in defs}
<1>1. IsFiniteSet(defs)
  BY GraphToolsInputs, FS_Subset
<1>2. IsFiniteSet(names)
  <2>. DEFINE f == [m \in defs |-> Qname[m]]
  <2>1. f \in Surjection(defs, names)
    BY DEF Surjection
  <2>. HIDE DEF f, names
  <2>. QED
    BY <1>1, <2>1, FS_Surjection
<1>3. n \in defs /\ (Qname[n] = name \/ Cardinality(names) = 1)
  BY DEF uniqueResolved
<1>4. ASSUME Cardinality(names) = 1, NEW m \in defs PROVE Qname[m] = Qname[n]
  <2>1. Qname[m] \in names /\ Qname[n] \in names
    BY <1>3
  <2>2. PICK x : names = {x}
    <3>. HIDE DEF names
    <3>. QED
      BY <1>2, <1>4, FS_Singleton
  <2>. HIDE DEF names
  <2>. QED
    BY <2>1, <2>2
<1>. QED
  BY <1>3, <1>4

\* The name that a name ends with is that name itself.
LEMMA EndsWithItself ==
  ASSUME NEW name \in Name
  PROVE  IsSuffix(name, name)
<1>1. Len(Reverse(name)) = Len(name) /\ Len(name) \in Nat
  BY DEF Reverse, Name
<1>. QED
  BY <1>1 DEF IsSuffix, IsPrefix

LEMMA Binds ==
  ASSUME ToolsInv, BindTraversal
  PROVE  ToolsInv'
<1>. USE DEF ToolsInv, BindTraversal
<1>1. CallKept /\ UNCHANGED <<parts, dropped>> /\ call \in Call /\ cands \subseteq Nodes /\ target = call.name
  BY DEF CallKept, ToolsTypeOK, Resolving
<1>2. step = "resolved" /\ reply = "none" /\ dropped \in Nat /\ dropped < Len(call.name)
  BY <1>1, CallTypes DEF Resolving, ToolsTypeOK
<1>3. \A n \in uniqueResolved(cands, call.name) :
        n \in cands /\ (Qname[n] = call.name \/ \A m \in cands : Qname[m] = Qname[n])
  BY <1>1, UniqueIs
<1>4. \/ \E n \in Nodes : n \in uniqueResolved(cands, call.name) /\ cands' = {n} /\ target' = Qname[n]
      \/ cands' = {} /\ target' = call.name
  BY <1>1, <1>3
<1>5. cands' \subseteq Nodes /\ target' \in Name
  <2>1. call.name \in Name
    BY <1>1, CallTypes DEF Name
  <2>. QED
    BY <1>4, <2>1, GraphToolsInputs
<1>6. step' \in {"file", "read", "replied"} /\ reply' \in {"none", "ok"} /\ (reply' = "none" <=> step' # "replied")
      /\ (reply' = "ok" => call.tool = "change_history") /\ (step' = "file" => call.tool = "impact_analysis")
  BY <1>2 DEF Reply
<1>7. ToolsTypeOK'
  BY <1>1, <1>5, <1>6 DEF ToolsTypeOK, parts, CallKept
<1>8. Resolving'
  <2>1. target' = call.name \/ Root' # {}
    BY <1>4 DEF Root
  <2>. QED
    BY <1>1, <1>2, <1>6, <2>1 DEF Resolving, Unresolved, CallKept
<1>9. NeverGuesses'
  <2>1. ASSUME NEW n \in Nodes, n \in uniqueResolved(cands, call.name), cands' = {n}, target' = Qname[n]
        PROVE  NeverGuesses'
    <3>1. Meant(n)
      <4>1. CASE Qname[n] = call.name
        BY <4>1 DEF Meant, SameName
      <4>2. CASE cands \subseteq ByCanonicalId
        BY <1>3, <2>1, <4>2 DEF Meant, SameName, ByCanonicalId
      <4>3. CASE Qname[n] # call.name /\ NoneBefore(dropped) /\ cands = SuffixMatches(Remaining(dropped))
        <5>1. n \in cands /\ \A m \in cands : Qname[m] = Qname[n]
          BY <1>3, <2>1, <4>3
        <5>2. call.name \in Seq(STRING)
          BY <1>1, CallTypes
        <5>3. MeantBy(call.name) = cands
          BY <1>2, <4>3, <5>1, <5>2, MeantIs
        <5>. QED
          BY <1>1, <5>1, <5>3 DEF Meant, SameName
      <4>. QED
        BY <1>2, <4>1, <4>2, <4>3 DEF Resolving
    <3>2. ASSUME NEW m \in Nodes, Qname[m] = Qname[n] PROVE Meant(m)
      <4>1. SameName(m) = SameName(n)
        BY <3>2 DEF SameName
      <4>. QED
        BY <3>1, <4>1 DEF Meant
    <3>3. \A m : Meant(m)' = Meant(m)
      BY <1>1 DEF Meant, MeantBy, SuffixMatches, CallKept
    <3>. QED
      BY <2>1, <3>2, <3>3 DEF NeverGuesses, Root
  <2>. QED
    BY <1>1, <1>4, <2>1, NothingGuessed DEF CallKept
<1>10. SubgraphClosed' /\ ImpactCutsLast'
  BY <1>1, <1>6 DEF SubgraphClosed, ImpactCutsLast, Answers, CallKept
<1>. QED
  BY <1>1, <1>6, <1>7, <1>8, <1>9, <1>10 DEF CallKept

\* The file that is told is one of the name's, or of the only symbol meant.
LEMMA FileLookup ==
  ASSUME ToolsInv, LookupSeedFile
  PROVE  ToolsInv'
<1>. USE DEF ToolsInv, LookupSeedFile
<1>1. /\ CallKept /\ UNCHANGED <<parts, dropped, target, reply>> /\ call \in Call /\ target \in Name
      /\ step = "file" /\ step' = "read" /\ reply = "none" /\ call.tool = "impact_analysis"
      /\ target = call.name \/ Root # {}
  BY DEF CallKept, ToolsTypeOK, Resolving
<1>2. \/ cands' = {}
      \/ \E n \in Nodes : cands' = {n} /\ CanonicalId[n] = target
      \/ \E n \in uniqueResolved(SuffixMatches(target), target) : cands' = {n}
  OBVIOUS
<1>3. SuffixMatches(target) \in SUBSET Nodes
  BY DEF SuffixMatches
<1>4. ASSUME NEW n \in uniqueResolved(SuffixMatches(target), target)
      PROVE  n \in Nodes /\ Meant(n)
  <2>1. n \in SuffixMatches(target) /\ (Qname[n] = target \/ \A m \in SuffixMatches(target) : Qname[m] = Qname[n])
    BY <1>3, UniqueIs
  <2>2. n \in Nodes
    BY <1>3, <2>1
  <2>3. \A m \in Root : Meant(m) /\ m \in Nodes /\ Qname[m] = target
    BY <1>1 DEF NeverGuesses, Root, Traversals
  <2>4. CASE Qname[n] = target
    BY <2>2, <2>3, <2>4 DEF Root
  <2>5. CASE Qname[n] # target /\ Root # {}
    <3>1. PICK m \in Nodes : Qname[m] = target
      BY <2>3, <2>5
    <3>2. m \in SuffixMatches(target)
      BY <1>1, <3>1, EndsWithItself DEF SuffixMatches
    <3>. QED
      BY <2>1, <2>5, <3>1, <3>2
  <2>6. CASE Qname[n] # target /\ target = call.name
    <3>1. call.name \in Seq(STRING) /\ 0 < Len(call.name) /\ Remaining(0) = call.name
      <4>1. call.name \in Seq(STRING) /\ dropped \in Nat /\ dropped < Len(call.name)
        BY <1>1, CallTypes DEF Resolving, ToolsTypeOK
      <4>. QED
        BY <4>1 DEF Remaining
    <3>2. NoneBefore(0)
      BY DEF NoneBefore
    <3>3. MeantBy(call.name) = SuffixMatches(call.name)
      BY <2>1, <2>6, <3>1, <3>2, MeantIs
    <3>. QED
      BY <1>3, <2>1, <2>2, <2>6, <3>3 DEF Meant, SameName
  <2>. QED
    BY <1>1, <2>2, <2>4, <2>5, <2>6
<1>5. cands' \subseteq Nodes
  BY <1>2, <1>4
<1>6. ToolsTypeOK'
  BY <1>1, <1>5 DEF ToolsTypeOK, parts, CallKept
<1>7. Resolving'
  BY <1>1 DEF Resolving, Unresolved
<1>8. NeverGuesses'
  <2>1. Root' = Root /\ \A n : Meant(n)' = Meant(n)
    BY <1>1 DEF Root, Meant, MeantBy, SuffixMatches, CallKept
  <2>2. \A n \in Root : Meant(n)
    BY <1>1 DEF NeverGuesses, Traversals
  <2>3. \A n \in cands' : Meant(n) \/ CanonicalId[n] = target
    BY <1>2, <1>4
  <2>. QED
    BY <1>1, <2>1, <2>2, <2>3 DEF NeverGuesses, CallKept
<1>9. SubgraphClosed' /\ ImpactCutsLast'
  BY <1>1, Unanswered
<1>. QED
  BY <1>1, <1>6, <1>7, <1>8, <1>9 DEF CallKept

\* Steps that answer for neither a subgraph nor an impact analysis.
LEMMA OtherReplies ==
  ASSUME ToolsInv, CallKept, ToolsTypeOK', Resolving', NeverGuesses',
         reply' = "none" <=> step' # "replied",
         reply' = "ok" => call.tool \notin {"get_subgraph", "impact_analysis"}
  PROVE  ToolsInv'
<1>1. SubgraphClosed' /\ ImpactCutsLast'
  BY DEF SubgraphClosed, ImpactCutsLast, Answers, CallKept
<1>. QED
  BY <1>1 DEF ToolsInv, CallKept

LEMMA Seeds ==
  ASSUME ToolsInv, ReplySymbols \/ BindSeed
  PROVE  ToolsInv'
<1>. USE DEF ToolsInv
<1>1. CallKept /\ UNCHANGED <<edges, groups, hunks, prs, dropped, target>> /\ call \in Call
  BY DEF ReplySymbols, BindSeed, CallKept, ToolsTypeOK
<1>2. step = "resolved" /\ reply = "none" /\ call.tool \notin {"get_subgraph", "impact_analysis"}
  BY DEF ReplySymbols, BindSeed, Relatives
<1>3. step' \in {"read", "replied"} /\ reply' \in {"none", "ok"} /\ (reply' = "none" <=> step' # "replied")
  BY <1>2 DEF Reply, ReplySymbols, BindSeed
<1>4. cands' \subseteq Nodes /\ nodes' \subseteq Nodes
  BY DEF ToolsTypeOK, ReplySymbols, BindSeed, ShownNodes
<1>5. ToolsTypeOK'
  BY <1>1, <1>3, <1>4 DEF ToolsTypeOK, CallKept
<1>6. Resolving'
  BY <1>3 DEF Resolving, Unresolved
<1>7. NeverGuesses'
  BY <1>1, NothingGuessed DEF ReplySymbols, BindSeed, Relatives, Traversals, CallKept
<1>. QED
  BY <1>1, <1>2, <1>3, <1>5, <1>6, <1>7, OtherReplies

\* The nodes the store answers with: those it starts from are among them.
LEMMA StartWithin ==
  ASSUME store \subseteq StoredEdge, NEW start \in SUBSET Nodes, NEW depth \in Nat \ {0}
  PROVE  start \subseteq Within(start, depth) /\ Within(start, depth) \subseteq Nodes
<1>. DEFINE Widened(S) == S \union EndsOf(Touching(S))
            V == SUBSET Nodes
            widen == [k \in 1..depth |-> [S \in V |-> Widened(S)]]
            Eq(f) == f = [k \in 0..depth |-> IF k = 0 THEN start ELSE f[k - 1] \union EndsOf(Touching(f[k - 1]))]
            within == CHOOSE f : Eq(f)
<1>1. start \in V
  OBVIOUS
<1>2. \A S \in V : Widened(S) \in V
  BY DEF EndsOf, Touching, StoredEdge
<1>3. widen \in [1..depth -> [V -> V]]
  <2>. HIDE DEF V, Widened
  <2>. QED
    BY <1>2
<1>4. \A k \in 0..depth : k # 0 => k \in 1..depth /\ k - 1 \in 0..depth
  OBVIOUS
<1>5. \E f : Eq(f)
  <2>1. \E f : Solves(f, depth, V, start, widen)
    <3>. HIDE DEF V, widen
    <3>. QED
      BY <1>1, <1>3, RecursionExists
  <2>2. PICK f \in [0..depth -> V] : f[0] = start /\ \A k \in 1..depth : f[k] = widen[k][f[k - 1]]
    <3>. HIDE DEF V, widen
    <3>. QED
      BY <2>1 DEF Solves
  <2>3. \A k \in 0..depth : f[k] = IF k = 0 THEN start ELSE Widened(f[k - 1])
    <3>1. ASSUME NEW k \in 1..depth PROVE f[k] = Widened(f[k - 1])
      <4>1. k - 1 \in 0..depth
        OBVIOUS
      <4>2. f[k - 1] \in V
        BY <4>1
      <4>. HIDE DEF V, Widened
      <4>. QED
        BY <2>2, <4>2
    <3>. HIDE DEF Widened, V, widen
    <3>. QED
      BY <1>4, <2>2, <3>1
  <2>4. f = [k \in 0..depth |-> IF k = 0 THEN start ELSE Widened(f[k - 1])]
    <3>. HIDE DEF Widened, V
    <3>. QED
      BY <2>3
  <2>5. Eq(f)
    BY <2>4
  <2>. QED
    BY <2>5
<1>6. Eq(within)
  <2>. HIDE DEF Eq
  <2>. QED
    BY <1>5
<1>7. \A k \in 0..depth : within[k] = IF k = 0 THEN start ELSE Widened(within[k - 1])
  <2>. HIDE DEF within
  <2>. QED
    BY <1>6
<1>8. depth \in 0..depth /\ 0 \in 0..depth
  OBVIOUS
<1>. HIDE DEF within, Widened, Eq
<1>9. \A k \in 0..depth : start \subseteq within[k] /\ within[k] \in V
  <2>. DEFINE G == {k \in Nat : start \subseteq within[k] /\ within[k] \in V}
  <2>1. 0 \in G
    <3>1. within[0] = start
      BY <1>7, <1>8
    <3>. QED
      BY <1>1, <3>1
  <2>2. ASSUME NEW k \in 1..depth, k - 1 \in G PROVE k \in G
    <3>1. within[k] = Widened(within[k - 1]) /\ k \in Nat
      <4>1. k \in 0..depth /\ k # 0
        OBVIOUS
      <4>. QED
        BY <1>7, <4>1
    <3>2. within[k - 1] \subseteq Widened(within[k - 1])
      BY DEF Widened
    <3>. QED
      BY <1>2, <2>2, <3>1, <3>2
  <2>. HIDE DEF G
  <2>3. 0..depth \subseteq G
    BY <2>1, <2>2, InductionUpTo
  <2>. QED
    BY <2>3 DEF G
<1>10. Within(start, depth) = within[depth]
  BY DEF Within, within, Eq
<1>. QED
  BY <1>8, <1>9, <1>10

LEMMA SubgraphRead ==
  ASSUME ToolsInv, ReadSubgraph
  PROVE  ToolsInv'
<1>. USE DEF ToolsInv, ReadSubgraph, Reading, Reply
<1>. DEFINE found(E) == {AsNeighbor(e, FALSE) : e \in E}
<1>0. PICK start \in OneOrAll(Root) :
          \E E \in Capped(Usable(Within(start, Depth)), EdgeLimit) :
             /\ \/ \E seed \in Within(start, Depth) \intersect Root : cands' = {seed}
                \/ Root = {} /\ cands' = {}
             /\ edges' = ShownEdges(found(E))
             /\ nodes' = ShownNodes(Within(start, Depth) \intersect (cands' \union EndsOf(E)))
  OBVIOUS
<1>. DEFINE reached == Within(start, Depth)
<1>1. /\ CallKept /\ UNCHANGED <<groups, hunks, prs, dropped, target>> /\ call \in Call
      /\ store \subseteq StoredEdge /\ IsFiniteSet(store) /\ step' = "replied" /\ reply' = "ok"
      /\ call.tool = "get_subgraph" /\ step = "read"
  BY DEF CallKept, ToolsTypeOK
<1>2. PICK E \in Capped(Usable(reached), EdgeLimit) :
             /\ \/ \E seed \in reached \intersect Root : cands' = {seed}
                \/ Root = {} /\ cands' = {}
             /\ edges' = ShownEdges(found(E))
             /\ nodes' = ShownNodes(reached \intersect (cands' \union EndsOf(E)))
  BY <1>0
<1>3. EdgeLimit \in Nat /\ EdgeLimit > 0 /\ Depth \in Nat \ {0}
  BY <1>1, CallTypes
<1>4. reached \subseteq Nodes
  <2>1. start \in SUBSET Nodes
    BY DEF OneOrAll, Root
  <2>. QED
    BY <1>1, <1>3, <2>1, StartWithin
<1>5. /\ cands' \subseteq Nodes /\ cands' \subseteq Root /\ cands' \subseteq reached
      /\ Root # {} => \E seed \in Root : cands' = {seed}
  BY <1>2 DEF Root
<1>6. E \subseteq Usable(reached) /\ IsFiniteSet(E) /\ Cardinality(E) \in Nat /\ Cardinality(E) <= EdgeLimit
  <2>1. IsFiniteSet(Usable(reached))
    <3>1. Usable(reached) \in SUBSET store
      BY DEF Usable
    <3>. QED
      BY <1>1, <3>1, FS_Subset
  <2>. QED
    BY <1>2, <1>3, <2>1, CappedIs
<1>7. \A e \in E : e \in StoredEdge /\ e.type \in WalkedTypes /\ e.src \in reached /\ e.dst \in reached
  <2>1. \A e \in Usable(reached) : e \in store /\ Translated(e) /\ e.src \in reached /\ e.dst \in reached
    BY DEF Usable
  <2>2. \A e \in E : e \in StoredEdge
    BY <1>1, <1>6, <2>1
  <2>. HIDE DEF reached
  <2>. QED
    BY <1>6, <2>1, <2>2 DEF Translated, WalkedTypes, StoredEdge
<1>8. IsFiniteSet(found(E)) /\ Cardinality(found(E)) \in Nat /\ Cardinality(found(E)) <= EdgeLimit
  <2>1. IsFiniteSet(found(E)) /\ Cardinality(found(E)) \in Nat /\ Cardinality(found(E)) <= Cardinality(E)
    <3>. HIDE DEF ToolsInv, ReadSubgraph, reached
    <3>. QED
      BY <1>6, NeighborsOf
  <2>. HIDE DEF found
  <2>. QED
    BY <1>3, <1>6, <2>1
<1>9. found(E) \subseteq Neighbor
  <2>1. ASSUME NEW e \in E PROVE AsNeighbor(e, FALSE) \in Neighbor
    BY <1>7, NeighborTypes
  <2>. QED
    BY <2>1
<1>10. edges' \subseteq found(E) /\ nodes' \subseteq Nodes
  BY <1>2, <1>4 DEF ShownEdges, ShownNodes
<1>11. Cardinality(edges') <= EdgeLimit
  <2>. HIDE DEF found
  <2>1. Cardinality(edges') <= Cardinality(found(E)) /\ Cardinality(edges') \in Nat
    BY <1>8, <1>10, FS_Subset, FS_CardinalityType
  <2>. QED
    BY <1>3, <1>8, <2>1
<1>12. ToolsTypeOK'
  BY <1>1, <1>5, <1>9, <1>10 DEF ToolsTypeOK, CallKept
<1>13. ASSUME NEW x \in edges' PROVE x.source \in nodes' /\ x.target \in nodes'
  <2>1. PICK e \in E : x = AsNeighbor(e, FALSE)
    BY <1>10
  <2>2. x.source = e.src /\ x.target = e.dst
    BY <2>1 DEF AsNeighbor
  <2>3. e.src \in EndsOf(E) /\ e.dst \in EndsOf(E)
    BY DEF EndsOf
  <2>4. call.excludeTests => x.source \notin TestNodes /\ x.target \notin TestNodes
    BY <1>2 DEF ShownEdges
  <2>. QED
    BY <1>2, <1>7, <2>2, <2>3, <2>4 DEF ShownNodes
<1>14. SubgraphClosed'
  <2>1. Root' = Root /\ EdgeLimit' = EdgeLimit /\ ShownNodes(cands)' = ShownNodes(cands')
    BY <1>1 DEF ShownNodes, Root, EdgeLimit, CallKept
  <2>2. ShownNodes(cands') \subseteq nodes'
    BY <1>2, <1>5 DEF ShownNodes
  <2>3. {x.source : x \in edges'} \union {x.target : x \in edges'} \subseteq nodes'
    BY <1>13
  <2>. QED
    BY <1>5, <1>11, <2>1, <2>2, <2>3 DEF SubgraphClosed
<1>15. ImpactCutsLast'
  BY <1>1 DEF ImpactCutsLast, Answers, CallKept
<1>16. NeverGuesses'
  BY <1>1, <1>5, StillNoGuess DEF CallKept
<1>17. Resolving'
  BY <1>1 DEF Resolving, Unresolved
<1>. QED
  BY <1>1, <1>12, <1>14, <1>15, <1>16, <1>17 DEF CallKept

(***************************************************************************)
(* The cap of an impact answer                                             *)
(***************************************************************************)
LEMMA SlotsOf ==
  ASSUME NEW g, NEW T, NEW list \in Seq(T)
  PROVE  IsFiniteSet({g} \X DOMAIN list) /\ Cardinality({g} \X DOMAIN list) = Len(list)
<1>1. Len(list) \in Nat /\ DOMAIN list = 1..Len(list)
  OBVIOUS
<1>2. IsFiniteSet(1..Len(list)) /\ Cardinality(1..Len(list)) = Len(list)
  BY <1>1, UpTo, Zenon
<1>3. IsFiniteSet({g}) /\ Cardinality({g}) = 1
  BY FS_Singleton
<1>4. IsFiniteSet({g} \X (1..Len(list))) /\ Cardinality({g} \X (1..Len(list))) = 1 * Len(list)
  BY <1>2, <1>3, FS_Product
<1>5. {g} \X DOMAIN list = {g} \X (1..Len(list))
  BY <1>1
<1>6. 1 * Len(list) = Len(list)
  <2>1. \A n \in Nat : 1 * n = n
    OBVIOUS
  <2>. QED
    BY <1>1, <2>1, Zenon
<1>. QED
  BY <1>4, <1>5, <1>6, Zenon

\* Hits of one more category.
LEMMA HitsGrow ==
  ASSUME \A g \in 1..6 : impact[g] \in Seq(Nodes \union {NoNode}), NEW k \in 1..6
  PROVE  /\ IsFiniteSet(Hits(1..k - 1)) /\ Cardinality(Hits(1..k - 1)) \in Nat
         /\ IsFiniteSet(Hits(1..k)) /\ Cardinality(Hits(1..k)) = Cardinality(Hits(1..k - 1)) + Len(Entries(k))
<1>. DEFINE slots(g) == {g} \X DOMAIN Entries(g)
<1>1. \A g \in 1..6 : IsFiniteSet(slots(g)) /\ Cardinality(slots(g)) = Len(Entries(g)) /\ Len(Entries(g)) \in Nat
  <2>1. ASSUME NEW g \in 1..6 PROVE IsFiniteSet(slots(g)) /\ Cardinality(slots(g)) = Len(Entries(g)) /\ Len(Entries(g)) \in Nat
    <3>1. Entries(g) \in Seq(Nodes)
      BY EntriesType
    <3>2. Len(Entries(g)) \in Nat
      BY <3>1
    <3>. QED
      BY <3>1, <3>2, SlotsOf
  <2>. QED
    BY <2>1
<1>2. IsFiniteSet(Hits(1..k - 1))
  <2>. DEFINE all == {slots(g) : g \in 1..k - 1}
              f == [g \in 1..k - 1 |-> slots(g)]
  <2>1. IsFiniteSet(1..k - 1)
    BY FS_Interval
  <2>2. f \in Surjection(1..k - 1, all)
    BY DEF Surjection
  <2>3. IsFiniteSet(all)
    <3>. HIDE DEF f, all
    <3>. QED
      BY <2>1, <2>2, FS_Surjection
  <2>4. \A T \in all : IsFiniteSet(T)
    <3>1. \A g \in 1..k - 1 : g \in 1..6
      OBVIOUS
    <3>. HIDE DEF slots
    <3>. QED
      BY <1>1, <3>1
  <2>5. IsFiniteSet(UNION all)
    <3>. HIDE DEF all
    <3>. QED
      BY <2>3, <2>4, FS_UNION
  <2>. QED
    BY <2>5 DEF Hits
<1>3. Hits(1..k) = Hits(1..k - 1) \union slots(k)
  <2>1. \A g : g \in 1..k <=> g \in 1..k - 1 \/ g = k
    OBVIOUS
  <2>2. \A S : Hits(S) = UNION {slots(g) : g \in S}
    BY DEF Hits
  <2>. HIDE DEF slots
  <2>. QED
    BY <2>1, <2>2
<1>4. Hits(1..k - 1) \intersect slots(k) = {}
  <2>1. \A x \in Hits(1..k - 1) : x[1] \in 1..k - 1
    BY DEF Hits
  <2>2. \A x \in slots(k) : x[1] = k
    OBVIOUS
  <2>. QED
    BY <2>1, <2>2
<1>. HIDE DEF slots
<1>5. /\ IsFiniteSet(Hits(1..k - 1) \union slots(k))
      /\ Cardinality(Hits(1..k - 1) \union slots(k)) =
           Cardinality(Hits(1..k - 1)) + Cardinality(slots(k)) - Cardinality(Hits(1..k - 1) \intersect slots(k))
  BY <1>1, <1>2, FS_Union
<1>6. Cardinality({}) = 0 /\ Cardinality(Hits(1..k - 1)) \in Nat
  BY <1>2, FS_EmptySet, FS_CardinalityType
<1>7. IsFiniteSet(Hits(1..k)) /\ Cardinality(slots(k)) = Len(Entries(k)) /\ Len(Entries(k)) \in Nat
  BY <1>1, <1>3, <1>5
<1>8. Cardinality(Hits(1..k)) = Cardinality(Hits(1..k - 1)) + Cardinality(slots(k)) - 0
  BY <1>3, <1>4, <1>5, <1>6
<1>. QED
  BY <1>2, <1>6, <1>7, <1>8

\* A category that gets anything leaves all the earlier ones whole.
LEMMA EarlierWhole ==
  ASSUME \A g \in 1..6 : impact[g] \in Seq(Nodes \union {NoNode}), call \in Call,
         NEW g \in 1..6, NEW h \in 1..6, g < h, roomFor(h) > 0
  PROVE  FirstOf(Entries(g), roomFor(g)) = Entries(g)
<1>1. Entries(g) \in Seq(Nodes) /\ call.max \in Nat
  BY EntriesType, CallTypes
<1>2. Len(Entries(g)) \in Nat
  BY <1>1
<1>3. /\ Cardinality(Hits(1..g - 1)) \in Nat
      /\ Cardinality(Hits(1..g)) = Cardinality(Hits(1..g - 1)) + Len(Entries(g))
  BY HitsGrow
<1>4. IsFiniteSet(Hits(1..h - 1)) /\ Cardinality(Hits(1..h - 1)) \in Nat
  BY HitsGrow
<1>5. Hits(1..g) \subseteq Hits(1..h - 1)
  <2>1. 1..g \subseteq 1..h - 1
    OBVIOUS
  <2>. QED
    BY <2>1 DEF Hits
<1>6. Cardinality(Hits(1..g)) <= Cardinality(Hits(1..h - 1))
  BY <1>4, <1>5, FS_Subset
<1>7. roomFor(g) \in Int /\ Len(Entries(g)) <= roomFor(g)
  <2>1. \A max, g1, h1, len \in Nat : g1 + len <= h1 /\ max - h1 > 0 => max - g1 \in Int /\ len <= max - g1
    OBVIOUS
  <2>2. Cardinality(Hits(1..g - 1)) + Len(Entries(g)) <= Cardinality(Hits(1..h - 1))
    BY <1>3, <1>6, Zenon
  <2>. QED
    BY <1>1, <1>2, <1>3, <1>4, <2>1, <2>2 DEF roomFor
<1>. QED
  BY <1>1, <1>7, FirstOfIs

LEMMA RoomTypes ==
  ASSUME \A g \in 1..6 : impact[g] \in Seq(Nodes \union {NoNode}), call \in Call, NEW g \in 1..6
  PROVE  /\ Entries(g) \in Seq(Nodes) /\ roomFor(g) \in Int
         /\ Cardinality(Hits(1..g - 1)) \in Nat /\ roomFor(g) = call.max - Cardinality(Hits(1..g - 1))
<1>1. Cardinality(Hits(1..g - 1)) \in Nat /\ call.max \in Nat
  BY HitsGrow, CallTypes
<1>2. roomFor(g) = call.max - Cardinality(Hits(1..g - 1))
  BY DEF roomFor
<1>3. Entries(g) \in Seq(Nodes)
  BY EntriesType
<1>4. roomFor(g) \in Int
  BY <1>1, <1>2
<1>. QED
  BY <1>1, <1>2, <1>3, <1>4

\* All categories together stay within the cap, and what is cut are the last ones.
LEMMA ImpactCapped ==
  ASSUME \A g \in 1..6 : impact[g] \in Seq(Nodes \union {NoNode}), call \in Call, call.max > 0
  PROVE  LET delivered == impactResultFromMap
         IN /\ Cardinality(UNION {{g} \X DOMAIN delivered[g] : g \in 1..6}) <= call.max
            /\ \A g, h \in 1..6 : g < h /\ delivered[h] # <<>> => delivered[g] = Entries(g)
<1>. DEFINE delivered == impactResultFromMap
            slots(g) == {g} \X DOMAIN delivered[g]
            total == UNION {slots(g) : g \in 1..6}
<1>1. \A g \in 1..6 : delivered[g] = FirstOf(Entries(g), roomFor(g))
  BY Categories DEF impactResultFromMap
<1>2. call.max \in Nat
  BY CallTypes
<1>. HIDE DEF delivered
<1>3. ASSUME NEW g \in 1..6, delivered[g] # <<>>
      PROVE  roomFor(g) > 0 /\ delivered[g] \in Seq(Nodes) /\ Len(delivered[g]) <= roomFor(g)
  <2>1. Entries(g) \in Seq(Nodes) /\ roomFor(g) \in Int
    BY RoomTypes
  <2>2. delivered[g] = FirstOf(Entries(g), roomFor(g))
    BY <1>1
  <2>3. roomFor(g) > 0
    BY <1>3, <2>1, <2>2, FirstOfIs
  <2>. QED
    BY <2>1, <2>2, <2>3, FirstOfIs
<1>4. \A g, h \in 1..6 : g < h /\ delivered[h] # <<>> => delivered[g] = Entries(g)
  BY <1>1, <1>3, EarlierWhole
<1>5. CASE \A g \in 1..6 : delivered[g] = <<>>
  <2>1. \A g \in 1..6 : slots(g) = {}
    BY <1>5
  <2>2. total = {}
    BY <2>1
  <2>. HIDE DEF total
  <2>3. Cardinality(total) <= call.max
    BY <1>2, <2>2, FS_EmptySet
  <2>. QED
    BY <1>4, <2>3 DEF total, delivered
<1>6. CASE \E g \in 1..6 : delivered[g] # <<>>
  <2>1. PICK last \in 1..6 : delivered[last] # <<>> /\ \A g \in 1..6 : last < g => delivered[g] = <<>>
    BY <1>6
  <2>2. total \subseteq Hits(1..last - 1) \union slots(last)
    <3>1. ASSUME NEW g \in 1..6, NEW x \in slots(g)
          PROVE  x \in Hits(1..last - 1) \union slots(last)
      <4>1. CASE g < last
        <5>1. delivered[g] = Entries(g) /\ g \in 1..last - 1
          BY <1>4, <2>1, <4>1
        <5>. QED
          BY <5>1 DEF Hits
      <4>2. CASE g = last
        BY <4>2
      <4>3. CASE last < g
        BY <2>1, <4>3
      <4>. QED
        BY <4>1, <4>2, <4>3
    <3>. QED
      BY <3>1
  <2>. DEFINE earlier == Hits(1..last - 1)
              lastOnes == slots(last)
  <2>3. IsFiniteSet(lastOnes) /\ Cardinality(lastOnes) = Len(delivered[last])
    BY <1>3, <2>1, SlotsOf
  <2>4. IsFiniteSet(earlier)
    BY HitsGrow
  <2>5. Cardinality(earlier) \in Nat /\ Cardinality(lastOnes) \in Nat
        /\ Cardinality(earlier) + Cardinality(lastOnes) <= call.max
    <3>1. roomFor(last) = call.max - Cardinality(earlier) /\ Cardinality(earlier) \in Nat
      BY RoomTypes
    <3>2. Cardinality(lastOnes) <= roomFor(last) /\ Cardinality(lastOnes) \in Nat
      BY <1>3, <2>1, <2>3, FS_CardinalityType
    <3>. HIDE DEF earlier, lastOnes
    <3>. QED
      BY <1>2, <3>1, <3>2
  <2>. HIDE DEF total, earlier, lastOnes
  <2>6. /\ IsFiniteSet(earlier \union lastOnes)
        /\ Cardinality(earlier \union lastOnes)
             = Cardinality(earlier) + Cardinality(lastOnes) - Cardinality(earlier \intersect lastOnes)
    BY <2>3, <2>4, FS_Union
  <2>7. Cardinality(earlier \intersect lastOnes) \in Nat
    <3>1. IsFiniteSet(earlier \intersect lastOnes)
      BY <2>4, FS_Subset
    <3>. QED
      BY <3>1, FS_CardinalityType
  <2>8. Cardinality(total) <= Cardinality(earlier \union lastOnes) /\ Cardinality(total) \in Nat
    <3>1. total \subseteq earlier \union lastOnes
      BY <2>2 DEF earlier, lastOnes
    <3>2. IsFiniteSet(total) /\ Cardinality(total) <= Cardinality(earlier \union lastOnes)
      BY <2>6, <3>1, FS_Subset
    <3>. QED
      BY <3>2, FS_CardinalityType
  <2>9. Cardinality(total) <= call.max
    BY <1>2, <2>5, <2>6, <2>7, <2>8
  <2>. QED
    BY <1>4, <2>9 DEF total, delivered
<1>. QED
  BY <1>5, <1>6

LEMMA ImpactRead ==
  ASSUME ToolsInv, ReadImpact
  PROVE  ToolsInv'
<1>. USE DEF ReadImpact, Reading, Reply
<1>1. /\ CallKept /\ UNCHANGED <<nodes, edges, hunks, prs, dropped, cands, target>>
      /\ step = "read" /\ step' = "replied" /\ reply' = "ok" /\ call.tool = "impact_analysis"
      /\ groups' = NothingFound \/ groups' = impactResultFromMap
  BY DEF CallKept
<1>2. call \in Call /\ \A g \in 1..6 : impact[g] \in Seq(Nodes \union {NoNode})
  BY Categories DEF ToolsInv, ToolsTypeOK
<1>3. groups' \in [1..6 -> Seq(Nodes)]
  <2>1. NothingFound \in [1..6 -> Seq(Nodes)]
    BY Categories DEF NothingFound
  <2>2. \A g \in 1..6 : Entries(g) \in Seq(Nodes) /\ FirstOf(Entries(g), roomFor(g)) \in Seq(Nodes)
    BY <1>2, RoomTypes, FirstOfIs
  <2>3. impactResultFromMap \in [1..6 -> Seq(Nodes)]
    BY <2>2, Categories DEF impactResultFromMap
  <2>. QED
    BY <1>1, <2>1, <2>3
<1>4. ToolsTypeOK'
  BY <1>1, <1>3, Categories DEF ToolsInv, ToolsTypeOK, CallKept
<1>5. ImpactCutsLast'
  <2>1. Root' = Root /\ \A g : Entries(g)' = Entries(g)
    BY <1>1 DEF Root, Entries, CallKept
  <2>2. DOMAIN groups' = 1..6
    BY <1>3
  <2>3. call.max > 0 =>
          /\ Cardinality(UNION {{g} \X DOMAIN groups'[g] : g \in 1..6}) <= call.max
          /\ \A g, h \in 1..6 : g < h /\ groups'[h] # <<>> => groups'[g] = Entries(g)
    <3>1. CASE groups' = impactResultFromMap
      BY <1>2, <3>1, ImpactCapped
    <3>2. CASE groups' = NothingFound
      <4>1. \A g \in 1..6 : groups'[g] = <<>>
        BY <3>2, Categories DEF NothingFound
      <4>2. UNION {{g} \X DOMAIN groups'[g] : g \in 1..6} = {}
        <5>1. \A g \in 1..6 : DOMAIN groups'[g] = {}
          BY <4>1
        <5>. QED
          BY <5>1
      <4>3. call.max \in Nat /\ Cardinality({}) = 0
        BY <1>2, CallTypes, FS_EmptySet
      <4>4. call.max > 0 => Cardinality(UNION {{g} \X DOMAIN groups'[g] : g \in 1..6}) <= call.max
        <5>. DEFINE all == UNION {{g} \X DOMAIN groups'[g] : g \in 1..6}
        <5>1. all = {}
          BY <4>2
        <5>. HIDE DEF all
        <5>2. call.max > 0 => Cardinality(all) <= call.max
          BY <4>3, <5>1
        <5>. QED
          BY <5>2 DEF all
      <4>5. \A g, h \in 1..6 : g < h /\ groups'[h] # <<>> => groups'[g] = Entries(g)
        BY <4>1
      <4>. QED
        BY <4>4, <4>5
    <3>. QED
      BY <1>1, <3>1, <3>2
  <2>. QED
    BY <1>1, <2>1, <2>2, <2>3 DEF ImpactCutsLast, CallKept
<1>6. SubgraphClosed'
  BY <1>1 DEF SubgraphClosed, Answers, CallKept
<1>7. NeverGuesses'
  BY <1>1, StillNoGuess DEF ToolsInv, CallKept
<1>8. Resolving'
  BY <1>1 DEF Resolving, Unresolved
<1>. QED
  BY <1>1, <1>4, <1>5, <1>6, <1>7, <1>8 DEF ToolsInv, CallKept

\* The other reads.
LEMMA RelativesRead ==
  ASSUME ToolsInv, ReadRelatives
  PROVE  ToolsInv'
<1>. USE DEF ReadRelatives, Reading, Reply
<1>. DEFINE relations == {IF call.tool = "find_callers" THEN "called_by" ELSE "calls"}
<1>1. /\ CallKept /\ UNCHANGED <<nodes, groups, hunks, prs, dropped, cands, target>>
      /\ step' = "replied" /\ reply' = "ok" /\ call.tool \notin {"get_subgraph", "impact_analysis"}
  BY DEF CallKept, Relatives
<1>2. call \in Call /\ store \in SUBSET StoredEdge /\ IsFiniteSet(store)
  BY DEF ToolsInv, ToolsTypeOK
<1>3. PICK n \in cands : \E found \in Walks(store, n, planTraversal(relations), Depth, call.max) :
                            edges' = ShownByTarget(found)
  OBVIOUS
<1>4. relations \in SUBSET Relations
  BY DEF Relations
<1>5. PICK found \in Walks(store, n, planTraversal(relations), Depth, call.max) : edges' = ShownByTarget(found)
  BY <1>3
<1>6. found \subseteq Neighbor
  <2>. HIDE DEF relations
  <2>1. Depth \in Nat \ {0} /\ call.max \in Nat
    BY <1>2, CallTypes
  <2>. QED
    BY <1>2, <1>4, <2>1, WalksFind
<1>7. ToolsTypeOK'
  <2>1. edges' \subseteq Neighbor
    BY <1>5, <1>6 DEF ShownByTarget
  <2>. QED
    BY <1>1, <2>1 DEF ToolsInv, ToolsTypeOK, CallKept
<1>8. Resolving'
  BY <1>1 DEF Resolving, Unresolved
<1>9. NeverGuesses'
  BY <1>1, NothingGuessed DEF Relatives, Traversals, CallKept
<1>. QED
  BY <1>1, <1>7, <1>8, <1>9, OtherReplies

LEMMA HistoryRead ==
  ASSUME ToolsInv, ReadConcurrency \/ ReadPRs
  PROVE  ToolsInv'
<1>. USE DEF ReadConcurrency, ReadPRs, Reading, Reply
<1>1. /\ CallKept /\ UNCHANGED <<edges, groups, hunks, dropped, cands, target>>
      /\ step = "read" /\ step' = "replied" /\ reply' = "ok" /\ call.tool \notin {"get_subgraph", "impact_analysis"}
  BY DEF CallKept
<1>2. nodes' \subseteq Nodes /\ prs' \subseteq UNION {PRs[n] : n \in Nodes}
  <2>1. CASE ReadConcurrency
    BY <2>1 DEF ToolsInv, ToolsTypeOK
  <2>2. CASE ReadPRs
    <3>1. PICK n \in cands : prs' \in Capped(PRs[n], call.max)
      BY <2>2
    <3>2. n \in Nodes /\ prs' \subseteq PRs[n]
      BY <3>1 DEF ToolsInv, ToolsTypeOK, Capped, kSubset
    <3>. QED
      BY <2>2, <3>2 DEF ToolsInv, ToolsTypeOK
  <2>. QED
    BY <2>1, <2>2
<1>3. ToolsTypeOK'
  BY <1>1, <1>2 DEF ToolsInv, ToolsTypeOK, CallKept
<1>4. Resolving'
  BY <1>1 DEF Resolving, Unresolved
<1>5. NeverGuesses'
  BY <1>1, StillNoGuess DEF ToolsInv, CallKept
<1>. QED
  BY <1>1, <1>3, <1>4, <1>5, OtherReplies

LEMMA EvidenceRead ==
  ASSUME ToolsInv, ReadEvidence
  PROVE  ToolsInv'
<1>. USE DEF ReadEvidence, Reply
<1>1. /\ CallKept /\ UNCHANGED <<nodes, edges, groups, prs, dropped, cands, target>> /\ hunks' \subseteq Hunks
      /\ step = "evidence" /\ step' \in {"replied", "canonical"} /\ (step' = "canonical" => call.name # <<>>)
  BY DEF CallKept
<1>2. reply = "none" /\ reply' \in {"none", "ok"} /\ (reply' = "none" <=> step' # "replied")
  BY DEF ToolsInv
<1>3. ToolsTypeOK'
  BY <1>1, <1>2 DEF ToolsInv, ToolsTypeOK, CallKept
<1>4. /\ call \in Call /\ dropped = 0 /\ cands = {} /\ target = call.name
      /\ call.tool = "change_history"
  BY <1>1 DEF ToolsInv, ToolsTypeOK, Resolving, Unresolved
<1>5. Resolving'
  <2>1. call.name \in Seq(STRING)
    BY <1>4, CallTypes
  <2>2. step' = "canonical" => 0 < Len(call.name)
    BY <1>1, <2>1
  <2>. QED
    BY <1>1, <1>4, <2>2 DEF Resolving, Unresolved, CallKept
<1>6. NeverGuesses'
  BY <1>1, <1>4, NothingGuessed DEF CallKept
<1>. QED
  BY <1>1, <1>2, <1>3, <1>4, <1>5, <1>6, OtherReplies

LEMMA IndexRead ==
  ASSUME ToolsInv, ReadIndex
  PROVE  ToolsInv'
<1>. USE DEF ReadIndex, Reply
<1>1. /\ CallKept /\ UNCHANGED <<edges, groups, hunks, prs, dropped, cands, target>>
      /\ step = "index" /\ step' = "replied" /\ reply' = "ok"
  BY DEF CallKept
<1>2. call.tool = "search_text" /\ call \in Call
  BY <1>1 DEF ToolsInv, ToolsTypeOK, Resolving
<1>3. PICK ranking \in Rankings : nodes' = ShownNodes(Search(ranking))
  OBVIOUS
<1>4. Search(ranking) \subseteq Nodes
  <2>. DEFINE limit == IF call.max > 0 THEN call.max ELSE DefaultSearchLimit
              fetch == IF call.only = Nodes THEN limit ELSE limit * FilterOverfetchRatio
              rows == Kept(FirstOf(ranking, fetch), call.only)
  <2>1. limit \in Int /\ fetch \in Int
    <3>1. call.max \in Int /\ DefaultSearchLimit \in Int /\ FilterOverfetchRatio \in Int
      BY <1>2, CallTypes, GraphToolsInputs
    <3>2. \A i, j \in Int : i * j \in Int
      OBVIOUS
    <3>. QED
      BY <3>1, <3>2
  <2>2. ranking \in Seq(Nodes)
    BY GraphToolsInputs
  <2>. HIDE DEF limit, fetch
  <2>3. FirstOf(ranking, fetch) \in Seq(Nodes)
    BY <2>1, <2>2, FirstOfIs
  <2>4. rows \in Seq(Nodes \intersect call.only)
    BY <2>3, KeptType
  <2>5. FirstOf(rows, limit) \in Seq(Nodes \intersect call.only)
    <3>. HIDE DEF rows
    <3>. QED
      BY <2>1, <2>4, FirstOfIs
  <2>6. Search(ranking) = ToSet(FirstOf(rows, limit))
    BY DEF Search, limit, fetch
  <2>. HIDE DEF rows
  <2>. QED
    BY <2>5, <2>6 DEF ToSet
<1>5. ToolsTypeOK'
  BY <1>1, <1>3, <1>4 DEF ToolsInv, ToolsTypeOK, CallKept, ShownNodes
<1>6. Resolving'
  BY <1>1 DEF Resolving, Unresolved
<1>7. NeverGuesses'
  BY <1>1, <1>2, NothingGuessed DEF Traversals, CallKept
<1>. QED
  BY <1>1, <1>2, <1>5, <1>6, <1>7, OtherReplies

LEMMA FailedRead ==
  ASSUME ToolsInv, ReadFails
  PROVE  ToolsInv'
<1>. USE DEF ReadFails, Reply
<1>1. CallKept /\ UNCHANGED <<dropped, cands, target>> /\ step' = "replied" /\ reply' = "error"
  BY DEF CallKept
<1>2. ToolsTypeOK'
  <2>1. NothingFound \in [DOMAIN impactGroupOrder -> Seq(Nodes)]
    BY DEF NothingFound
  <2>. QED
    BY <1>1, <2>1 DEF ToolsInv, ToolsTypeOK, CallKept
<1>3. Resolving'
  BY <1>1 DEF Resolving, Unresolved
<1>4. NeverGuesses'
  <2>1. CASE step = "read"
    BY <1>1, <2>1, StillNoGuess DEF ToolsInv, CallKept
  <2>2. CASE step \in {"evidence", "index"}
    BY <1>1, <2>2, NothingGuessed DEF ToolsInv, Resolving, Unresolved, CallKept
  <2>. QED
    BY <2>1, <2>2
<1>. QED
  BY <1>1, <1>2, <1>3, <1>4, OtherReplies

THEOREM ToolsInvariant == ToolsSpec => []ToolsInv
<1>1. ASSUME ToolsInv, [ToolsNext]_toolsVars PROVE ToolsInv'
  <2>1. CASE UNCHANGED toolsVars
    <3>1. CallKept /\ UNCHANGED <<step, dropped, cands, target, reply>> /\ UNCHANGED <<nodes, edges, groups, hunks, prs>>
      BY <2>1 DEF toolsVars, parts, CallKept
    <3>2. ToolsTypeOK' /\ Resolving'
      <4>1. /\ Root' = Root /\ ByCanonicalId' = ByCanonicalId /\ \A k : NoneBefore(k)' = NoneBefore(k)
            /\ \A k : SuffixMatches(Remaining(k))' = SuffixMatches(Remaining(k))
        BY <3>1 DEF Root, CallKept, NoneBefore, ByCanonicalId, SuffixMatches, Remaining
      <4>2. ToolsTypeOK'
        BY <1>1, <3>1 DEF ToolsInv, ToolsTypeOK, CallKept
      <4>3. Resolving'
        BY <1>1, <3>1, <4>1 DEF ToolsInv, Resolving, CallKept
      <4>. QED
        BY <4>2, <4>3
    <3>3. NeverGuesses'
      <4>1. Root' = Root /\ \A n : Meant(n)' = Meant(n)
        BY <3>1 DEF Root, Meant, MeantBy, SuffixMatches, CallKept
      <4>. QED
        BY <1>1, <3>1, <4>1 DEF ToolsInv, NeverGuesses, CallKept
    <3>4. Root' = Root /\ EdgeLimit' = EdgeLimit /\ ShownNodes(cands)' = ShownNodes(cands) /\ \A g : Entries(g)' = Entries(g)
      BY <3>1 DEF Root, EdgeLimit, ShownNodes, Entries, CallKept
    <3>5. SubgraphClosed' /\ ImpactCutsLast'
      BY <1>1, <3>1, <3>4 DEF ToolsInv, SubgraphClosed, ImpactCutsLast, Answers, CallKept
    <3>. QED
      BY <1>1, <3>1, <3>2, <3>3, <3>5 DEF ToolsInv, CallKept
  <2>2. CASE RefuseCall \/ AcceptCall \/ Resolve
    BY <1>1, <2>2, ArgumentsChecked, Resolves
  <2>3. CASE Bind
    BY <1>1, <2>3, Binds, FileLookup, Seeds DEF Bind
  <2>4. CASE Read
    BY <1>1, <2>4, RelativesRead, SubgraphRead, ImpactRead, HistoryRead, EvidenceRead, IndexRead, FailedRead DEF Read
  <2>. QED
    BY <1>1, <2>1, <2>2, <2>3, <2>4 DEF ToolsNext
<1>. QED
  BY <1>1, ToolsStart, PTL DEF ToolsSpec

\* Whatever the store, the index and the impact analysis answer, the parts of a
\* reply are of their types.
THEOREM ToolsTypeCorrect == ToolsSpec => []ToolsTypeOK
<1>1. ToolsInv => ToolsTypeOK
  BY DEF ToolsInv
<1>. QED
  BY <1>1, ToolsInvariant, PTL

\* A subgraph answer is closed, keeps its root and stays within its cap, for every
\* finite graph and every depth.
THEOREM SubgraphSafe == ToolsSpec => []SubgraphClosed
<1>1. ToolsInv => SubgraphClosed
  BY DEF ToolsInv
<1>. QED
  BY <1>1, ToolsInvariant, PTL

\* A traversal acts on meant symbols only, whichever lookups fail, up to symbols that
\* share one qualified name, for every graph and every assignment of names and ids.
THEOREM NoGuessSafe == ToolsSpec => []NeverGuesses
<1>1. ToolsInv => NeverGuesses
  BY DEF ToolsInv
<1>. QED
  BY <1>1, ToolsInvariant, PTL

\* One cap for all categories of an impact answer, and it cuts the last ones.
THEOREM ImpactSafe == ToolsSpec => []ImpactCutsLast
<1>1. ToolsInv => ImpactCutsLast
  BY DEF ToolsInv
<1>. QED
  BY <1>1, ToolsInvariant, PTL

(***************************************************************************)
(* Stage 3                                                                 *)
(***************************************************************************)
USE ExpansionConfig, ExpansionInputs

\* What an intent asks for, in groups of one direction.
LEMMA GroupsAreRelations ==
  /\ Len(relationGroups) \in Nat
  /\ \A i \in 1..Len(relationGroups) : intent \in Intents => relationGroups[i] \in SUBSET Relations
<1>. DEFINE rels == intentToRelations[intent]
            forward == rels \ {"called_by"}
            reverse == rels \intersect {"called_by"}
            Group(g) == IF g = {} THEN <<>> ELSE <<g>>
<1>1. intent \in Intents => rels \subseteq Relations
  BY DEF intentToRelations, Relations
<1>2. relationGroups = IF rels = {} THEN <<{}>> ELSE Group(forward) \o Group(reverse)
  BY DEF relationGroups, splitByDirection
<1>. HIDE DEF rels
<1>3. CASE rels = {}
  BY <1>2, <1>3
<1>4. CASE rels # {} /\ forward = {}
  BY <1>1, <1>2, <1>4
<1>5. CASE rels # {} /\ reverse = {}
  BY <1>1, <1>2, <1>5
<1>6. CASE rels # {} /\ forward # {} /\ reverse # {}
  <2>1. relationGroups = <<forward>> \o <<reverse>>
    BY <1>2, <1>6
  <2>2. <<forward>> \in Seq({forward, reverse}) /\ <<reverse>> \in Seq({forward, reverse})
    OBVIOUS
  <2>3. /\ Len(relationGroups) = 2
        /\ \A i \in 1..2 : relationGroups[i] = IF i <= 1 THEN <<forward>>[i] ELSE <<reverse>>[i - 1]
    BY <2>1, <2>2, ConcatProperties
  <2>4. \A i \in 1..2 : relationGroups[i] \in {forward, reverse}
    BY <2>3
  <2>. QED
    BY <1>1, <2>3, <2>4
<1>. QED
  BY <1>3, <1>4, <1>5, <1>6

(***************************************************************************)
(* The inductive invariant.                                                *)
(***************************************************************************)
WalkAnswer == [err : BOOLEAN, found : {F \in SUBSET Neighbor : Cardinality(F) <= NeighborsPerSeed}]
Evidence == [edge : Neighbor, score : Nat, sources : SUBSET [seed : Citations, relation : Relations]]

\* The call's inputs stay, and the walk of the list ends behind its last seed.
CallStands ==
  /\ graph \in Graphs /\ seeds \in SeedLists /\ intent \in Intents
  /\ at \in 1..Smaller(Len(seeds), MaxSeedsToExpand) + 1
  /\ returned \in BOOLEAN /\ (returned => at \notin toExpand)

Collected ==
  /\ answers \in [DOMAIN seeds -> Seq(WalkAnswer)]
  /\ DOMAIN agg \subseteq Nodes /\ \A t \in DOMAIN agg : agg[t] \in Evidence
  /\ neighbors \subseteq DOMAIN agg
  /\ \A c \in failedSeeds : \E i \in toExpand : Done(i) /\ seeds[i].citation = c

ExpansionInv ==
  /\ CallStands /\ Collected
  /\ PartialAnswersKept /\ FailuresNamed /\ BestEvidence /\ CapKeepsBest

LEMMA InputTypes ==
  ASSUME CallStands
  PROVE  /\ Len(seeds) \in Nat /\ DOMAIN seeds = 1..Len(seeds)
         /\ toExpand \subseteq DOMAIN seeds /\ at \in Nat
         /\ \A i \in DOMAIN seeds : seeds[i].citation \in Citations /\ seeds[i].score \in Nat
         /\ \A i, j \in DOMAIN seeds : seeds[i].citation = seeds[j].citation => i = j
<1>1. seeds \in Seq([citation : Citations, score : Nat])
  BY DEF CallStands
<1>2. Len(seeds) \in Nat /\ DOMAIN seeds = 1..Len(seeds) /\ at \in Nat
  BY <1>1 DEF CallStands, Smaller
<1>3. \A i \in DOMAIN seeds : seeds[i].citation \in Citations /\ seeds[i].score \in Nat
  <2>1. \A i \in DOMAIN seeds : seeds[i] \in [citation : Citations, score : Nat]
    BY <1>1, <1>2, ElementOfSeq
  <2>. QED
    BY <2>1
<1>4. \A i, j \in DOMAIN seeds : seeds[i].citation = seeds[j].citation => i = j
  <2>1. \A i, j \in DOMAIN seeds : i < j => seeds[i].citation # seeds[j].citation
    BY DEF CallStands
  <2>. QED
    BY <1>2, <2>1
<1>. QED
  BY <1>2, <1>3, <1>4 DEF toExpand, Smaller

LEMMA InitHolds == Init => ExpansionInv
<1>. SUFFICES ASSUME Init PROVE ExpansionInv
  OBVIOUS
<1>1. seeds \in Seq([citation : Citations, score : Nat])
  BY DEF Init
<1>2. CallStands
  <2>1. Smaller(Len(seeds), MaxSeedsToExpand) \in Nat
    BY <1>1 DEF Smaller
  <2>2. at = 1 /\ at \in 1..Smaller(Len(seeds), MaxSeedsToExpand) + 1
    BY <2>1 DEF Init
  <2>3. returned = FALSE /\ graph \in Graphs /\ seeds \in SeedLists /\ intent \in Intents
    BY DEF Init
  <2>. QED
    BY <2>2, <2>3 DEF CallStands
<1>3. ~ \E i \in toExpand : Done(i)
  BY <1>2, InputTypes DEF Init, Done, toExpand
<1>4. DOMAIN agg = {} /\ failedSeeds = {} /\ neighbors = {} /\ ~ returned
  BY DEF Init
<1>5. Collected
  BY <1>4 DEF Init, Collected
<1>. QED
  BY <1>2, <1>3, <1>4, <1>5 DEF ExpansionInv, PartialAnswersKept, FailuresNamed, BestEvidence,
     CapKeepsBest, Finders

(***************************************************************************)
(* Walks: an answer of the seed under expansion touches no seed that is    *)
(* done.                                                                   *)
(***************************************************************************)
LEMMA AnswerMoves ==
  ASSUME ExpansionInv, Asking, NEW a \in WalkAnswer, Answer(a.err, a.found)
  PROVE  ExpansionInv'
<1>. USE DEF ExpansionInv
<1>1. at \in DOMAIN seeds /\ UNCHANGED <<graph, seeds, intent, at, agg, failedSeeds, returned, neighbors>>
  BY InputTypes DEF Asking
<1>2. answers' \in [DOMAIN seeds -> Seq(WalkAnswer)]
  <2>1. answers[at] \in Seq(WalkAnswer) /\ [err |-> a.err, found |-> a.found] \in WalkAnswer
    BY <1>1 DEF Collected, WalkAnswer
  <2>2. Append(answers[at], [err |-> a.err, found |-> a.found]) \in Seq(WalkAnswer)
    BY <2>1
  <2>. QED
    BY <1>1, <2>2 DEF Answer, Collected
<1>3. CallStands' /\ toExpand' = toExpand
  BY <1>1 DEF CallStands, toExpand
<1>4. \A i \in toExpand : Done(i)' = Done(i) /\ (Done(i) => answers'[i] = answers[i])
  BY <1>1, <1>3, InputTypes DEF Done, Answer, Collected
<1>5. \A i \in toExpand : Done(i) => Found(i)' = Found(i)
  BY <1>4 DEF Found
<1>6. \A t : Finders(t)' = Finders(t)
  BY <1>3, <1>4, <1>5 DEF Finders
<1>7. \A i \in toExpand : \A t : Done(i) => Sources(i, t)' = Sources(i, t)
  BY <1>1, <1>5 DEF Sources
<1>8. Collected'
  BY <1>1, <1>2, <1>3, <1>4 DEF Collected
<1>9. PartialAnswersKept'
  <2>1. (DOMAIN agg = {t \in Nodes : Finders(t) # {}} \ {seeds[i].citation : i \in DOMAIN seeds})'
    BY <1>1, <1>6 DEF PartialAnswersKept
  <2>2. ASSUME NEW t \in DOMAIN agg' PROVE (agg[t].sources = UNION {Sources(i, t) : i \in Finders(t)})'
    <3>1. \A i \in Finders(t) : Sources(i, t)' = Sources(i, t)
      BY <1>7 DEF Finders
    <3>2. agg[t].sources = UNION {Sources(i, t) : i \in Finders(t)}
      BY <1>1, <2>2 DEF PartialAnswersKept
    <3>. QED
      BY <1>1, <1>6, <3>1, <3>2
  <2>. QED
    BY <2>1, <2>2 DEF PartialAnswersKept
<1>10. FailuresNamed'
  BY <1>1, <1>3, <1>4, <1>5 DEF FailuresNamed
<1>11. BestEvidence'
  <2>1. \A t : \A i \in Finders(t) : Found(i)' = Found(i)
    BY <1>5 DEF Finders
  <2>. QED
    BY <1>1, <1>6, <2>1 DEF BestEvidence, Decayed
<1>12. CapKeepsBest'
  BY <1>1 DEF CapKeepsBest
<1>. QED
  BY <1>3, <1>8, <1>9, <1>10, <1>11, <1>12

LEMMA WalkMoves ==
  ASSUME ExpansionInv, WalkAnswers \/ WalkFails
  PROVE  ExpansionInv'
<1>1. CASE WalkFails
  <2>1. IsFiniteSet({}) /\ Cardinality({}) = 0
    BY FS_EmptySet
  <2>2. [err |-> TRUE, found |-> {}] \in WalkAnswer
    BY <2>1 DEF WalkAnswer
  <2>. QED
    BY <1>1, <2>2, AnswerMoves DEF WalkFails
<1>2. CASE WalkAnswers
  <2>. DEFINE next == Len(answers[at]) + 1
              group == relationGroups[next]
  <2>1. PICK found \in Walks(graph, matchQname(seeds[at].citation), planTraversal(group),
                              intentToHops(intent), NeighborsPerSeed) : Asking /\ Answer(FALSE, found)
    BY <1>2 DEF WalkAnswers
  <2>2. group \in SUBSET Relations
    <3>1. answers[at] \in Seq(WalkAnswer) /\ intent \in Intents
      BY <2>1, InputTypes DEF ExpansionInv, CallStands, Collected, Asking
    <3>2. next \in 1..Len(relationGroups)
      BY <2>1, <3>1, GroupsAreRelations DEF Asking
    <3>. QED
      BY <3>1, <3>2, GroupsAreRelations
  <2>3. intentToHops(intent) \in Nat \ {0} /\ graph \in SUBSET StoredEdge /\ IsFiniteSet(graph)
    BY DEF intentToHops, ExpansionInv, CallStands
  <2>4. found \subseteq Neighbor /\ Cardinality(found) <= NeighborsPerSeed
    <3>1. NeighborsPerSeed \in Nat /\ NeighborsPerSeed > 0
      OBVIOUS
    <3>. QED
      BY <2>1, <2>2, <2>3, <3>1, WalksFind
  <2>5. [err |-> FALSE, found |-> found] \in WalkAnswer
    BY <2>4 DEF WalkAnswer
  <2>. QED
    BY <2>1, <2>5, AnswerMoves
<1>. QED
  BY <1>1, <1>2

(***************************************************************************)
(* The end of a seed                                                       *)
(***************************************************************************)
\* Who is done afterwards: the seed under expansion too, with all it found.
LEMMA SeedEnds ==
  ASSUME ExpansionInv, Answered, at' = at + 1, UNCHANGED <<graph, seeds, intent, answers, returned, neighbors>>,
         failedSeeds' \subseteq failedSeeds \union {seeds[at].citation}
  PROVE  /\ CallStands' /\ ~ returned /\ toExpand' = toExpand /\ at \in DOMAIN seeds
         /\ \A c \in failedSeeds' : \E i \in toExpand' : Done(i)' /\ seeds'[i].citation = c
         /\ \A i \in toExpand : Done(i)' <=> Done(i) \/ i = at
         /\ \A i : Found(i)' = Found(i) /\ SeedErr(i)' = SeedErr(i)
         /\ \A i, t : Sources(i, t)' = Sources(i, t)
         /\ \A t : Finders(t)' = Finders(t) \union (IF \E n \in Found(at) : n.target = t THEN {at} ELSE {})
<1>. USE DEF ExpansionInv
<1>1. at \in toExpand /\ at \in DOMAIN seeds /\ ~ returned
  BY InputTypes DEF Answered, CallStands
<1>2. toExpand' = toExpand
  BY DEF toExpand
<1>3. CallStands'
  <2>1. at \in 1..Smaller(Len(seeds), MaxSeedsToExpand) /\ Smaller(Len(seeds), MaxSeedsToExpand) \in Nat
    BY <1>1, InputTypes DEF toExpand, Smaller
  <2>2. at' \in 1..Smaller(Len(seeds), MaxSeedsToExpand) + 1
    BY <2>1
  <2>. QED
    BY <1>1, <2>2 DEF CallStands
<1>4. \A i \in toExpand : Done(i)' <=> Done(i) \/ i = at
  BY <1>1, <1>2, InputTypes DEF Done
<1>5. \A i : Found(i)' = Found(i) /\ SeedErr(i)' = SeedErr(i)
  BY DEF Found, SeedErr
<1>6. \A i, t : Sources(i, t)' = Sources(i, t)
  BY <1>5 DEF Sources
<1>7. \A t : Finders(t)' = Finders(t) \union (IF \E n \in Found(at) : n.target = t THEN {at} ELSE {})
  BY <1>1, <1>2, <1>4, <1>5 DEF Finders
<1>8. \A c \in failedSeeds' : \E i \in toExpand' : Done(i)' /\ seeds'[i].citation = c
  BY <1>1, <1>2, <1>4 DEF Collected
<1>. QED
  BY <1>1, <1>2, <1>3, <1>4, <1>5, <1>6, <1>7, <1>8

LEMMA FailMoves ==
  ASSUME ExpansionInv, FailSeed
  PROVE  ExpansionInv'
<1>. USE DEF ExpansionInv
<1>1. /\ Answered /\ GaveNothing(at) /\ failedSeeds' = failedSeeds \union {seeds[at].citation}
      /\ at' = at + 1 /\ UNCHANGED <<graph, seeds, intent, answers, agg, returned, neighbors>>
  BY DEF FailSeed
<1>2. /\ CallStands' /\ toExpand' = toExpand /\ at \in DOMAIN seeds
      /\ \A c \in failedSeeds' : \E i \in toExpand' : Done(i)' /\ seeds'[i].citation = c
      /\ \A i \in toExpand : Done(i)' <=> Done(i) \/ i = at
      /\ \A i : Found(i)' = Found(i) /\ SeedErr(i)' = SeedErr(i)
      /\ \A i, t : Sources(i, t)' = Sources(i, t)
  BY <1>1, SeedEnds
<1>3. \A t : Finders(t)' = Finders(t)
  <2>1. \A t : Finders(t)' = Finders(t) \union (IF \E n \in Found(at) : n.target = t THEN {at} ELSE {})
    BY <1>1, SeedEnds
  <2>2. Found(at) = {}
    BY <1>1 DEF GaveNothing
  <2>. HIDE DEF Found, Finders
  <2>. QED
    BY <2>1, <2>2
<1>4. Collected'
  BY <1>1, <1>2 DEF Collected
<1>5. PartialAnswersKept'
  <2>1. (DOMAIN agg = {t \in Nodes : Finders(t) # {}} \ {seeds[i].citation : i \in DOMAIN seeds})'
    BY <1>1, <1>3 DEF PartialAnswersKept
  <2>2. ASSUME NEW t \in DOMAIN agg' PROVE (agg[t].sources = UNION {Sources(i, t) : i \in Finders(t)})'
    <3>1. agg[t].sources = UNION {Sources(i, t) : i \in Finders(t)}
      BY <1>1, <2>2 DEF PartialAnswersKept
    <3>2. \A i : Sources(i, t)' = Sources(i, t)
      BY <1>2
    <3>. QED
      BY <1>1, <1>3, <3>1, <3>2
  <2>. QED
    BY <2>1, <2>2 DEF PartialAnswersKept
<1>6. FailuresNamed'
  <2>. SUFFICES ASSUME NEW i \in toExpand, Done(i) \/ i = at
                PROVE  seeds[i].citation \in failedSeeds' <=> Found(i) = {} /\ SeedErr(i)
    BY <1>1, <1>2 DEF FailuresNamed, SeedErr
  <2>1. i = at => Found(i) = {} /\ SeedErr(i)
    BY <1>1 DEF GaveNothing
  <2>2. i # at => Done(i) /\ seeds[i].citation # seeds[at].citation
    BY <1>2, InputTypes
  <2>. QED
    BY <1>1, <2>1, <2>2 DEF FailuresNamed, SeedErr
<1>7. BestEvidence'
  BY <1>1, <1>2, <1>3 DEF BestEvidence, Decayed
<1>8. CapKeepsBest'
  BY <1>1 DEF CapKeepsBest
<1>. QED
  BY <1>2, <1>4, <1>5, <1>6, <1>7, <1>8

\* What a seed found is of the contract's types.
LEMMA FoundTypes ==
  ASSUME Collected, CallStands, NEW i \in DOMAIN seeds
  PROVE  /\ Found(i) \subseteq Neighbor
         /\ Targets(i) \subseteq Nodes
         /\ \A t : Sources(i, t) \in SUBSET [seed : Citations, relation : Relations]
<1>1. answers[i] \in Seq(WalkAnswer)
  BY DEF Collected
<1>2. ASSUME NEW g \in DOMAIN answers[i] PROVE answers[i][g].found \subseteq Neighbor
  <2>1. answers[i][g] \in WalkAnswer
    BY <1>1
  <2>. QED
    BY <2>1 DEF WalkAnswer
<1>3. Found(i) \subseteq Neighbor
  BY <1>2 DEF Found
<1>4. Targets(i) \subseteq Nodes
  BY <1>3 DEF Targets, Neighbor
<1>5. \A t : Sources(i, t) \in SUBSET [seed : Citations, relation : Relations]
  BY <1>3, InputTypes DEF Sources, Neighbor
<1>. QED
  BY <1>3, <1>4, <1>5

\* What add makes of a target: the better score with its edge, and all sources.
LEMMA MergedIs ==
  ASSUME ExpansionInv, at \in DOMAIN seeds, NEW t, NEW e \in Found(at)
  PROVE  LET m == Merged(t, e)
             new == Decayed(seeds[at].score) IN
         /\ m \in Evidence /\ m.score >= new
         /\ t \in DOMAIN agg => m.score >= agg[t].score /\ m.sources = agg[t].sources \union Sources(at, t)
         /\ t \notin DOMAIN agg => m.sources = Sources(at, t)
         /\ \/ m.score = new /\ m.edge = e
            \/ t \in DOMAIN agg /\ m.score = agg[t].score /\ m.edge = agg[t].edge
<1>. DEFINE new == Decayed(seeds[at].score)
            fresh == [edge |-> e, score |-> new, sources |-> Sources(at, t)]
            all == agg[t].sources \union fresh.sources
<1>1. new \in Nat
  BY InputTypes DEF ExpansionInv, Decayed
<1>2. e \in Neighbor /\ Sources(at, t) \in SUBSET [seed : Citations, relation : Relations]
  BY FoundTypes DEF ExpansionInv
<1>3. Merged(t, e) = IF t \notin DOMAIN agg THEN fresh
                     ELSE IF new > agg[t].score THEN [fresh EXCEPT !.sources = all]
                     ELSE [agg[t] EXCEPT !.sources = all]
  BY DEF Merged, Better
<1>4. t \in DOMAIN agg => agg[t] \in Evidence
  BY DEF ExpansionInv, Collected
<1>. HIDE DEF new
<1>5. CASE t \notin DOMAIN agg
  BY <1>1, <1>2, <1>3, <1>5 DEF Evidence, new
<1>6. CASE t \in DOMAIN agg /\ new > agg[t].score
  <2>1. Merged(t, e) = [edge |-> e, score |-> new, sources |-> agg[t].sources \union Sources(at, t)]
    BY <1>3, <1>6
  <2>. QED
    BY <1>1, <1>2, <1>4, <1>6, <2>1 DEF Evidence, new
<1>7. CASE t \in DOMAIN agg /\ ~ (new > agg[t].score)
  <2>1. Merged(t, e) = [edge |-> agg[t].edge, score |-> agg[t].score, sources |-> agg[t].sources \union Sources(at, t)]
    BY <1>3, <1>4, <1>7 DEF Evidence
  <2>. QED
    BY <1>1, <1>2, <1>4, <1>7, <2>1 DEF Evidence, new
<1>. QED
  BY <1>5, <1>6, <1>7

LEMMA AggregateMoves ==
  ASSUME ExpansionInv, AggregateSeed
  PROVE  ExpansionInv'
<1>. USE DEF ExpansionInv
<1>1. /\ Answered /\ ~ GaveNothing(at) /\ at' = at + 1
      /\ UNCHANGED <<graph, seeds, intent, answers, failedSeeds, returned, neighbors>>
  BY DEF AggregateSeed
<1>2. /\ CallStands' /\ ~ returned /\ toExpand' = toExpand /\ at \in DOMAIN seeds
      /\ \A c \in failedSeeds' : \E i \in toExpand' : Done(i)' /\ seeds'[i].citation = c
      /\ \A i \in toExpand : Done(i)' <=> Done(i) \/ i = at
      /\ \A i : Found(i)' = Found(i) /\ SeedErr(i)' = SeedErr(i)
      /\ \A i, t : Sources(i, t)' = Sources(i, t)
  BY <1>1, SeedEnds
<1>3. \A t : Finders(t)' = Finders(t) \union (IF \E n \in Found(at) : n.target = t THEN {at} ELSE {})
  BY <1>1, SeedEnds
<1>4. PICK first \in [Targets(at) -> Found(at)] :
        /\ \A t \in Targets(at) : first[t] \in FirstEdges(at, t)
        /\ agg' = [t \in DOMAIN agg \union Targets(at) |->
                    IF t \in Targets(at) THEN Merged(t, first[t]) ELSE agg[t]]
  BY DEF AggregateSeed
<1>5. \A t \in Targets(at) : first[t] \in Found(at) /\ first[t].target = t
  BY <1>4 DEF FirstEdges
<1>6. /\ DOMAIN agg' = DOMAIN agg \union Targets(at)
      /\ \A t \in Targets(at) : agg'[t] = Merged(t, first[t])
      /\ \A t \in DOMAIN agg \ Targets(at) : agg'[t] = agg[t]
  BY <1>4
<1>7. ASSUME NEW t \in Targets(at)
      PROVE  /\ agg'[t] \in Evidence /\ agg'[t].score >= Decayed(seeds[at].score)
             /\ t \in DOMAIN agg => /\ agg'[t].score >= agg[t].score
                                    /\ agg'[t].sources = agg[t].sources \union Sources(at, t)
             /\ t \notin DOMAIN agg => agg'[t].sources = Sources(at, t)
             /\ \/ agg'[t].score = Decayed(seeds[at].score) /\ agg'[t].edge = first[t]
                \/ t \in DOMAIN agg /\ agg'[t].score = agg[t].score /\ agg'[t].edge = agg[t].edge
  BY <1>2, <1>5, <1>6, <1>7, MergedIs
<1>8. /\ Targets(at) \subseteq Nodes
      /\ Targets(at) = {n.target : n \in Found(at)} \ {seeds[i].citation : i \in DOMAIN seeds}
  BY <1>2, FoundTypes DEF Targets, buildSeedKeys
<1>9. Collected'
  BY <1>1, <1>2, <1>6, <1>7, <1>8 DEF Collected
\* Targets are found by the seed under expansion, other nodes are not new.
<1>10. /\ \A t \in Targets(at) : Finders(t)' = Finders(t) \union {at}
       /\ \A t \in DOMAIN agg \ Targets(at) : Finders(t)' = Finders(t)
       /\ \A t \in Targets(at) \ DOMAIN agg : Finders(t) = {}
  <2>1. \A t \in Targets(at) : Finders(t)' = Finders(t) \union {at}
    BY <1>3, <1>8
  <2>2. ASSUME NEW t \in DOMAIN agg \ Targets(at) PROVE Finders(t)' = Finders(t)
    <3>1. t \notin {seeds[i].citation : i \in DOMAIN seeds}
      BY <2>2 DEF PartialAnswersKept
    <3>2. ~ \E n \in Found(at) : n.target = t
      BY <1>8, <2>2, <3>1
    <3>. HIDE DEF Finders, Found
    <3>. QED
      BY <1>3, <3>2
  <2>3. \A t \in Targets(at) \ DOMAIN agg : Finders(t) = {}
    BY <1>8 DEF PartialAnswersKept
  <2>. QED
    BY <2>1, <2>2, <2>3
<1>11. PartialAnswersKept'
  <2>1. (DOMAIN agg = {t \in Nodes : Finders(t) # {}} \ {seeds[i].citation : i \in DOMAIN seeds})'
    <3>1. ASSUME NEW t \in Nodes, t \notin {seeds[i].citation : i \in DOMAIN seeds}
          PROVE  t \in DOMAIN agg' <=> Finders(t)' # {}
      <4>1. t \in DOMAIN agg <=> Finders(t) # {}
        BY <3>1 DEF PartialAnswersKept
      <4>2. t \in Targets(at) <=> \E n \in Found(at) : n.target = t
        BY <1>8, <3>1
      <4>. HIDE DEF Finders, Found, Targets
      <4>. QED
        BY <1>3, <1>6, <4>1, <4>2
    <3>2. DOMAIN agg' \subseteq Nodes \ {seeds[i].citation : i \in DOMAIN seeds}
      BY <1>6, <1>8 DEF PartialAnswersKept
    <3>. HIDE DEF Finders
    <3>3. DOMAIN agg' = {t \in Nodes : Finders(t)' # {}} \ {seeds[i].citation : i \in DOMAIN seeds}
      BY <3>1, <3>2
    <3>. QED
      BY <1>1, <3>3
  <2>2. ASSUME NEW t \in DOMAIN agg' PROVE (agg[t].sources = UNION {Sources(i, t) : i \in Finders(t)})'
    <3>. SUFFICES agg'[t].sources = UNION {Sources(i, t) : i \in Finders(t)'}
      BY <1>2
    <3>1. t \in DOMAIN agg => agg[t].sources = UNION {Sources(i, t) : i \in Finders(t)}
      BY DEF PartialAnswersKept
    <3>. HIDE DEF Finders, Sources, Targets
    <3>2. CASE t \in Targets(at)
      <4>. DEFINE before == UNION {Sources(i, t) : i \in Finders(t)}
                  after == UNION {Sources(i, t) : i \in Finders(t)'}
      <4>1. Finders(t)' = Finders(t) \union {at}
        BY <1>10, <3>2
      <4>2. after = before \union Sources(at, t)
        BY <4>1
      <4>3. t \notin DOMAIN agg => Finders(t) = {}
        BY <1>10, <3>2
      <4>4. (t \notin DOMAIN agg => before = {}) /\ (t \in DOMAIN agg => agg[t].sources = before)
        BY <3>1, <4>3
      <4>. HIDE DEF before, after
      <4>5. agg'[t].sources = after
        BY <1>7, <3>2, <4>2, <4>4
      <4>. QED
        BY <4>5 DEF after
    <3>3. CASE t \notin Targets(at)
      BY <1>6, <1>10, <2>2, <3>1, <3>3
    <3>. QED
      BY <3>2, <3>3
  <2>. QED
    BY <2>1, <2>2 DEF PartialAnswersKept
<1>12. FailuresNamed'
  <2>. SUFFICES ASSUME NEW i \in toExpand, Done(i) \/ i = at
                PROVE  seeds[i].citation \in failedSeeds <=> Found(i) = {} /\ SeedErr(i)
    BY <1>1, <1>2 DEF FailuresNamed, SeedErr
  <2>1. CASE Done(i)
    BY <2>1 DEF FailuresNamed, SeedErr
  <2>2. CASE i = at
    <3>1. ~ (Found(i) = {} /\ SeedErr(i))
      BY <1>1, <2>2 DEF GaveNothing
    <3>2. \A j \in toExpand : Done(j) => j # at
      BY InputTypes DEF Done
    <3>3. ASSUME seeds[i].citation \in failedSeeds PROVE FALSE
      <4>1. PICK j \in toExpand : Done(j) /\ seeds[j].citation = seeds[i].citation
        BY <3>3 DEF Collected
      <4>. QED
        BY <2>2, <3>2, <4>1, InputTypes
    <3>. QED
      BY <3>1, <3>3
  <2>. QED
    BY <2>1, <2>2
<1>13. BestEvidence'
  <2>. SUFFICES ASSUME NEW t \in DOMAIN agg'
                PROVE  /\ \A i \in Finders(t)' : agg'[t].score >= Decayed(seeds[i].score)
                       /\ agg'[t].edge.target = t
                       /\ \E i \in Finders(t)' : agg'[t].score = Decayed(seeds[i].score) /\ agg'[t].edge \in Found(i)
    BY <1>1, <1>2 DEF BestEvidence, Decayed
  <2>1. t \in DOMAIN agg =>
          /\ \A i \in Finders(t) : agg[t].score >= Decayed(seeds[i].score)
          /\ agg[t].edge.target = t /\ agg[t].score \in Nat
          /\ \E i \in Finders(t) : agg[t].score = Decayed(seeds[i].score) /\ agg[t].edge \in Found(i)
    BY DEF BestEvidence, Collected, Evidence
  <2>2. \A i \in Finders(t) : Decayed(seeds[i].score) \in Nat
    BY InputTypes DEF Finders, Decayed
  <2>3. agg'[t].score \in Nat
    BY <1>9 DEF Collected, Evidence
  <2>. HIDE DEF Finders, Found, Targets, Decayed
  <2>4. CASE t \notin Targets(at)
    BY <1>6, <1>10, <2>1, <2>4
  <2>5. CASE t \in Targets(at) \ DOMAIN agg
    BY <1>5, <1>7, <1>10, <2>5
  <2>6. CASE t \in Targets(at) /\ t \in DOMAIN agg
    <3>1. /\ Finders(t)' = Finders(t) \union {at}
          /\ agg'[t].score >= Decayed(seeds[at].score) /\ agg'[t].score >= agg[t].score
      BY <1>7, <1>10, <2>6
    <3>2. \A i \in Finders(t)' : agg'[t].score >= Decayed(seeds[i].score)
      BY <2>1, <2>2, <2>3, <2>6, <3>1
    <3>3. \/ agg'[t].score = Decayed(seeds[at].score) /\ agg'[t].edge = first[t]
          \/ agg'[t].score = agg[t].score /\ agg'[t].edge = agg[t].edge
      BY <1>7, <2>6
    <3>. QED
      BY <1>5, <2>1, <2>6, <3>1, <3>2, <3>3
  <2>. QED
    BY <2>4, <2>5, <2>6
<1>14. CapKeepsBest'
  BY <1>1, <1>2 DEF CapKeepsBest
<1>. QED
  BY <1>2, <1>9, <1>11, <1>12, <1>13, <1>14

(***************************************************************************)
(* The sort and the cap, and the theorems                                  *)
(***************************************************************************)
LEMMA RankMoves ==
  ASSUME ExpansionInv, Rank
  PROVE  ExpansionInv'
<1>. USE DEF ExpansionInv
<1>1. at \notin toExpand /\ returned' = TRUE /\ UNCHANGED <<graph, seeds, intent, at, answers, agg, failedSeeds>>
  BY DEF Rank
<1>2. /\ neighbors' \subseteq DOMAIN agg
      /\ Cardinality(neighbors') = Smaller(MaxFinalNeighbors, Cardinality(DOMAIN agg))
      /\ \A t \in neighbors', u \in DOMAIN agg \ neighbors' : ~ (agg[u].score > agg[t].score)
  BY DEF Rank, kSubset, RankedBefore
<1>3. \A t \in DOMAIN agg : agg[t].score \in Nat
  BY DEF Collected, Evidence
<1>4. CallStands' /\ toExpand' = toExpand
  BY <1>1 DEF CallStands, toExpand
<1>5. \A i : Done(i)' = Done(i) /\ Found(i)' = Found(i)
  BY <1>1, <1>4 DEF Done, Found
<1>6. \A i, t : Sources(i, t)' = Sources(i, t)
  BY <1>1, <1>5 DEF Sources
<1>7. \A t : Finders(t)' = Finders(t)
  BY <1>4, <1>5 DEF Finders
<1>8. Collected'
  BY <1>1, <1>2, <1>4, <1>5 DEF Collected
<1>9. PartialAnswersKept'
  BY <1>1, <1>6, <1>7 DEF PartialAnswersKept
<1>10. FailuresNamed' /\ BestEvidence'
  BY <1>1, <1>4, <1>5, <1>7 DEF FailuresNamed, BestEvidence, Decayed
<1>11. CapKeepsBest'
  BY <1>1, <1>2, <1>3 DEF CapKeepsBest
<1>. QED
  BY <1>4, <1>8, <1>9, <1>10, <1>11

\* The invariant holds whatever the walks answer and wherever the caps fall.
THEOREM ExpansionInvariant == Spec => []ExpansionInv
<1>1. ASSUME ExpansionInv, [Next]_vars PROVE ExpansionInv'
  <2>1. CASE UNCHANGED vars
    <3>. USE <2>1 DEF vars
    <3>1. toExpand' = toExpand /\ CallStands'
      BY <1>1 DEF ExpansionInv, CallStands, toExpand
    <3>2. \A i : Done(i)' = Done(i) /\ Found(i)' = Found(i)
      BY <3>1 DEF Done, Found
    <3>3. \A i, t : Sources(i, t)' = Sources(i, t)
      BY <3>2 DEF Sources
    <3>4. \A t : Finders(t)' = Finders(t)
      BY <3>1, <3>2 DEF Finders
    <3>5. Collected' /\ CapKeepsBest'
      BY <1>1, <3>1, <3>2 DEF ExpansionInv, Collected, CapKeepsBest
    <3>6. PartialAnswersKept'
      BY <1>1, <3>3, <3>4 DEF ExpansionInv, PartialAnswersKept
    <3>7. FailuresNamed' /\ BestEvidence'
      BY <1>1, <3>1, <3>2, <3>4 DEF ExpansionInv, FailuresNamed, BestEvidence, Decayed
    <3>. QED
      BY <3>1, <3>5, <3>6, <3>7 DEF ExpansionInv
  <2>. QED
    BY <1>1, <2>1, WalkMoves, FailMoves, AggregateMoves, RankMoves DEF Next
<1>. QED
  BY <1>1, InitHolds, PTL DEF Spec

\* The state of a call is well typed, and its walks stay within their budget.
THEOREM ExpansionTypeCorrect == Spec => []TypeOK
<1>1. ASSUME ExpansionInv PROVE TypeOK
  <2>. USE <1>1 DEF ExpansionInv, Collected, CallStands
  <2>1. at \in 1..MaxSeedsToExpand + 1
    BY InputTypes DEF Smaller
  <2>2. ASSUME NEW i \in DOMAIN answers, NEW g \in DOMAIN answers[i]
        PROVE  /\ answers[i][g].err \in BOOLEAN /\ answers[i][g].found \subseteq Neighbor
               /\ Cardinality(answers[i][g].found) <= NeighborsPerSeed
    <3>1. answers[i] \in Seq(WalkAnswer)
      OBVIOUS
    <3>2. answers[i][g] \in WalkAnswer
      BY <3>1
    <3>. QED
      BY <3>2 DEF WalkAnswer
  <2>3. \A t \in DOMAIN agg : agg[t].edge \in Neighbor /\ agg[t].score \in Nat
    BY DEF Evidence
  <2>4. ASSUME NEW c \in failedSeeds PROVE c \in Citations
    <3>1. PICK i \in toExpand : seeds[i].citation = c
      OBVIOUS
    <3>. QED
      BY <3>1, InputTypes
  <2>. QED
    BY <2>1, <2>2, <2>3, <2>4 DEF TypeOK
<1>. QED
  BY <1>1, ExpansionInvariant, PTL

\* What any walk found is kept with all its sources, and exactly the seeds that
\* gave nothing because a walk failed are named.
THEOREM AnswersSafe == Spec => []AnswersAccounted
<1>1. ExpansionInv => AnswersAccounted
  BY DEF ExpansionInv, AnswersAccounted
<1>. QED
  BY <1>1, ExpansionInvariant, PTL

\* Every target keeps its best score and an edge of that score, and the cap keeps
\* the best targets, in whatever order answers and maps come.
THEOREM BestSafe == Spec => []BestIsKept
<1>1. ExpansionInv => BestIsKept
  BY DEF ExpansionInv, BestIsKept
<1>. QED
  BY <1>1, ExpansionInvariant, PTL
=============================================================================
