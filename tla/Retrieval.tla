------------------------------ MODULE Retrieval ------------------------------
(***************************************************************************)
(* Stages 1 and 2 of a Compose call: rounds of semantic recall whose hits  *)
(* pile up, the keywords they and the prompt suggest, reranked against the *)
(* graph's text index, the knowledge pass, and the rank fusion of every    *)
(* list the two backends answer into the capped citations stage 3 expands. *)
(* Sources: internal/composer/stage1/{extractor,candidates,rerank}.go,     *)
(* internal/composer/stage2/{searcher,merge,intent_kinds,intent_routing,   *)
(* testpath}.go, internal/vocab/resolver.go.                               *)
(*                                                                         *)
(* A keyword is how it is spelled, "bare" or joined in Pascal or camel     *)
(* case, and the words it is made of. A citation is its Key. Scores are    *)
(* exact: Scale is divisible by every RRFK + rank.                         *)
(***************************************************************************)
EXTENDS Integers, Sequences, FiniteSets, Lists

CONSTANTS
  Citations,                     \* citation keys
  Place,                         \* [Citations -> Nat], the order of (file, start line)
  TestCitations,                 \* those isTestPath is true of
  Keywords,                      \* what the call may suggest to the graph's index
  SymbolKind,                    \* [Citations -> the graph's kind of the symbol there]
  SymbolOf,                      \* [Citations -> the keyword a hit there suggests]
  Prompt,                        \* the identifiers of the prompt (not blank), in order
  Glossary,                      \* the vocabulary's entries, each [aliases, keywords]
  Recalls, KnowledgeRecalls,     \* what a semantic search may answer
  Indexes,                       \* [strength, bm25, tests, symbols]: what the graph may answer
  Intents,
  MaxRounds, MinConfidencePct, MaxKeywords, AugmentTopN, KnowledgeK,
  DefaultMaxCitations, RRFK, Scale,
  LongestList,                   \* bound: no list is longer
  FailuresAtMost                 \* bound: how many backend calls fail

Hit == [cit : Citations, kind : STRING]
Answers == {s \in Seq(Citations) : Len(s) <= LongestList}

ASSUME RetrievalConfig ==
  /\ {MaxRounds, DefaultMaxCitations, RRFK, Scale, LongestList} \subseteq Nat \ {0}
  /\ {MinConfidencePct, MaxKeywords, AugmentTopN, KnowledgeK, FailuresAtMost} \subseteq Nat

ASSUME ExactScores == \A rank \in 1..LongestList : Scale % (RRFK + rank) = 0

ASSUME RetrievalInputs ==
  /\ IsFiniteSet(Citations) /\ Cardinality(Citations) <= LongestList
  /\ Place \in [Citations -> Nat] /\ SymbolOf \in [Citations -> Keywords]
  /\ Recalls \union KnowledgeRecalls \subseteq Seq(Hit)
  /\ \A i \in DOMAIN Glossary : Glossary[i].keywords \in Seq(Keywords)

ASSUME IndexTypes ==
  \A ix \in Indexes :
    /\ ix.strength \in [Keywords -> Nat]
    /\ {ix.bm25, ix.tests, ix.symbols} \subseteq [Keywords -> Answers]

VARIABLES
  pc, intent, index,
  round, query,        \* the query of the next recall: the keywords added to the prompt
  queries,             \* AugmentedQueries, whatever their order
  hits,                \* Stage1Output.Hits, each [cit, kind]
  answered,            \* history: the citations semantic searches answered
  suggested,           \* extractKeywords' result that rerank has not reached
  scored,              \* rerank's scored, in the order of the candidates
  keywords,            \* Stage1Output.Keywords
  remaining,           \* the keywords Search has not reached
  lists,               \* the aggregator: the ranked lists added, each [weight, cits]
  grounded,            \* the keywords with a hit
  ranked,              \* Stage2Output.Citations
  failures

stage1Vars == <<round, query, queries, hits, answered, suggested, scored, keywords>>
stage2Vars == <<remaining, lists, grounded, ranked>>
stagesVars == <<pc, intent, index, stage1Vars, stage2Vars, failures>>

\* Fault: the cap lets one more through.
FirstAndOne(s, n) == SubSeq(s, 1, IF Len(s) <= n THEN Len(s) ELSE n + 1)

FirstN(s, n) == SubSeq(s, 1, IF Len(s) < n THEN Len(s) ELSE n)
\* The positions at which a sequence says something for the first time.
FirstTimes(s) == Kept([i \in DOMAIN s |-> i], {i \in DOMAIN s : \A j \in 1..(i - 1) : s[j] # s[i]})
Distinct(s) == [i \in DOMAIN FirstTimes(s) |-> s[FirstTimes(s)[i]]]
Fails == failures < FailuresAtMost /\ failures' = failures + 1

(***************************************************************************)
(* Stage 1: what the prompt and the hits suggest                           *)
(***************************************************************************)
\* Resolve: the keywords of every entry with an alias in the prompt, each once.
MatchedKeywords ==
  Distinct(Flat([i \in DOMAIN Glossary |->
    IF Glossary[i].aliases \intersect Elements(Prompt) # {} THEN Glossary[i].keywords ELSE <<>>]))

Bare(word) == [style |-> "bare", words |-> <<word>>]
\* Both spellings of the adjacent pair and of the adjacent triple at i, in the
\* leading identifiers.
maxCompoundTokens == 10
leading == FirstN(Prompt, maxCompoundTokens)
Joined(i) ==
  LET spell(j) == <<[style |-> "Pascal", words |-> SubSeq(leading, i, j)],
                    [style |-> "camel", words |-> SubSeq(leading, i, j)]>> IN
  spell(i + 1) \o IF i + 2 <= Len(leading) THEN spell(i + 2) ELSE <<>>
compoundCandidates == Flat([i \in 1..(Len(leading) - 1) |-> Joined(i)])

\* The graph is only asked for what the prompt and the symbols may suggest.
ASSUME Suggestions ==
  /\ Prompt \in Seq({Prompt[i] : i \in DOMAIN Prompt}) /\ Glossary \in Seq({Glossary[i] : i \in DOMAIN Glossary})
  /\ \A i \in DOMAIN Prompt : Bare(Prompt[i]) \in Keywords
  /\ \A i \in 1..Len(leading) - 1 : Joined(i) \in Seq(Keywords)

extractKeywords(hs) ==
  Distinct(compoundCandidates \o [i \in DOMAIN Prompt |-> Bare(Prompt[i])]
             \o [i \in DOMAIN hs |-> SymbolOf[hs[i].cit]])

\* Fault: the hits of a round replace those before.
mergeReplaces(dst, src) == IF src = <<>> THEN dst ELSE src

\* A citation keeps the chunk it was first found as.
mergeHits(dst, src) ==
  LET new == Kept(FirstTimes([i \in DOMAIN src |-> src[i].cit]),
                  {i \in DOMAIN src : \A d \in Elements(dst) : d.cit # src[i].cit}) IN
  dst \o [i \in DOMAIN new |-> src[new[i]]]

StagesInit ==
  /\ pc = "resolve" /\ intent \in Intents /\ index \in Indexes
  /\ round = 1 /\ query = <<>> /\ queries = {} /\ hits = <<>> /\ answered = {}
  /\ suggested = <<>> /\ scored = <<>> /\ keywords = <<>>
  /\ remaining = <<>> /\ lists = <<>> /\ grounded = {} /\ ranked = <<>>
  /\ failures = 0

ResolveVocabulary ==
  /\ pc = "resolve"
  /\ pc' = "recall" /\ query' = MatchedKeywords
  /\ UNCHANGED <<intent, index, round, queries, hits, answered, suggested, scored, keywords, stage2Vars, failures>>

Recall ==
  /\ pc = "recall"
  /\ \E found \in Recalls :
       /\ hits' = mergeHits(hits, found)
       /\ answered' = answered \union {h.cit : h \in Elements(found)}
  /\ queries' = queries \union {query}
  /\ suggested' = extractKeywords(hits') /\ scored' = <<>>
  /\ pc' = "rerank"
  /\ UNCHANGED <<intent, index, round, query, keywords, stage2Vars, failures>>

\* The first round's failure ends the call; a later one ends the rounds.
RecallFails ==
  /\ pc = "recall" /\ Fails
  /\ pc' = IF round = 1 THEN "error" ELSE "knowledge"
  /\ UNCHANGED <<intent, index, stage1Vars, stage2Vars>>

RerankKeyword ==
  /\ pc = "rerank" /\ suggested # <<>>
  /\ \/ /\ scored' = IF index.strength[Head(suggested)] > 0 THEN Append(scored, Head(suggested)) ELSE scored
        /\ UNCHANGED failures
     \/ Fails /\ UNCHANGED scored
  /\ suggested' = Tail(suggested)
  /\ UNCHANGED <<pc, intent, index, round, query, queries, hits, answered, keywords, stage2Vars>>

\* Strongest first; candidates of equal strength stay in their order.
goesBefore(kws, i) ==
  {j \in DOMAIN kws : \/ index.strength[kws[j]] > index.strength[kws[i]]
                      \/ index.strength[kws[j]] = index.strength[kws[i]] /\ j < i}
ByStrength(kws) ==
  [n \in DOMAIN kws |-> kws[CHOOSE i \in DOMAIN kws : Cardinality(goesBefore(kws, i)) = n - 1]]

\* The strongest keyword's share of the whole, compared with the threshold.
Confident(kws) ==
  /\ kws # <<>>
  /\ 100 * index.strength[kws[1]] >=
       MinConfidencePct * Total([i \in DOMAIN kws |-> index.strength[kws[i]]])

augmentQuery(kws) == MatchedKeywords \o FirstN(kws, AugmentTopN)

FinishRound ==
  /\ pc = "rerank" /\ suggested = <<>>
  /\ keywords' = ByStrength(scored)
  /\ IF Confident(keywords') \/ round = MaxRounds
     THEN pc' = "knowledge" /\ UNCHANGED <<round, query>>
     ELSE pc' = "recall" /\ round' = round + 1 /\ query' = augmentQuery(keywords')
  /\ UNCHANGED <<intent, index, queries, hits, answered, suggested, scored, stage2Vars, failures>>

\* The pass enriches the hits; its failure is none of the call's.
KnowledgePass ==
  /\ pc = "knowledge"
  /\ \/ \E found \in IF KnowledgeK > 0 THEN KnowledgeRecalls ELSE {<<>>} :
          /\ hits' = mergeHits(hits, found)
          /\ answered' = answered \union {h.cit : h \in Elements(found)}
          /\ UNCHANGED failures
     \/ KnowledgeK > 0 /\ Fails /\ UNCHANGED <<hits, answered>>
  /\ keywords' = FirstN(keywords, MaxKeywords)
  /\ pc' = "fuse"
  /\ UNCHANGED <<intent, index, round, query, queries, suggested, scored, stage2Vars>>

(***************************************************************************)
(* Stage 2: the lists, and their fusion                                    *)
(***************************************************************************)
BMWeight == 2      \* twice 1.0
SymbolWeight == 3  \* twice 1.5
CkvWeight == 10    \* twice 5.0

AddList(weight, cits) ==
  lists' = IF cits = <<>> THEN lists ELSE Append(lists, [weight |-> weight, cits |-> cits])

FuseHits ==
  /\ pc = "fuse"
  /\ pc' = IF keywords = <<>> /\ hits = <<>> THEN "done" ELSE "bm25"
  /\ AddList(CkvWeight, [i \in DOMAIN hits |-> hits[i].cit])
  /\ remaining' = keywords
  /\ UNCHANGED <<intent, index, stage1Vars, grounded, ranked, failures>>

SearchText ==
  /\ pc = "bm25" /\ remaining # <<>>
  /\ \/ /\ AddList(BMWeight, index.bm25[Head(remaining)])
        /\ grounded' = IF index.bm25[Head(remaining)] = <<>> THEN grounded ELSE grounded \union {Head(remaining)}
        /\ UNCHANGED failures
     \/ Fails /\ UNCHANGED <<lists, grounded>>
  /\ pc' = "symbol"
  /\ UNCHANGED <<intent, index, stage1Vars, remaining, ranked>>

\* {} is no filter.
intentToKinds(i) ==
  CASE i \in {"bug_fix", "test_add", "concurrency_safety"} -> {"function", "method"}
    [] i = "feature_add" -> {"function", "method", "type", "interface"}
    [] i = "arch_explain" -> {"type", "interface", "const", "function", "method"}
    [] i = "security" -> {"function", "method", "interface"}
    [] i = "docs_update" -> {"type", "interface", "function", "method"}
    [] OTHER -> {}

SymbolsOf(kw) ==
  Kept(index.symbols[kw],
       {c \in Citations : intentToKinds(intent) = {} \/ SymbolKind[c] \in intentToKinds(intent)})

FindSymbol ==
  /\ pc = "symbol"
  /\ \/ /\ AddList(SymbolWeight, SymbolsOf(Head(remaining)))
        /\ grounded' = IF SymbolsOf(Head(remaining)) = <<>> THEN grounded ELSE grounded \union {Head(remaining)}
        /\ UNCHANGED failures
     \/ Fails /\ UNCHANGED <<lists, grounded>>
  /\ remaining' = Tail(remaining) /\ pc' = "bm25"
  /\ UNCHANGED <<intent, index, stage1Vars, ranked>>

\* intentPathGlob: one intent asks for the test files a second time.
FinishKeywords ==
  /\ pc = "bm25" /\ remaining = <<>>
  /\ pc' = "tests"
  /\ remaining' = IF intent = "test_add" THEN keywords ELSE <<>>
  /\ UNCHANGED <<intent, index, stage1Vars, lists, grounded, ranked, failures>>

SearchTests ==
  /\ pc = "tests" /\ remaining # <<>>
  /\ \/ AddList(BMWeight, index.tests[Head(remaining)]) /\ UNCHANGED failures
     \/ Fails /\ UNCHANGED lists
  /\ remaining' = Tail(remaining)
  /\ UNCHANGED <<pc, intent, index, stage1Vars, grounded, ranked>>

\* Symbols that share their lines share a citation, which a list may hold twice.
Contribution(list, c) ==
  Total([i \in DOMAIN list.cits |-> IF list.cits[i] = c THEN list.weight * (Scale \div (RRFK + i)) ELSE 0])
Raw(c) == Total([i \in DOMAIN lists |-> Contribution(lists[i], c)])

\* testDemotionFactor is 0.25: everything else counts four times.
demoteTests == intent # "test_add"
isTestPath(c) == c \in TestCitations
Score(c) == IF demoteTests /\ isTestPath(c) THEN Raw(c) ELSE 4 * Raw(c)

\* Fault: the citations come out in the order of their places.
PlacedAbove(score, c, d) == Place[c] < Place[d]

\* Score, then file, then start line: no order between chunks that start together.
RankedAbove(score, c, d) == score[c] > score[d] \/ (score[c] = score[d] /\ Place[c] < Place[d])

\* What a sort may make of S: next comes one that none of the others stands above.
Rankings(S, score) ==
  LET NextAfter(p) == {c \in S \ Elements(p) : \A d \in S \ Elements(p) : ~ RankedAbove(score, d, c)}
      rankings[n \in 0..Cardinality(S)] ==
        IF n = 0 THEN {<<>>}
        ELSE UNION {{Append(p, c) : c \in NextAfter(p)} : p \in rankings[n - 1]}
  IN rankings[Cardinality(S)]

Results ==
  /\ pc = "tests" /\ remaining = <<>>
  /\ \E all \in Rankings(UNION {Elements(l.cits) : l \in Elements(lists)}, [c \in Citations |-> Score(c)]) :
       ranked' = FirstN(all, DefaultMaxCitations)
  /\ pc' = "done"
  /\ UNCHANGED <<intent, index, stage1Vars, remaining, lists, grounded, failures>>

StagesNext ==
  \/ ResolveVocabulary \/ Recall \/ RecallFails \/ RerankKeyword \/ FinishRound \/ KnowledgePass
  \/ FuseHits \/ SearchText \/ FindSymbol \/ FinishKeywords \/ SearchTests \/ Results

StagesSpec == StagesInit /\ [][StagesNext]_stagesVars

(***************************************************************************)
(* Properties                                                              *)
(***************************************************************************)
Cited(list) == Elements(list.cits)

\* Types; no citation is listed twice, and the output keeps to its caps.
StagesTypeOK ==
  /\ pc \in {"resolve", "recall", "rerank", "knowledge", "fuse", "bm25", "symbol", "tests", "done", "error"}
  /\ intent \in Intents /\ index \in Indexes /\ round \in 1..MaxRounds
  /\ Cardinality(queries) <= MaxRounds
  /\ \A h \in Elements(hits) : h.cit \in Citations
  /\ \A l \in Elements(lists) : Cited(l) \subseteq Citations
  /\ Elements(ranked) \subseteq Citations /\ Cardinality(Elements(ranked)) = Len(ranked)
  /\ Len(ranked) <= DefaultMaxCitations
  /\ pc \notin {"recall", "rerank", "knowledge"} => Len(keywords) <= MaxKeywords
  /\ grounded \subseteq Elements(keywords) /\ failures \in 0..FailuresAtMost

\* Whatever round fails, the hits are what every search that answered found, once
\* each: a failed round takes nothing away and a later one doubles nothing.
HitsAccumulate ==
  /\ {h.cit : h \in Elements(hits)} = answered
  /\ Len(hits) = Cardinality(answered)

\* "Re-augment from the vocab-expanded prompt so subsequent rounds keep the
\* glossary keywords": every query Stage 1 sends carries them all.
QueriesKeepVocabulary ==
  \A q \in queries : Elements(MatchedKeywords) \subseteq Elements(q)

\* The cap falls on the weakest: no keyword of the last round that is left out is
\* stronger than one Stage 2 gets, whatever keywords failed on the way.
BestKeywordsKept ==
  pc = "fuse" => \A kw \in Elements(scored) \ Elements(keywords), kept \in Elements(keywords) :
                   index.strength[kept] >= index.strength[kw]

\* Rounds may fail, hits, vocabulary and the best keywords stay.
RoundsLoseNothing == HitsAccumulate /\ QueriesKeepVocabulary /\ BestKeywordsKept

\* c stands above d in every list d is in, and d is not counted twice in any.
RanksBetter(c, d) ==
  /\ \E l \in Elements(lists) : d \in Cited(l)
  /\ \A l \in Elements(lists) : \A i \in DOMAIN l.cits : l.cits[i] = d =>
       /\ \E j \in 1..i - 1 : l.cits[j] = c
       /\ \A k \in DOMAIN l.cits : l.cits[k] = d => k = i

\* Fusion is fair: a citation all sources rank higher comes out higher, and is
\* never cut while the other stays, unless it is a test nobody asked for.
FusionIsFair ==
  pc = "done" => \A j \in DOMAIN ranked : \A c \in Citations :
    RanksBetter(c, ranked[j]) /\ (demoteTests /\ isTestPath(c) => isTestPath(ranked[j]))
      => \E i \in 1..(j - 1) : ranked[i] = c
=============================================================================
