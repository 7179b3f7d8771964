----------------------------- MODULE MCRetrieval -----------------------------
(* Instances of Retrieval: a prompt of two identifiers, five citations of which
   one is a test, found twice for one keyword, and one a domain rule, and two of which
   start at the same line. *)
EXTENDS Retrieval

Pascal(ws) == [style |-> "Pascal", words |-> ws]
camel(ws) == [style |-> "camel", words |-> ws]
Quorum == 1
Size == 2
Rare == 3

MCPrompt == <<Quorum, Size>>
MCSymbolOf == <<Pascal(<<Quorum, Size>>), Bare(Rare), Bare(Quorum), Bare(Quorum), Bare(Rare)>>
MCPlace == <<2, 1, 1, 3, 4>>
MCSymbolKind == <<"function", "type", "method", "function", "var">>
MCGlossary == <<[aliases |-> {Quorum}, keywords |-> <<Pascal(<<Quorum, Size>>), Bare(Rare)>>],
                [aliases |-> {Rare}, keywords |-> <<Bare(Size)>>]>>

Found(c) == [cit |-> c, kind |-> IF c = 5 THEN "invariant" ELSE "symbol"]
MCRecalls == {<<>>, <<Found(1), Found(2)>>, <<Found(4), Found(1)>>, <<Found(3), Found(5)>>}
MCKnowledgeRecalls == {<<>>, <<Found(5)>>, <<[cit |-> 2, kind |-> "invariant"]>>}

MCKeywords == {Pascal(<<Quorum, Size>>), camel(<<Quorum, Size>>), Bare(Quorum), Bare(Size), Bare(Rare)}
On(kws, s) == [k \in MCKeywords |-> IF k \in kws THEN s ELSE <<>>]
MCIndexes ==
  {[strength |-> [k \in MCKeywords |-> IF k.style = "camel" THEN 0 ELSE 1],
    bm25 |-> On(MCKeywords \ {camel(<<Quorum, Size>>)}, <<1, 4, 3>>),
    tests |-> On({Bare(Quorum)}, <<4>>), symbols |-> On({Pascal(<<Quorum, Size>>)}, <<1, 2>>)],
   [strength |-> [k \in MCKeywords |-> IF k = Bare(Rare) THEN 3 ELSE IF k.style = "bare" THEN k.words[1] ELSE 0],
    bm25 |-> [On({Bare(Rare)}, <<2>>) EXCEPT ![Bare(Quorum)] = <<3, 4, 4>>],
    tests |-> On({Bare(Quorum)}, <<4>>), symbols |-> On({Bare(Rare)}, <<3, 5>>)],
   [strength |-> [k \in MCKeywords |-> 0], bm25 |-> On({}, <<>>), tests |-> On({}, <<>>), symbols |-> On({}, <<>>)]}
=============================================================================
