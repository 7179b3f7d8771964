---------------------------- MODULE MCKnowledge ----------------------------
(* An instance of Knowledge: two entries with two anchors each and one with none, in two files of
   which one defines the same name twice and the other defines it once more. *)
EXTENDS Knowledge, Sequences

MCRank == [e \in {"A", "B", "C"} |-> CASE e = "A" -> 1 [] e = "B" -> 2 [] OTHER -> 3]
MCFirstStatus == [e \in {"A", "B", "C"} |-> IF e = "A" THEN "needs_verification" ELSE "draft"]
MCOwnerOf == <<"A", "A", "B", "B">>
MCKindOf == <<"def", "def", "def", "loc">>
MCNameAt == <<"Finalize", "Finalize", "quorum", "">>
MCMeantBy == <<1, 2, 3, 2>>
MCNameOf == <<"Finalize", "Finalize", "quorum", "Finalize">>
MCFileOf == <<"engine", "engine", "core", "core">>
MCFirstLine == <<2, 4, 2, 6>>
MCRelatedTo == [e \in {"A", "B", "C"} |-> IF e = "A" THEN {"B"} ELSE {}]
=============================================================================
