------------------------- MODULE MCKnowledgeProjection -------------------------
(***************************************************************************)
(* Two versions whose files were parsed into a section of the same id, and *)
(* that may cite the same entities.                                        *)
(***************************************************************************)
EXTENDS KnowledgeProjection, TLC

CONSTANTS d1, d2, v1, v2, s1, e1, e2, t1, t2

TwoDocuments == v1 :> d1 @@ v2 :> d2
OneDocument  == v1 :> d1 @@ v2 :> d1

OneSection   == v1 :> {s1} @@ v2 :> {s1}

OneTriple    == {<<e1, e2>>}

(* Versions of one document with the same sections are alike. *)
AlikeSymmetry == Permutations(Tasks) \cup Permutations(Versions)

=============================================================================
