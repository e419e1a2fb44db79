------------------------ MODULE MCExtractionPipeline ------------------------
(***************************************************************************)
(* Instances of ExtractionPipeline for TLC.                                *)
(***************************************************************************)
EXTENDS ExtractionPipeline, TLC

CONSTANTS v1, v2, v3, f1, f2, w1, w2, r1, r2

(* One document with two versions, and one with a single version. *)
OneFamily   == (v1 :> f1) @@ (v2 :> f1)
TwoFamilies == (v1 :> f1) @@ (v2 :> f1) @@ (v3 :> f2)
Single      == v1 :> f1
Apart       == (v1 :> f1) @@ (v2 :> f2)

ThreadSymmetry == Permutations({w1, w2}) \cup Permutations({r1, r2})

=============================================================================
