-------------------------- MODULE MCDocumentCatalog --------------------------
(***************************************************************************)
(* Instances of DocumentCatalog for TLC.  The ids are interchangeable.     *)
(* One run looks at two cases, chosen in the initial state: three versions *)
(* and one purge at a time; two versions, purges that overlap, and work    *)
(* that writes its status after a purge.                                   *)
(***************************************************************************)
EXTENDS DocumentCatalog, TLC

CONSTANTS d1, d2, v1, v2, v3, h1, h2, k1, a1, a2, Cases

VARIABLE case

(* Single uploads without a key, batches with one. *)
PlainSinglesKeyedBatches == {<<None, "single">>, <<k1, "batch">>}

IdSymmetry == Permutations(Documents) \cup Permutations(Versions)
                 \cup Permutations(Hashes) \cup Permutations(Admins)

Purging == {a \in Admins : purge[a] # NoPurge}

CasesInit == Init /\ case \in Cases

CasesNext ==
    /\ Next
    /\ case = "versions" => Cardinality(Purging') <= 1 /\ late' = {}
    /\ case = "purges" => Cardinality((bytes \cup Recorded)') <= 2
    /\ UNCHANGED case

CasesSpec == CasesInit /\ [][CasesNext]_<<vars, case>>

=============================================================================
