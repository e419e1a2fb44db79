----------------------------- MODULE MCServices -----------------------------
(* The services around the pipeline, on small instances.  They share no    *)
(* state with each other; "part" says which of them moves in a behaviour.  *)
(* The others keep one fixed initial state.                                *)
EXTENDS TaxonomyWorkflow, TaxonomyPublication, HitlRouting, PagedListings,
        ScopeCascade, RelationsCache, DocumentReads, ModelCalls,
        KnowledgeSearch, GraphReads, TopicGrouping, KeyedRequests, SchemaMigrations, TLC

CONSTANTS d1, d2, k1, k2, s1, s2, s3, u1, u2, c1, c2, c3, Parts

VARIABLE part

SampleFiles ==
    LET at(i, d) == [id |-> i, depth |-> d]
    IN  {<<>>, <<at(c2, 1), at(c1, 2), at(c3, 1)>>, <<at(c1, 1), at(c3, 2), at(c2, 2)>>,
         <<at(c1, 1), at(c1, 2)>>, <<at(c1, 1), at(c2, 2), at(c3, 3)>>}
TypeOfScored == [v \in {d1, d2} |-> "pdf"]
HookSets ==
    {<<"processes", "claims">>, <<"claims", "document_topics">>, <<"chunk_taxonomy_allocations">>}
Owners == <<u1, u1, u2, u1, u1>>
Asking == {{}, {"NEEDS_REVIEW"}}
Histories == {<<"SUPERSEDED", "NEEDS_REVIEW">>, <<"VALIDATED", "SUPERSEDED">>}
Modes == {"bearer", "disabled"}
CitedSections == <<{1, 2}, {2, 3}, {}>>
OwnersOfChunks == <<1, 1, 2>>
TopicsOfChunks == <<1, 0, 1>>
Findings == {<<1, 2, 3>>, <<3, 1, 2>>}
WordFindings == {<<2>>, <<3, 1>>}
OwnersOfNodes == <<1, 2, 0, 1>>
EndsOfEdges == <<<<1, 4>>, <<1, 2>>, <<2, 3>>>>
WritersOfEdges == <<1, 1, 2>>
ScoresOfEdges == <<101, 40, 101>>
KeywordsOfEdges == <<0, 1, 0>>
SampleTexts ==
    LET text(a, b, c, standards) == [words |-> <<a, b, c>>, standards |-> standards]
    IN  {text(0, 0, 0, {}), text(1, 0, 1, {}), text(0, 1, 2, {}), text(1, 1, 0, {9}),
         text(0, 0, 1, {9}), text(2, 1, 1, {})}
OrderOfChunks == <<3, 1, 4, 2>>
LegacyHoles ==
    LET tables == {"raw_extractions", "semantic_documents"}
    IN  {{}, {"document_versions"} \X {"reviewer_note", "reviewed_at"},
         {<<"document_versions", "idx_sha256">>} \cup (tables \X {""})}
Symmetry == Permutations({d1, d2})

(* What does not move has one initial state. *)
Unless(moving, only) == part # moving => only

ServicesInit ==
    /\ part \in Parts
    /\ TaxonomyInit /\ CascadeInit /\ RelationsInit
    /\ KeyedInit /\ Unless("keyed", keyed.status = "STORED")
    /\ PublicationInit /\ Unless("publication", file = Missing)
    /\ RoutingInit /\ Unless("routing", policy = "scored")
    /\ EnrichmentInit /\ Unless("enrichment", layout.raw = "pages" /\ wired[1] = "processes")
    /\ ListingInit
    /\ Unless("listing", \A d \in Shelved : ~shelf[d].made /\ shelf[d].versions[1] = "VALIDATED")
    /\ ReadsInit /\ Unless("reads", access = "enforced")
    /\ ModelInit /\ Unless("model", provider = [client |-> AnthropicClient, batch |-> 1])
    /\ SearchInit /\ Unless("search", retrieval = [hybrid |-> FALSE, enforced |-> FALSE, store |-> "memory"])
    /\ GraphReadsInit /\ Unless("graph", backend = [store |-> "memory", sees |-> {}])
    /\ AuditInit /\ Unless("audit", auditStore = "memory")
    /\ SchemaInit /\ Unless("schema", schema = {})
    /\ TopicGroupingInit /\ Unless("topics", \A c \in Grouped : TokensOf(texts[c]) = {})

(* What stays as it is when this part moves. *)
Rest(moving) ==
    /\ UNCHANGED part
    /\ moving # "taxonomy" => UNCHANGED taxonomyVars
    /\ moving # "publication" => UNCHANGED publicationVars
    /\ moving # "routing" => UNCHANGED routingVars
    /\ moving # "enrichment" => UNCHANGED enrichmentVars
    /\ moving # "cascade" => UNCHANGED cascadeVars
    /\ moving # "listing" => UNCHANGED listingVars
    /\ moving # "relations" => UNCHANGED relationVars
    /\ moving # "reads" => UNCHANGED readVars
    /\ moving # "model" => UNCHANGED modelVars
    /\ moving # "search" => UNCHANGED searchVars
    /\ moving # "graph" => UNCHANGED graphReadVars
    /\ moving # "topics" => UNCHANGED groupingVars
    /\ moving # "keyed" => UNCHANGED keyedVars
    /\ moving # "audit" => UNCHANGED auditVars
    /\ moving # "schema" => UNCHANGED schemaVars

TaxonomyMoves    == part = "taxonomy" /\ Rest("taxonomy") /\ TaxonomyNext
PublicationMoves == part = "publication" /\ Rest("publication") /\ PublicationNext
RoutingMoves     == part = "routing" /\ Rest("routing") /\ RoutingNext
EnrichmentMoves  == part = "enrichment" /\ Rest("enrichment") /\ EnrichmentNext
CascadeMoves     == part = "cascade" /\ Rest("cascade") /\ CascadeNext
ListingMoves     == part = "listing" /\ Rest("listing") /\ ListingNext
RelationMoves    == part = "relations" /\ Rest("relations") /\ RelationsNext
ReadsMoves       == part = "reads" /\ Rest("reads") /\ ReadsNext
ModelMoves       == part = "model" /\ Rest("model") /\ ModelNext
SearchMoves      == part = "search" /\ Rest("search") /\ SearchNext
GraphMoves       == part = "graph" /\ Rest("graph") /\ GraphReadsNext
TopicMoves       == part = "topics" /\ Rest("topics") /\ TopicGroupingNext
KeyedMoves       == part = "keyed" /\ Rest("keyed") /\ KeyedNext
AuditMoves       == part = "audit" /\ Rest("audit") /\ AuditNext
SchemaMoves      == part = "schema" /\ Rest("schema") /\ SchemaNext

ServicesNext ==
    \/ TaxonomyMoves \/ PublicationMoves \/ RoutingMoves \/ EnrichmentMoves
    \/ CascadeMoves \/ ListingMoves \/ RelationMoves \/ ReadsMoves
    \/ ModelMoves \/ SearchMoves \/ GraphMoves \/ TopicMoves \/ KeyedMoves
    \/ AuditMoves \/ SchemaMoves

servicesVars ==
    <<part, taxonomyVars, publicationVars, routingVars, enrichmentVars, cascadeVars, listingVars,
      relationVars, readVars, modelVars, searchVars, graphReadVars, groupingVars, keyedVars,
      auditVars, schemaVars>>

ServicesSpec == ServicesInit /\ [][ServicesNext]_servicesVars

(* Type correctness of the part that moves. *)
ServicesTypeOK ==
    /\ part = "taxonomy" => TaxonomyTypeOK
    /\ part = "publication" => PublicationTypeOK
    /\ part = "routing" => RoutingTypeOK
    /\ part = "enrichment" => EnrichmentTypeOK
    /\ part = "cascade" => CascadeTypeOK
    /\ part = "listing" => ListingTypeOK
    /\ part = "relations" => RelationsTypeOK
    /\ part = "reads" => ReadsTypeOK
    /\ part = "model" => ModelTypeOK
    /\ part = "search" => SearchTypeOK
    /\ part = "graph" => GraphReadsTypeOK
    /\ part = "topics" => TopicGroupingTypeOK
    /\ part = "keyed" => KeyedTypeOK
    /\ part = "audit" => AuditTypeOK
    /\ part = "schema" => SchemaTypeOK

=============================================================================
