# KW-Pipeline: TLA+ specification, model checking and proofs

KW-Pipeline ingests documents, extracts their text asynchronously, generates a
semantic document from the extraction, puts it in front of reviewers, and
projects what they validate into a knowledge graph.  This directory holds TLA+
modules of its concurrent core and of the services around it, TLC configurations that check them on small
instances, and TLAPS proofs of what holds on every instance.  Paths below are
relative to `src/apps/api/app/` unless they start with `docs/`.

Contents: [the system](#the-system) · [modules](#modules) ·
[runs](#runs) · [bounds](#bounds) · [fairness](#fairness) · [proofs](#proofs) ·
[where properties stop holding](#where-the-properties-stop-holding) ·
[not modelled](#not-modelled) · [plan](#plan)

## The system

One FastAPI process, one event loop, a pool of threads on which synchronous
routes and extraction jobs run, a SQLite (or PostgreSQL) catalog, a bytes store, and
an optional Neo4j graph.  The catalog's methods are each one transaction under
a lock; *nothing* in the services holds a lock or a transaction across two of
them.  Everything hard about the system follows from that.

| Component | State it keeps | Operations | Meets |
|---|---|---|---|
| Version lifecycle (`models/document.py`) | none; a table of 14 statuses and their edges | `assert_transition`, `allowed_predecessors` | every status write that chooses to ask |
| Document service (`services/document_service.py`) | none | `upload_stream` with duplicate detection, `update_status`, `mark_failed`, `mark_validated/rejected/demoted/superseded` | catalog store, bytes store |
| Catalog store (`services/catalog_store.py`) | `documents`, `document_versions`, `raw_extractions`, `semantic_documents` | one method per statement group, some guarded by the current status, some not | everyone |
| Extraction queue and workers (`services/extraction_worker.py`) | an `asyncio.Queue`, worker tasks | `put` (from request threads), `get` (on the loop), `_handle_one` (on executor threads) | routes, job service |
| Extraction job (`services/extraction_job_service.py`) | none | `extract`: EXTRACTING, parse, save, EXTRACTED or FAILED | document service, catalog, parsers |
| Recovery (`services/extraction_recovery.py`, `main.py`) | the listing one scan works off | scan at boot; scan on a timer while the routes and the workers live | catalog |
| Lifecycle routes (`routes/lifecycle.py`) | none | extract, retry, generate, validate, reject, demote | all services, projection |
| Semantic output (`services/semantic_output_service.py`) | none | `generate` with cache, score, route; `record_validation` | catalog, generators, router |
| Review (`services/review_service.py`) | none | `handle_validation`, `handle_demote_to_review`, supersession, side effects | document service, semantic output, projection |
| Auto-promotion (`services/hitl_auto_promoter.py`, `services/validation_metadata_store.py`) | `validation_metadata`; the listing one pass works off | `run_pass`, `mark_auto_promoted` | review service |
| Router and counters (`services/hitl_router.py`, `services/sampling_state_store.py`) | counters per content type | `decide`, `record_decision`, drift check, reset | semantic output, promoter, review |
| Enrichment stores (`claim_store`, `process_store`, `document_topic_store`, `chunk_taxonomy_allocation_store`) | rows per version | delete and save again per version, paged reads | projection, `rebackfill.py` in a process of its own |
| Relations cache (`services/document_relations_cache.py`) | a row per pair of documents | warm after a projection, compute on a miss, prune | graph store, projection, reads |
| Topics (`services/knowledge/chunk_relations.py`, `topic_clustering.py`) | none | relate chunks, group them | projection, confidence score |
| Projection (`services/knowledge/projector.py`, `services/projection_status_tracker.py`) | an in-memory tracker | delete the version's subgraph, upsert its skeleton, extract and upsert its entities | review (in the background, or on the request's thread), graph store |
| Graph store (`services/knowledge/graph_store.py`) | nodes, edges and, in memory, who claims a node | upserts, `delete_subgraph_for_version` | projection, purge |
| Reconciliation (`services/knowledge/reconciliation.py`) | none | find validated versions missing from the graph, project one again; run by a script in a process of its own | catalog, projection |
| Administration (`routes/admin.py`) | `archived_at`, PURGED rows, audit events | archive, unarchive, purge one or many, relink scope | catalog, graph, bytes |
| Uploads (`routes/upload.py`, `services/storage_service.py`) | bytes store | one file or a batch: store bytes, find by hash, insert document or version, link a scope | document service, idempotency |
| Idempotency (`routes/_helpers.py`, `services/idempotency_store.py`) | key → response | check, execute, store | upload and lifecycle routes |
| Scope cascade (`services/scope_cascade_service.py`) | none; links and `archived_at` in the catalog | remove a scope from every document, archive those left without one | uploads, relinks, un-archivings, itself |
| Taxonomy versions (`services/taxonomy_version_store.py`, `knowledge/business_taxonomy_creator.py`) | versions, in memory | draft, suggest, review concepts, synthesise, promote, validate, archive, discard | administrators, the language model |
| Imposed taxonomy (`services/taxonomy_loader.py`, `taxonomy_store.py`) | rows; what the process loaded at boot | publish a YAML file, assemble it again | allocator |
| Reads of documents (`routes/lifecycle.py`, `services/auth/`) | none | listing, details, artifacts; who may see what | catalog, bytes, purges |
| Reads of knowledge (`routes/knowledge.py`, `services/knowledge/`) | an index of words built at boot | search, chat, neighbourhood, pages of the graph | graph store, language model |
| Language model client (`services/knowledge/llm_client.py`, `entity_extractor.py`) | permits | calls with retries, batched extraction with a budget | every thread that generates or chats |
| Audit log (`services/audit_event_store.py`) | events | store what is logged, page through it | every thread |
| Migrations (`services/migrations.py`) | schema, stamps | adopt, migrate, stamp | every process that opens the file |
| Everything else | see [not modelled](#not-modelled) | | |

**What is hard.**

* *Read, then write.*  A status is checked by one statement and written by
  another.  Some writes repeat the test in their WHERE clause
  (`update_version_status`), some do not (`update_version_failure`,
  `update_version_review`, `purge_version_artifacts`).
* *The job and the row.*  That a version is queued is recorded twice, in a durable
  row and in a volatile queue, with no transaction over both; a crash, a full
  queue or an exception separates them.
* *Recovery with everything live.*  The periodic scan fails "stuck" versions on
  status alone; it has no way to tell a slow job from a dead one.
* *A queue that is not thread-safe.*  `put_nowait` is called from request
  threads, `get` from the loop.
* *Slow steps between two statements.*  A generator (a language model, perhaps)
  or a parser runs between a read and the write that relies on it.
* *Batch passes.*  Recovery, purge and auto-promotion read a list once and work
  through it while others change what is on it.
* *Two stores, no transaction.*  Bytes and rows, catalog and graph are each
  written by statements of their own, in an order that decides what a crash
  leaves behind.
* *A copy that several hands rewrite.*  Projections of sibling versions,
  reconciliation and purges change one graph, in which versions share nodes.
* *Pages and walks.*  A listing is several requests, a neighbourhood many statements, a chat a
  search and then a look at the graph; everything may change in between.
* *Copies written back whole.*  A taxonomy version is read, changed (perhaps by a language
  model, for a minute) and stored again as it was read.
* *Restarts are routine.*  Gunicorn recycles the worker process after a
  thousand requests (`--max-requests`), whatever its queue, its jobs and its background
  projections are doing.

What is *not* hard, though it looks so: the upload routes are coroutines that
await nothing between the look at the idempotency key and their answer, so no two
uploads interleave; only the administration's routes, on threads, come in between.

**What makes it correct**, component by component: no status leaves the
transition table; no version in flight is forgotten; one thread at most extracts
a version; an extracted version has its payload; what is in review stays in
review until somebody decides; what is decided has content, and the content
records the same decision; one version at most per document stands as
validated; the queue keeps to its bound; of the versions with one content one
at most is extracted, and the others point at it; a request answered under a key makes
nothing more; what a reader sees has bytes, and what was purged has none; what is
validated is wholly in the graph, and what was purged is not in it; the reviewer's
indicator of a projection comes to an end; one taxonomy version is validated, and what was reviewed of it stays;
a table derived from a version is one derivation's; a document without a scope does not stay; who pages to the end
has seen everything once; an answer says only what was true while it was made.  The list of hazards, line by line, is in `PROJECT.json`.

## Modules

| Module | Models |
|---|---|
| `DocumentStatus` | the statuses, `AllowedTransitions`, `AllowedPredecessors`, the groups of statuses the code names |
| `VersionLifecycle` | abstract specification: a version appears as STORED or DUPLICATE_DETECTED and then moves along the table |
| `GraphCopy` | abstract specification: the graph as a copy of the validated versions, changed version by version |
| `ContentRegistry` | abstract specification: a content has one live original beside such as were retired and came back, further uploads of it are copies, an entry changes only by being retired or restored |
| `ExtractionPipeline` | queue, request threads, workers, job, recovery, crash and boot; review, archiving and purging by their effect on a status |
| `ReviewFlow` | one document's versions in review: generation, decisions, supersession, auto-promotion, crash |
| `GraphStore` | the graph and the statements of its two backends, as operators on a graph |
| `KnowledgeProjection` | projections, reconciliation and purges over either graph store, and the tracker |
| `DocumentCatalog` | uploads, duplicate detection, idempotency keys, archiving, un-archiving and purging; rows and bytes |
| `TaxonomyWorkflow` | the versions of the business taxonomy, written back whole by two administrators |
| `TaxonomyPublication` | the imposed taxonomy from its YAML text to the rows and back |
| `HitlRouting` | routing decisions, sampling counters, drift and the ramp |
| `EnrichmentStores` | the tables beside the graph, rewritten by projections and by `kw-rebackfill` |
| `ScopeCascade` | scopes, cascades and the archiving of orphans |
| `ScopedListing` | authentication, scopes and the walk through a listing |
| `RelationsCache` | relations of two documents, computed and kept |
| `DocumentReads` | the routes that read one document, beside writes and purges |
| `KeyedRequests` | extraction, retry and generation under an Idempotency-Key |
| `ModelCalls` | the language model's client, the extraction of triples, the generated assets |
| `KnowledgeSearch` | search and chat over the graph and the index of words |
| `GraphReads` | the neighbourhood of a node and the pages of the graph |
| `TopicGrouping` | chunk relations, union and find, topics |
| `AuditLog` | the log's two stores and the walk through it |
| `SchemaMigrations` | the opening of the catalog file |
| `OrderedRows` | ORDER BY, WHERE and LIMIT: the members of a set in an order, those of them a condition keeps, and the first few |
| `PagedListings` | the three listings read by cursors (`EnrichmentStores`, `ScopedListing`, `AuditLog`), and what they promise together |
| `ExtractionPipeline_proofs`, `DocumentCatalog_proofs`, `ReviewFlow_proofs`, `KnowledgeProjection_proofs` | theorems about the core |
| `ServiceStores_proofs` | theorems about `RelationsCache`, `EnrichmentStores`, `SchemaMigrations`, `HitlRouting`, `ScopeCascade` and `TaxonomyWorkflow` |
| `Services_proofs` | theorems about `DocumentReads`, `KeyedRequests` and `ModelCalls`, and about the fifteen services together |
| `PagedListings_proofs` | theorems about the paged walks |
| `KnowledgeReads_proofs` | theorems about `TaxonomyPublication`, `KnowledgeSearch`, `GraphReads` and `TopicGrouping` |
| `MCExtractionPipeline`, `MCReviewFlow`, `MCKnowledgeProjection`, `MCDocumentCatalog`, `MCServices` | families, numbers, requests and symmetry sets for TLC |

`ExtractionPipeline` and `ReviewFlow` meet in `DocumentStatus` and in one
another's statuses: `ExtractionPipeline!Review` stands for any move of the table
between the statuses behind the review gate, and `ReviewFlow` starts where the
pipeline ends, with every version EXTRACTED.  `KnowledgeProjection` takes a decision of
`ReviewFlow` as one step and looks at what it sets off; `DocumentCatalog` is what comes before
the pipeline (a version appears) and after everything (its bytes go), and calls STORED
whatever the pipeline and the review make of a version.  A purge is in three modules because it has
three effects, each of which races with something else: a status (with an extraction), a subgraph
(with a projection), bytes (with an upload, and with un-archiving).  Keeping the modules apart
keeps each small; what the split costs is discussed under [plan](#plan).

### `ExtractionPipeline`

*State.*  `status`, `latest`, `archived`, `raw` are the catalog and survive a
crash.  `queue`, `putting`, `admitted`, `job`, `scan`, `purging`, `up`, `inline` are the
process and do not (`inline` is chosen again from the settings at each boot).
`lost` is a history variable: why a version in flight has nobody working on it.

*Atomicity.*  One action per statement that commits.  Where the code reads,
asserts and then runs an UPDATE that repeats the assertion in its WHERE clause, only the UPDATE matters, and
the three are one action (`GuardedWrite`).  `put_nowait` is two actions because
it runs on a thread of its own: the test of `full()` (`FindRoom`, `Refuse`) and
the append with the wake-up of a getter (`Put`).  `Queue.get` is two because a
put may fall between its test of `empty()` and the registration of its future
(`SeeEmpty`, `Park`); since all workers share one event loop, no other worker
runs in between (`LoopFree`).

| Code | Action |
|---|---|
| `upload_stream`, last statement | `Upload` |
| `_enqueue_extract`, `_enqueue_retry` | `Enqueue`, then `FindRoom`, `Put` or `Refuse` |
| `Queue.get`, `_run` | `SeeEmpty`, `Park`, `Dequeue` |
| `_run_inline_extract`, `_run_inline_retry` | `StartInline` (no queue; workers are then the request threads) |
| `ExtractionJobService.extract` | `BeginExtract`, `ParseFails` or `SaveRaw`, `Publish` |
| `_handle_one`'s `except Exception` | `AbortJob` |
| `recover_stuck_extractions` on the timer | `ScanStart`, `ScanMarkFailed`, `ScanSkip` |
| the same at boot, and the lifespan hook | `Boot` |
| process death, shutdown | `Crash` |
| semantic generation and review decisions | `Review` |
| archive, un-archive, purge | `SetArchived`, `PurgeStart`, `Purge` |

### `ReviewFlow`

*State.*  `status`, `semantic`, `metadata` are catalog rows; `pending` is the
list an auto-promotion pass has still to visit; `task` says for each request
thread which statement comes next and what it read earlier.  `beside` is a history
variable: the pairs of versions that a supersession which was not carried out left standing next to each other.

*Supersession may fail quietly.*  `FindPrior` ends the matter when the lookup raises, or finds no document because it has been
archived (`review_service.py:423-432`); `Supersede` logs whatever `mark_superseded` raises and leaves the prior
version VALIDATED (`:450-458`).  ADR-025 says so (`docs/adr/ADR-025-document-similarity-and-supersede.md:195-197`), and only these
pairs are put in `beside`; a later decision about either version takes it out again.  A failure that is not
caught ends the request where it is, as a crash does.

| Code | Actions |
|---|---|
| `SemanticOutputService.generate` | `StartGenerate`, `SaveSemantic`, `MarkSemanticReady`, `Score`, `Route` |
| `_record_review`, `handle_demote_to_review`, `handle_validation` | `StartReview`, `WriteReview` |
| `record_validation` | `ReadSemantic`, `RecordDecision` |
| `_maybe_supersede_prior_validated` | `FindPrior`, `Supersede` |
| `HITLAutoPromoter.run_pass`, `_promote_one` | `StartPass`, `Promote`, ..., `MarkPromoted` |
| process death and restart | `Crash` |

### `GraphStore` and `KnowledgeProjection`

*State.*  A graph is a record: for each node id the version that wrote it last, the edges, and
the in-memory store's reference counts (`claims`).  Node ids are shared as the code shares them: chunk
ids are section ids, numbered within one file, and entity ids are hashes of type and text.
`backend` is the store a deployment has; `status` and `archived` are the catalog; `tracker` is the process's.
`cut` is a history variable: the versions whose projection or purge failed, was lost, or met the other.

| Code | Actions |
|---|---|
| `handle_validation` with its supersession; `handle_demote_to_review` | `Validate`, `Demote` |
| `_fire_knowledge_layer_side_effects` | `MarkStarted`, `ReadDocument`, the steps below, `Report` |
| `delete_subgraph_for_version` | `Clear` (in memory; or Neo4j's first statement), `DetachNodes`, `Collect` |
| `project`, `project_entities` | `PutNodes`, `PutEdges`, `Extract`, `PutEntities`, `Cite` |
| `reconcile_version` | `StartReconcile` and the same steps |
| `orbital_purge_document` | `StartPurge`, `Tombstone`, and the deletion for each version |
| a failing statement, a dying process | `Fail`, `Crash` |

`Copies` reads this as `GraphCopy`.  Wanted are the validated versions of documents that stand, gone the PURGED ones;
something works on a version while an operation holds it or has it still to do; damaged is `cut`.  How much of a version is there, is what
the graph has of its own node and its structure: *whole*, *part* or *absent* (`CopyOf`).  Validation is `Want`, the start of a purge
`Withdraw`, its tombstones `Retire`, a crash `Lose`; every other statement is a `Work` on the version it is
for, and has to leave what the graph has of all others alone.

### `DocumentCatalog`

*State.*  `row`, `latest`, `archived`, `keys` are the catalog's, `bytes` the bytes store's; `upload`, `purge` and `late` (versions purged while an extraction or
a review of them was under way) are the process's.  History: `answered` (what clients have an answer to), `undone` (documents un-archived in
the middle of a purge), `kept` (bytes the store refused to delete), `revived` (versions whose status was written after their
purge).

*A purge is not final.*  `update_version_failure` and `update_version_review` test no status, so an extraction or a review that was under way when its version
was purged may write FAILED or a decision over PURGED (`catalog_store.py:1239-1275`): `LateWrite`.  The row then counts
as an original again, with the tombstone for a URI.  A purge that lists such a row deletes what that URI names, which is nothing: it is
*blind* for it.

`Registered` reads the rows as the entries of
`ContentRegistry`: a step of an upload before the insertion changes no entry, `Insert` is `Adopt` or `Copy`,
`MarkPurged` is `Retire` and `LateWrite` is `Restore`.  So the abstract guard of `Adopt`, no live original but restored ones, has to hold three statements after
it was looked up.

| Code | Actions |
|---|---|
| `upload_document`, `upload_documents_batch` | `BeginUpload`, `NextFile`, `Answer`, `UploadFails` |
| `DocumentService.upload_stream` | `StoreBytes`, `FindDuplicate`, `ResolveFamily`, `Insert` |
| `orbital_purge_document`, `orbital_purge_all` | `Archive`, then the purge |
| `_purge_one_document`, also behind `purge_artifacts` and `purge_batch` | `ListVersions`, `DeleteBytes` or `KeepBytes`, `MarkPurged`, `PurgeFails` |
| `update_version_failure`, `update_version_review` over a tombstone | `LateWrite` |
| `unarchive_document` | `Unarchive` |
| process death | `Crash` |

### The services

The fifteen modules below, with `OrderedRows` and `PagedListings`, meet the core in one or two fields, and each other not at all, so each
carries its own small picture of what it reads.  `MCServices` puts them side by side: a variable `part` says
which one moves in a behaviour, the others keep one initial state.

| Module | State | Code → actions |
|---|---|---|
| `TaxonomyWorkflow` | `taxonomy` (the store), `editing` (a request's copy and its next statement) | `create_draft` → `StartDraft`; `promote_to_candidate`, `discard_draft`, `archive_version` → `StartMove`; `validate_version` → `StartValidate`, `FindPrevious`, `CheckPrevious`, `ArchivePrevious`; `add_suggestions`, `transition_concept` → `StartSuggest`, `StartConcept`; `synthesize` → `StartSynthesize`; `upsert` → `SaveVersion`; restart → `TaxonomyRestart` |
| `TaxonomyPublication` | `file`, `publications`, `served` | the operator's editor → `EditFile`; `import_yaml_into_store` → `ImportYaml`; wiring → `Boot` |
| `HitlRouting` | `policy`, `samples`, `routing`, `review` and the statements under way | `generate`'s scoring → `ScoreVersion`, `Decide`, `StoreRouting`; reviews → `Reviewed`, `RejectVersion`, `RecordDrift`; `run_pass` → `ListPending`, `PromoteListed`, `MarkListed`, `BumpPromoted` |
| `EnrichmentStores` | `rows` per table, `layout`, `projection`, `backfill`, `walk` | the projector's hooks → `StartProjection`, `ExtractAndDelete`, `SaveRows`; `rebackfill.py` → `BackfillRaw`, `BackfillSemantic`, `BackfillDelete`, `BackfillFails`; `GET /knowledge/topics` → `StartWalk`, `FetchPage` |
| `ScopeCascade` | `link`, `archived`, `unlinked`, `cascade`; history: `excused` | uploads → `UploadStored`, `UploadLinked`; `relink_scope`, `unarchive` → `RelinkScope`, `Unarchive`; `cascade_after_scope_removal` → `CascadeStart` ... `CascadeEnds` |
| `ScopedListing` | `shelf`, `walker`; history: `answered`, `steady`, `ever` | `GET /documents` → `PlainPage`, `FetchFirst`, `FetchMore`, `FilteredPage`; `GET /knowledge/catalog` → `CatalogPage`, `CatalogTail`; other requests → `DocumentMade`, `LinkChanges`, `ArchiveChanges`, `VersionsMove` |
| `RelationsCache` | `bridges` (the graph's edges), `relationRows`, `warming`, `reading`; history: `lapsed` | `warm_for_document` → `WarmList`, `WarmCompute`, `WarmWrite`, ...; `get_or_compute` → `Read`, `ReadWrites` |
| `DocumentReads` | `catalogued`, `purge`, `request`; history: `witnessed` | each route is a sequence of statements, made by `ReadStep` one at a time; writers as actions of one statement |
| `KeyedRequests` | `keyed` (the version), `kept` (the store), `sent`; history: `promised` | each route is a sequence of statements made by `ServeKeyed` |
| `ModelCalls` | `permits`, `calls`, `mining`, `assets` | `_call_with_retry` → `SendRequest`, `BackOff`, `WakeUp`; `extract` → `ExtractTriples`, `SkipBatch`, `AskBatch`, `BatchAnswered`, `BatchFails`, `ExtractionEnds` |
| `KnowledgeSearch` | `corpus`, `shared`, `question`; history: `during` | retrieval, the check of access, topics, triples and the model's answer, each a step; over either store: Neo4j keeps the chunks of what it drops (`DropSearched`), the one in memory lets them go, and everything with the process (`SearchRestart`) |
| `GraphReads` | `standing` (the graph), `reader`; history: `moments` | `NeighborhoodService` → `AskNeighborhood`, `FindRoot`, `ExpandNode`, `LookUpNode`; pages → `AskPages`, `ReadPage` |
| `TopicGrouping` | `texts`, `grouping` | `compute` → `Relate`; `_connected_components` → `UnionNext`; topics and signals → `Group` |
| `AuditLog` | `events`, `logging`, `auditWalk` | a log call → `LogEvent`; `emit` → `StoreEvent`; `query_page` → `FetchAuditPage` |
| `SchemaMigrations` | `schema`, `stamps`, `opening`; history: `lacking` | `apply_migrations` → `TrackStamps`, `ReadApplied`, `RunMigration`; bootstrap → `LookForLegacyTables`, `StampBootstrap`; a killed process → `StopProcess` |

History variables say what was the case while a request ran (`steady` and `ever`, `moments`, `during`, `witnessed`,
`promised`), what a file lacked before anybody opened it (`lacking`), or which faults a property excuses (`lapsed`, `excused`, `clashed`).  No guard reads them.

The operators commented as *faulty variants* are plausible bugs of the action
they precede.  No specification uses them; each shows that some property
would notice that bug.

## Runs

Twelve runs; `tlc -config <run>.cfg <module>` repeats any of them.

**Runs that pass**

| Run | Instance | Shows |
|---|---|---|
| `extraction_boot_only` | 3 versions in 2 families, 2 workers, 2 requests, queue of 1, both modes, catalog faults, crashes, no periodic scan, no administration | With recovery at boot only, the code keeps all it promises: one extractor per version (`SoleExtractor`), one job per version (`NoDoubleEnqueue`), review is never undone (`ReviewGateHolds`), the bounded queue (`QueueBounded`), and every write an edge of the table (`ImplementsLifecycle`, a refinement). |
| `extraction_periodic` | 2 versions of one document, 1 worker, periodic scan, archive and purge, faults, crashes | What survives when the scan and administration run against the live pipeline: nothing extracted without its payload (`ProvenanceStored`), nothing in flight unaccounted for (`InFlightAccounted`). |
| `extraction_settles` | the same without administration, with fairness | Every stuck version is eventually taken out of flight, if the scan can see it and crashes stop (`InFlightSettles`). |
| `review` | two cases, chosen in the initial state: 3 versions, requests one after the other, auto-promotion; 2 versions, two threads, two methods, crashes | Requests that follow one another keep one validated version, but for pairs which a supersession that failed left standing, and decision and content in step (`SerialReviewsAgree`), and moves on the table (`SerialFollowsTable`), although the promotion pass works off a stale listing.  At any interleaving and after any crash there is content before review (`ReviewedHasContent`). |
| `projection_concurrent` | one document with two versions that share their chunk ids and two entities, 2 threads, both backends, its purge, faults, crashes (1.4 million states, with symmetry) | The statements of projections and purges, interleaved, copy version by version what is validated (`ImplementsCopy`, a refinement); a validated version that no fault cut short is wholly in the graph (`ValidatedIsInGraph`), reference counts hold (`ClaimedNodesStand`), the indicator ends (`InProgressIsRunning`). |
| `catalog_uploads` | two cases, chosen in the initial state: 3 versions and one purge at a time; 2 versions and purges that overlap; in both 2 documents, one content, plain single uploads and a keyed batch, 2 administrators, work that outlives a purge, faults, crashes | The rows are a registry of contents: one live original per content beside restored ones, copies otherwise (`ImplementsRegistry`, a refinement); duplicates that point at originals (`DuplicatesPointAtOriginals`), numbers in order (`LatestIsNewest`), bytes for what is visible and none for what is purged (`BytesFollowRows`), keys that are honoured (`AnsweredOnce`). |
| `services` | the fifteen services, each by itself; instances below | The properties of the next table. |

| Property of `services` | About | Says |
|---|---|---|
| `OneTaxonomyValidated` | `TaxonomyWorkflow` | Between requests one version at most is VALIDATED_V1, whatever two administrators did at once to different versions. |
| `ReviewedTreeStands` | `TaxonomyWorkflow` | No write takes back what a reviewer was shown, as long as no two requests meet on a version. |
| `TaxonomyAsAuthored` | `TaxonomyPublication` | What the process classifies with is the text of a loadable file, in order. |
| `RoutingsAreCounted` | `HitlRouting` | The counters cover the routings on record at any instant, after any failure. |
| `BatchesNeverMix` | `EnrichmentStores` | Claims and allocations are those of one derivation, however projections and `kw-rebackfill` interleave. |
| `OrphansAreArchived` | `ScopeCascade` | A document without a scope is archived, about to be looked at, or excused by a named fault. |
| `PagedWalksAreComplete` | `EnrichmentStores`, `ScopedListing`, `AuditLog` | Three paged listings show what was there throughout, once and in order. |
| `CachedIsCurrent` | `RelationsCache` | A kept relation is what the graph says, or a projection has yet to come to it. |
| `AnswersAreTrue` | `DocumentReads` | 200, 404 and 410 are each true of some moment of the request, and purged is never said as missing. |
| `ModelIsUsedWell` | `ModelCalls` | Triples cite their own section, no section is lost silently, permits come back, the budget is kept within one answer. |
| `AnswersAreGrounded` | `KnowledgeSearch` | Where access is enforced, a search shows only chunks of documents the caller could see that stood in the graph (in memory, with their document), and only their triples; a chat cites only what was found, or is warned of it. |
| `ReadingsAddUp` | `GraphReads` | A neighbourhood and the pages of the graph are true of it although it changed meanwhile. |
| `TopicsAreComponents` | `TopicGrouping` | Topics are the connected sets, whatever the order of the document. |
| `KeysKeepTheirPromise` | `KeyedRequests` | What is answered under a key was promised, was made by a run, and fits the method asked for. |
| `SchemaFollowsStamps` | `SchemaMigrations` | A stamp stands for its tables, but for what an adopted file lacked, through overlapping openings and kills. |

**Runs that find a disagreement between the code and what is said of it**

| Run | Property | What happens |
|---|---|---|
| `extraction_gate_broken` | `ReviewGateHolds` | The periodic scan lists an EXTRACTING version; the job finishes and the version reaches review; the scan's unguarded write makes it FAILED. |
| `review_none_stands` | `SomeVersionStands` | Two concurrent validations each take the other's version as the prior one. |
| `projection_chunks_collide` | `ChunksAreTheVersions` | A second version's chunks are written over the first's: both files number their sections from the same zero. |
| `projection_entities_lost` | `OthersEdgesKept` | Deleting one version's subgraph collects an entity that another version's edges lead from, and those edges with it. |
| `projection_half_written` | `LeftOutIsDrifted` | A projection dies after it wrote the version's node; reconciliation looks for that node and sees nothing amiss. |

`findings` in `PROJECT.json` quotes the sentence each of them contradicts.

## Bounds

* *Versions and families.*  Three versions in two families give a family with
  an older and a newer version (what the recovery listing is about) and an
  unrelated one (to compete for the queue).  `ReviewFlow` takes three versions
  where supersession could choose among two candidates and two where threads race for one.
* *Requests and workers.*  Two of each: every race in the code is between two
  threads.  The [theorems](#proofs) hold for any number.
* *Services.*  Two of everything that races (administrators, projections, cascades, clients, threads, openers)
  and one reader beside the writers; two taxonomy versions and one concept; three scopes of one
  document, so that two cascades and an upload differ; five documents in pages of two for the listing, so that a filter can
  empty a page; a budget of two with answers that cost one or two, so that it is hit and overshot; four graph nodes with
  three edges, one of them across documents; four chunks and six texts for topics; at most one change to the
  shelf or the graph, and two runs of a generation, per behaviour; three audit events at two times in pages of one;
  all fifteen migrations, with older files that stop at each interesting point, and three kinds of files from before the stamps (`LegacyHoles`): whole,
  without the review columns, without the index and the tables of extractions and semantic documents; search over either store.  `MaxChanges`, `MaxGraphChanges`, `MaxPublications`,
  `MaxSamples`, `MaxRuns`, `MaxEvents` and `LastTime` are the bounds on what would grow for ever.
* *Queue.*  One slot, so that it is full as soon as one job waits.
* *Documents of the graph.*  Two versions of one document that share every node they can, so that
  supersession, projection and purge of one meet those of the other; the same instance with a document for each version has been checked
  too, and the theorems are for any families.
* *Contents.*  One: every two uploads collide, which is what duplicate detection is about.  With two
  contents and one administrator the properties hold too.  Three versions *and* overlapping purges have been checked
  once, without an error (1.6 million states); the run in the project splits them to stay quick.
* *Faults.*  `MaxCut` and `MaxStray` allow faults as long as fewer than one version is cut short, or fewer than
  one version's bytes are astray: one fault with a lasting effect per behaviour, any number without.
* *Counters.*  The core has none: its state spaces are finite as they are.  No state
  constraint is used anywhere.
* *Symmetry* over workers and requests, or threads, in runs that check no liveness property.
* `CHECK_DEADLOCK` is on where crashes are possible, and off in `catalog_uploads` and `services`, in which
  the system may simply have no more requests to serve.

## Fairness

Only `ExtractionPipeline` has something that must eventually happen without anybody asking for it.  The other modules
state no fairness and no liveness property: their requests end or are cut off, and a client that never
comes back is no fault.  `FairSpec` assumes weak fairness of each worker and each admitted request
thread (the event loop and the executor run what is runnable, and parsers
return), of `Boot` (a supervisor restarts the process) and of `ScanStart` (the timer
fires, or an operator calls `/admin/reconcile`, which runs the same scan); and strong fairness of `ScanMarkFailed(v)`, that is, a write that is retried
at every scan does not fail every time.  Nothing is assumed of users, operators,
catalog faults or crashes; `InFlightSettles` is conditional on the crashes coming to an end
(`<>[]up`), without which no program settles.  The conclusion is likewise conditional
on the document being one the listing can see (see below for those it cannot).

## Proofs

Each theorem below holds for every value of the constants that the named assumptions of its modules admit; every one of
these assumptions is evaluated by TLC in the runs.  Every safety property of a passing run, invariant, action property or refinement,
is a theorem; what the runs add is that the instances are not empty, that each property can be broken, and liveness.

### The core

`ExtractionPipeline_proofs` proves, for every set of versions, families and
workers, every finite nonempty set of requests, every queue size and both modes, under `PipelineAssumption`
alone:

| Theorem | Statement | Argument |
|---|---|---|
| `TypeCorrect` | `Spec => []TypeOK` | inductive as it stands, one step per action |
| `QueueIsBounded` | `Spec => []QueueBounded` | `RoomInv`: queue plus admitted threads is within size plus threads minus one |
| `ProvenanceAlwaysStored` | `Spec => []ProvenanceStored` | `ProvenanceInv`: whoever is about to publish has saved |
| `ExtractorIsSole` | `~PeriodicRecovery /\ Spec => []SoleExtractor` | `OwnershipInv` |
| `GateHolds` | `~PeriodicRecovery /\ Spec => ReviewGateHolds` | from `OwnershipInv`, action by action |
| `NoVersionEnqueuedTwice` | `~PeriodicRecovery /\ Spec => []NoDoubleEnqueue` | `JobsInv`, on top of `OwnershipInv` |
| `InFlightIsAccounted` | `Spec => []InFlightAccounted` | `Accounted(v)`, which the crash re-establishes through `lost` |
| `PipelineImplementsLifecycle` | `~PeriodicRecovery /\ ~Administration /\ Spec => ImplementsLifecycle` | each action maps to a move of the table or a stutter |

The invariant that matters is `OwnershipInv`.  `SoleExtractor` is not inductive:
nothing in it stops a second `BeginExtract` on a version that a first thread is
extracting.  What stops it is that a version with a thread in *parsing* or
*publishing* has a status from which EXTRACTING cannot be reached (its own
EXTRACTING, or PURGED), and that holds only while nobody but the owning thread writes FAILED:
the recovery scan, which does, runs at boot, when there are no threads.  `DownIsEmpty` is the
lemma for that: a process that is down holds no jobs.  With the periodic scan the same argument
breaks at `ScanMarkFailed`, which is where TLC breaks the property.

`NoDoubleEnqueue` counts the places a version has a job in: admitted threads, the queue, workers.  `JobsInv` says which
they may be: at most one thread, one slot of the queue and one worker, no two of these at once, and whoever is
in one of them has a status from which no route enqueues (QUEUED_FOR_EXTRACTION, EXTRACTING or PURGED).  The last conjunct is what a
second request runs into; it needs `OwnershipInv`, by which the only writers of such a version's status are its own job and a purge.
Three places that exclude each other and hold one job each make a sum of one (`SoleJobCounts`).

`DocumentCatalog_proofs` proves, for any sets of documents, versions, contents, keys and
administrators, any requests, any bound on the faults, and with or without crashes, under `CatalogAssumption` (the
value that stands for *no row, no key* is none of them, and a plain single upload is possible) and
`RowAssumption` (it is not a row either):

| Theorem | Statement | Argument |
|---|---|---|
| `CatalogTypeCorrect` | `Spec => []TypeOK` | `LatestIsNewest` shows that a next number exists |
| `OriginalIsOne` | `Spec => []OneOriginal` | `UploadInv`: an upload that found no original is right until it inserts, but for restored ones |
| `DuplicatesPoint` | `Spec => []DuplicatesPointAtOriginals` | `UploadInv`: the original it found is still one |
| `LatestIsAlwaysNewest` | `Spec => []LatestIsNewest` | `UploadInv`: the number it took is higher than every row's |
| `VisibleAlwaysHasBytes` | `Spec => []VisibleHasBytes` | `UploadInv`: bytes are stored before the row; `PurgeInv`: only an archived document's go; restored versions are told apart |
| `PurgedNeverHasBytes` | `Spec => []PurgedHasNoBytes` | `PurgeInv`: the version about to be marked has no bytes; `RevivalInv`: nor has a restored one, unless they were kept |
| `BytesAlwaysFollowRows` | `Spec => []BytesFollowRows` | the two together |
| `KeysAreHonoured` | `Spec => AnsweredOnce` | `KeyInv`: no upload is under way for a recorded key |
| `CatalogImplementsRegistry` | `Spec => ImplementsRegistry` | `UploadInv` gives the guards of `Adopt` and `Copy` when the row is inserted |

None of them is inductive, and they hold together or not at all: `IInv` is their conjunction with four statements
about what a thread knows and one about late work (`RevivalInv`).  `RowInv` ties a row's status to its pointer.  `UploadInv` says of each step of an upload what it has established
(bytes stored, no original or this one, a number above all others).  It survives the administrators because
they write nothing of a row but PURGED, which can only make an original found earlier a tombstone (the duplicate then
points at a tombstone, as it may), and a document's numbers count
its tombstones; it survives work that comes late because the one original this makes is a restored one, which
`UploadInv` and `OneOriginal` except by name (`Originals(hash) \subseteq revived`); and it survives other uploads because there is only one at a time.
That last fact is the handlers' (they call the synchronous service on the event loop) and the proof rests on it wholly: it is
in the shape of `upload`, one record and not one per request.  `PurgeInv` says that
a purge past its listing concerns an archived document, and that the version it is
about to mark is without bytes (for that the next version of a purge must be one only, `NextIsOne`, which is `LatestIsNewest` again: numbers are distinct).  `RevivalInv` says that only an original comes back, which is why pointers stay good, and that a restored version has
bytes only if the store had refused to delete them, so a second, blind purge of it leaves no others behind.

`KnowledgeProjection_proofs` proves, for any versions, documents, sections, entities, triples and tasks, both backends, any
purges, with or without failures and crashes, under `ProjectionAssumption` and `GraphAssumption` (ids of different kinds differ):

| Theorem | Statement | Argument |
|---|---|---|
| `ProjectionIsTyped` | `Spec => []TypeOK` | inductive as it stands |
| `ClaimedNodesAlwaysStand` | `Spec => []ClaimedNodesStand` | `WellKept`, statement by statement of the in-memory store |
| `InProgressAlwaysRuns` | `Spec => []InProgressIsRunning` | inductive as it stands |
| `ValidatedAlwaysInGraph` | `Spec => []ValidatedIsInGraph` | `CopyInv` |
| `PurgedAlwaysLeavesGraph` | `Spec => []PurgedLeavesGraph` | `PurgeInv`, `FlightInv` |
| `CopyAlwaysAsPromised` | `Spec => []Copies!CopyPromise` | `CopyInv` and `PurgeInv` for each version by itself |
| `ProjectionImplementsCopy` | `Spec => ImplementsCopy` | each statement leaves other versions' copies alone (`EveryStatement`) |

`ValidatedAlwaysInGraph` and `PurgedAlwaysLeavesGraph` speak of quiet states and say nothing of what happens on the way to one; the invariant has to.  `CopyInv` says of
a validated version whose projections were not cut short: either a projection of it has its nodes still ahead of it, or all its nodes are held and
its edges are held or about to be written.  *Held* depends on the store.  In memory a node is safe because the version
claims it, and no other version's deletion takes claimed nodes; in Neo4j because the statements of another
version name that version (`WellKept`: document and version nodes are written by themselves alone), and because what
`Collect` takes are entities, which are no part of a version's structure.  `PurgeInv` is the same idea the other way round: a purged version is
gone, or a purge has still to come to it.  `FlightInv` is where archiving
comes first: whoever is archived is not being written, unless the history `cut` says so.

The copy asks for more than quiet states: the promise holds of a version as soon as nothing works on *it*, and a statement for one
version must not change what the graph has of another.  For the promise the invariant is already enough (`PromiseKept`).
For the frame it is not.  `Undisturbed` says of a statement that another version's node and the truth of
*its structure is there* are as before, `Alone` that this is so of every other version; the lemmas `NodesWrittenAlone` ... `EntitiesCollectedAlone` show it once for each kind of
statement of either store.  They need `Together`, by which a version whose node is there has all its nodes: the chunks it shares with a sibling
do not go while the sibling's node is there, so a copy cannot fall from *whole* to *part* by another's deletion.  The one thing a statement may do to another
version is to take the last edges of an incomplete copy, whose own node is gone, which `GraphCopy!Work` allows.
`TodoInv` is the other half of `CInv`: only a purge has versions still to do, so an ending projection is the end of the work on one version.
The refinement is then one lemma per kind of action: `ValidateWants`, `ReconcileBegins`, `PurgeWithdraws`, `DemoteForgets`, `TombstoneRetires`, `CrashLoses`, and `StatementIsWork` for all others.

`ReviewFlow_proofs` proves, for any versions, numbers, threads and methods, under `ReviewAssumption` and `RowAssumption`:

| Theorem | Statement | Argument |
|---|---|---|
| `ReviewIsTyped` | `Spec => []TypeOK` | `TaskInv`: what a thread holds fits its step |
| `ReviewedAlwaysHasContent` | `Spec => []ReviewedHasContent` | `TaskInv`: a thread past its first statement relies on content that is there |
| `OneAfterTheOtherTheyAgree` | `CasesSpec => []SerialReviewsAgree` | `SerialInv` |
| `OneAfterTheOtherFollowTheTable` | `CasesSpec => SerialFollowsTable` | from `SerialInv`, statement by statement |

`ReviewedHasContent` alone is not inductive: a status is written by a thread that looked at the content, or saved it,
statements ago.  It stands because nothing deletes a semantic document, which is one lemma for all threads.

The last two are about requests that follow one another (`CasesSpec` of `MCReviewFlow` with `case = "serial"`, where `CasesAssumption` names
the one method that is used).  What they promise, one standing version or a pair in `beside`, documents that record the decision of their status, nothing left
out of review, is broken and restored by every decision: between the status and the document, and between a validation and the
supersession of the prior version.  `Phase(r)` says for each statement a request may have reached which part is broken at that
moment, and only for its own version: all other versions are `Settled`, at most one stands besides it, or two that are in `beside` (`OneStandsBut`), and what the thread has read is still what is there.
`SerialInv` is: whoever is at work is alone and in its phase, and when all are idle the phase is the idle one, which is the property.
`update_version_review` tests no status; that it writes along the table is a consequence of the phase *write*, in which the
status the request checked one statement earlier still stands.

### The services

`ServiceStores_proofs` is about tables derived from something else:

| Theorem | Statement | Argument |
|---|---|---|
| `CacheIsCurrent` | `RelationsSpec => []CachedIsCurrent` | `Fresh(p)` for each pair; inductive together with the shape of the threads' records |
| `BatchesStaySeparate` | `EnrichmentSpec => []BatchesNeverMix` | `BatchesInv`: `ClaimsWhole`, `AllocationsWhole` |
| `StampsAreTrue` | `SchemaSpec => []SchemaFollowsStamps` | `SchemaInv`: what an opener believes applied is stamped |
| `DecisionsAreCounted` | `RoutingSpec => []RoutingsAreCounted` | `CountersInv`: one inequality per kind of decision |

`CacheIsCurrent` asks of the function that aggregates the evidence for two documents only that it is a function of the edges and never the
value that stands for *none* (`AggregateAssumption`), so the proof covers whatever scores the code computes.
`BatchesNeverMix` is not inductive: it says that the rows of a table are one projection's, and a projection that saves
does not look at what others have saved.  It need not, since `save_*` inserts under ids, and any two batches share one: every batch of
claims has the id 0 (`ClaimsWhole`), and two batches of allocations to one layout have all their ids in common (`AllocationsWhole`).  So the later one meets a
row that is there and fails as a whole.  `StampsAreTrue` is for all fifteen migrations, any number of processes that open the file at once
and any point at which one of them is killed; `MigratedFacts` is the lemma that a savepoint makes each migration whole or nothing, and
the legacy file that was adopted is a case of its own, because it is stamped without having been migrated: what it lacked (`lacking`, any
part of the first migration but its two first tables, by `LacksAssumption`) stays excepted for ever, and nothing else is.
`CountersInv` counts the routings on record by cardinality (`CountedFacts`, `CountersCount`): a version routed again leaves one set and enters
another, and a counter is raised before the row it counts is written.  It needs the versions to be finitely many, and `UnscoredAssumption`.
`SchemaIsTyped` and `RoutingIsTyped` are the type theorems of their modules.

The same module proves `CascadeIsTyped` and `OrphansAreAlwaysArchived` (`CascadeSpec => []OrphansAreArchived`) for any number of
documents, scopes and overlapping cascades.  The strengthening is `UnlinksBeforeChecks`: what a cascade has still to
unlink it has still to look at.  A cascade that takes a document's last link therefore has the
document before it, whoever took the others.

It also proves `TaxonomyIsTyped`, `OneTaxonomyAlwaysValidated` and `ReviewedTreeAlwaysStands` for any number of
administrators, versions and concepts.  `TaxonomyInv` holds with `~clashed` as a premise: as long as no two requests have met,
every copy under way is a legal successor of the version it was copied from (`CopyInv`), and nothing is validated when a
validation saves its own (`ValidInv`).  The proof shows why meeting must be excluded: the store
offers nothing that would notice it.

`Services_proofs` is about answers, and about the services together:

| Theorem | Statement | Argument |
|---|---|---|
| `ReadsTellTheTruth` | `ReadsSpec => []AnswersAreTrue` | `ReadsInv`: what the statements left to a request presuppose |
| `AnswersUnderKeys` | `KeyedSpec => []KeysKeepTheirPromise` | `KeyedInv`, `PromiseInv` |
| `ModelAnswersAreSifted` | `ModelSpec => []ModelIsUsedWell` | `ModelInv`, `MiningInv` |
| `ReadsAreTyped`, `KeyedIsTyped`, `ModelIsTyped`, `RelationsAreTyped`, `EnrichmentIsTyped` | `ModelSpec => []ModelTypeOK` and so on | below |
| `ServicesAreTheirParts` | `ServicesSpec => TaxonomySpec /\ ... /\ SchemaSpec` | `PartsMove`: a step of the composition is a step or a stutter of each part |
| `ServicesAreTyped` | `ServicesSpec => []ServicesTypeOK` | the fifteen type theorems, through `ServicesAreTheirParts` |

A read is a sequence of statements of which any suffix may be left; `ReadsInv` says for each what must have been witnessed to have come
so far (for instance that a version that was seen purged stays purged, so that the statement which would answer *missing*
is behind the one that answers *gone*).  `PromiseInv` says of a key that has been promised something that what is kept
under it is that promise, for the same request, and that whoever is under way with this key has not yet looked; the promises are a history, which no guard reads.
`MiningInv` accounts for every section (answered, warned about, or still to do); `Max` over the costs of an answer exists because there are finitely many.

`ServicesAreTheirParts` is why the theorems about single services say something of what `services.cfg` checks: a behaviour of the composition is, seen from
each part, a behaviour of its own specification, so what is proved of `ListingSpec`, say, holds of `ServicesSpec`.

Type correctness is mostly the shape of records, but each of the following is a bound that somebody relies on.  *Delays*: however long a provider asks to wait, no
call sleeps longer than the cap, nor after its last attempt (`CallsAreCapped`).  That the doubled delays are numbers at all is
shown by counting the subsets of an interval, since the arithmetic of the provers knows no powers (`PowerIsNumber`).  *Tokens*: `Paid` says that what an extraction has used is at
most the dearest answer times the sections done; each answer takes at least one section off the list (`NextBatchShortens`), and a batch that fails costs nothing.
*Signals*: the shares of orphans and of the dominant topic are percentages (`SignalsArePercentages`), which for a document without chunks needs the
branch the code has for it (`confidence_scorer.py:243`); this proof is what showed that the model had left it out and divided by zero there.

`PagedListings_proofs` is about pages:

| Theorem | Statement | Argument |
|---|---|---|
| `TopicWalksAreComplete` | `EnrichmentSpec => []WalkIsComplete` | `TopicsInv`, `WalkInv` |
| `ListingsAreComplete` | `ListingSpec => []ListingIsComplete` | `ListingInv`, `FetchedInv` |
| `AuditWalksAreComplete` | `AuditSpec => []AuditWalkIsComplete` | `AuditInv`, `AuditWalkInv` |
| `PagedReadersMissNothing` | the three specifications together `=> []PagedWalksAreComplete` | the three |

`InOrder` lists a set by rank: the i-th row is the one with i - 1 rows ahead of it.  That such a row exists and is only one
follows from the cardinalities of the sets ahead (`RankFacts`, by the pigeonhole principle of the library), without induction over the
set; from it `InOrderFacts` (all members, each once, in order), `PageFacts` (the rows a page leaves out are beyond its last one) and `JoinAscends` (a
page joined to earlier ones) are proved once, for any order without ties, and used three times.  The invariants
then say what a walk still owes.  Of topics: what was there at the beginning, and still is, was seen or is still to come; what
projections write meanwhile carries a later time than all that was there, so nothing of the beginning ever slips past the cursor.  Of
documents: everything `steady` up to the cursor was answered; `FetchedInv` says the same of the matches that one request has collected and not
answered yet, up to the last row of the page it fetched last, which is where a filtered walk continues.  Of
the audit log the invariant has a premise, the one the property has (events stored in the order of their times, or new ones newer than those before): the SQLite
cursor is an id and the page is ordered by time; the cursor in memory is a time and the number of rows of that time already seen, and `Behind` ties it to the
last row seen by counting the rows level with it.

`KnowledgeReads_proofs` is about what is read of the knowledge layer while it changes:

| Theorem | Statement | Argument |
|---|---|---|
| `TaxonomyIsAsAuthored` | `PublicationSpec => []TaxonomyAsAuthored` | `PublicationInv`; `AssembledAsAuthored` for one file |
| `AnswersStayGrounded` | `SearchSpec => []AnswersAreGrounded` | `SearchInv`: `AreFound`, `VerdictsStood`, `StagesInOrder`, `ChunksGo` |
| `ReadingsAlwaysAddUp` | `GraphReadsSpec => []ReadingsAddUp` | `GraphInv`: `Explored`, `Ranked`, `PagedTo` |
| `TopicsAlwaysComponents` | `TopicGroupingSpec => []TopicsAreComponents` | `GroupingInv`: `HeldTogether` |

A taxonomy is taken apart into rows that name their parent and their place among its children, and put together again
from the rows.  `AssembledAsAuthored` is for any file that loads and needs no induction over the tree: two orders that correspond, row by row, are
listed alike (`OrderCarries`), and the place among the children grows with the position in the file.  It assumes of a file
only that it nests its categories one level at a time (`FilesAssumption`).

`SearchInv` follows a question through its statements.  What was let through was shared at some moment of the request, the chunks shown stood in the graph at
one, and in memory, where no chunk outlives its document (`ChunksGo`), their documents did; a marker that is in the answer was among the chunks of the prompt or is warned about.  Of the retrievers the proof uses that they return
chunks of the ranking they go through, each once: it holds for any similarity and any scores of words.

The graph is the hardest.  The neighbourhood is found round by round, node by node, and edges come and go in between.  `Explored` says
of a search in the middle of a round that it has gone through no node that was never near enough, and that what stood all along
is found, or touches a node of the frontier.  When the frontier is empty the nodes one step further are exactly those `next`
has collected (`NextRound`).  The search ends for one of two reasons, and each proves the answer complete in its own way (`LastRound`): after the
last round by the number of steps, and earlier because a set no edge leads out of contains all that is reached from it
(`ReachClosed`, which takes the first step of a walk that leaves it, since a set of numbers has a least one).  `Ranked` carries this over the lookups that
follow, during which the nodes themselves may go.  `PagedTo` is the invariant of the pages: everything lasting up to the cursor is
in, with the edges at it; an edge between two pages is found with the page of its first end.

`HeldTogether` says of the array of parents that two chunks have the same root exactly where the relations united so far
hold them together.  A union joins the chunks of two roots and no others, through the shortening of paths on the way
(`UnionJoins`, from `RootIs`: what does not change from a chunk to its parent is the same at its root), and the least set that no relation leaves
grows by just that (`UniteKeepsComponents`).  For this the module has what `find` passes and what relations hold together as
least sets, not step by step.  Nothing is assumed of the thresholds but that two of them are percentages, nor of the order but that each chunk is in it once.

`PublicationIsTyped`, `SearchIsTyped`, `GraphReadsAreTyped` and `GroupingIsTyped` here, and `ListingIsTyped` and `AuditIsTyped` in `PagedListings_proofs`, are the type
theorems of these modules: a search finds no more than its limit, a cursor never leaves the listing, every row a walk has seen is one of the log, which keeps to its bound.

*What the proofs assume.*  Beside what the sections above name: that hooks run after a statement that exists (`HooksAssumption`), that the
user of the fixed-user mode is one of the callers and the modes are the three of the code (`ListingAssumption`), that the sections of an
extraction are finitely many (`ModelCallsAssumption`), as are the ranks of edges of a pair, and that `MaxGraphChanges` is a number.

*Model-checked only.*  `InFlightSettles`: liveness, and fairness with it, is outside the prover's reach.  The five
runs that end in a violation are counterexamples, for which TLC is the right tool.

## Where the properties stop holding

Each of these is one constant away from a passing run, and TLC shows the
behaviour in seconds:

* `SoleExtractor` and `NoDoubleEnqueue` with
  `PeriodicRecovery = TRUE`: a job fails from outside while it waits, an operator
  retries it, and two workers extract it.
* `ReviewGateHolds` and `ImplementsLifecycle` with `PeriodicRecovery = TRUE`, or
  `ImplementsLifecycle` with `Administration = TRUE`: a parser that fails late turns a
  PURGED version into FAILED (`catalog_store.py:1239`).
* The parts of `SerialReviewsAgree`, `AtMostOneValidated`, `GeneratedIsInReview` and `DecisionInSync`, when requests
  overlap or the process dies, as in the next three.
* `AtMostOneValidated` with two threads.  A thread checks NEEDS_REVIEW and
  another decides before its write; two validations of two versions both choose a third as the
  prior one, and both stand, against ADR-025's one predicate.
* `AtMostOneValidated`, with one thread too, for pairs in `beside`: a lookup that fails or finds no document, or a
  supersession that fails, leaves both versions VALIDATED, and nothing looks at them again until the next validation, which supersedes one of
  them (`review_service.py:423-432`, `:450-458`; ADR-025 names it at `:195-197`).
* `GeneratedIsInReview` with `Crashes = TRUE`: the process dies between the save of
  the semantic document and the status (`semantic_output_service.py:163`); every later
  request with the method finds the row and returns it, and the version stays EXTRACTED.
* *A promotion nobody routed* with two methods: a regeneration during a pass routes a
  version to a human, and the pass promotes it off its earlier listing
  (`hitl_auto_promoter.py:131`).
* *Boot recovery misses versions.*  The recovery listing filters on the status of a document's *latest*
  version and hides archived documents: a stuck version with a newer sibling, or of an archived
  document, is never seen (`catalog_store.py:986`).
* *A refused submission cannot be repeated.*  With the queue full the client is told to wait and resubmit, but
  the version already says QUEUED_FOR_EXTRACTION and the resubmission is a conflict (`routes/lifecycle.py:1743`).
* *A lost wake-up.*  A put between a worker's look at an empty queue and its registration as a
  getter wakes nobody; the job waits for the next put (`services/extraction_worker.py:126`).
* `DecisionInSync` with two methods: generating again overwrites the document of a decided
  version, the decision recorded in it included (`semantic_output_service.py:155`).
* *SUPERSEDED is not terminal* with two threads: a demotion that checked its version before a sibling
  superseded it writes NEEDS_REVIEW over SUPERSEDED.
* `PurgedLeavesGraph`, which is proved (and is part of `CopyPromise`, which the refinement checks at every step), for versions in `cut`: a projection that has read the catalog before the purge writes its nodes
  after it.  In Neo4j chunks and topics of a purged version stay in any case, since the deletion
  names only documents, versions and sections (`graph_store.py:719`), and `find_chunks_by_similarity` (`:1021`) asks for no document: search goes on
  showing them to whoever may still see the document, which is why `AnswersAreGrounded` speaks of chunks there, and of documents in memory only.
* The two parts of `BytesFollowRows`: `VisibleHasBytes` for documents in `undone`: un-archived in the middle of a purge, a document shows
  versions without bytes, and for versions in `revived`, which are visible without bytes once their document is un-archived.  `PurgedHasNoBytes` for versions in `kept`: the tombstone replaces the URI, and a
  purge that is repeated skips the version (`routes/admin.py:779`), so the bytes stay, although the route
  promises that a retry converges.
* `OneOriginal` for versions in `revived`: a late failure or decision makes a tombstone an original again
  (`catalog_store.py:1239-1275`), beside the one uploaded after the purge, and `find_version_by_hash` then resolves to the older one, which has no bytes (`:947`).
* *An upload may append to an archived document*: it read the document before the archiving, and the append
  does not look again (`catalog_store.py:971`).  A purge that listed the versions before does not see the new one.
* *A duplicate that is nobody's*: an upload whose original belongs to an archived document starts a family of
  its own with a DUPLICATE_DETECTED version, which can never be extracted.
* *A retry after a crash* between the insertion and the storing of the key makes a duplicate version.
* *Two requests on one taxonomy version* overwrite each other's copy, and two validations at once leave two
  versions VALIDATED_V1: `upsert` replaces whatever is there (`taxonomy_version_store.py:238`).  Hence `clashed`.
* *Promotions are counted twice*, when the router decides and when the pass promotes
  (`hitl_auto_promoter.py:257`), although `sampling_state_store.py:111` calls one call for each decision the contract and
  `schemas/admin_hitl.py:70` shows the counters as numbers of decisions.
* *A page of the audit log may skip or repeat events*: the SQLite query orders by time and continues by id
  (`audit_event_store.py:383`), and events of racing threads are stored in another order than they happened.
* *Keyed requests in asynchronous mode*: extraction and retry check the key and never store an answer under it, so a replay
  is a new request (a conflict, usually), against `docs/wiki/Architecture.md:109`.
* *Relations of documents*: a row is overwritten by an older computation, and stays when its edges are
  gone (`document_relations_cache.py:108`).
* *A cascade that dies* leaves documents without a scope that nothing looks at again.
* *Migrations*: `migrations.py:20` says that the adoption of an older file stamps all current ids, and the code stamps the first
  two; the case for which 0002 looks at the columns (`migrations.py:105`) is therefore never reached.  Their effects are said to be
  *guaranteed* in any adopted file (`migrations.py:782`), but the adoption asks only for two tables (`:780`): a file without the others, or without
  the review columns, is stamped all the same and never gets them.  Hence `lacking`.
* Not a property of any run: validating an older version supersedes a newer one
  (`review_service.py:433`), and a slow second generation re-opens a version validated in the
  meantime, because VALIDATED has an edge to NEEDS_REVIEW (`semantic_output_service.py:163`).

## Not modelled

Outside TLC by nature: the terms of scores, corpus norms, allocation and similarity (floating-point
arithmetic over text; here a score is a class or a rank), parsers and generators (text to text; here they
succeed, fail, take time and number what they make), atlas, insights and the evaluation of retrieval (digests for display, which nothing
reads back), backups (driven from outside), the cryptography of tokens, hashing, schemas and settings (the settings
that matter are CONSTANTS), demo data, the web front ends (no authoritative state).

Abstracted inside the models: timestamps, actors, notes, audit rows, error
texts; the length of a request; the catalog's transactions (each is one step because
a lock makes it so).  In `ExtractionPipeline` a purge keeps `raw`, which no later
status needs.  `DocumentCatalog` leaves out names, types and sizes, and leaves scopes to `ScopeCascade`;
`KnowledgeProjection` leaves what the projector rewrites beside the graph to `EnrichmentStores` and
`RelationsCache`.  `TaxonomyWorkflow` leaves out who acted, and the text of what is suggested.  `Crash` also stands for a graceful stop, which lets running jobs end and drops the queue.

`PROJECT.json` lists every component with its status.

## Plan

1. *Done*: lifecycle table; extraction pipeline with recovery; review flow; graph store and
   projection; document catalog with uploads and purges; the registry of contents; the proofs of all these.
2. *Done*: the services: routing counters, taxonomy versions, scopes, enrichment tables, relations, reads, keyed requests, the
   model's client, search and chat, topics, audit log, migrations; proofs about all of these.
3. A property for what `record_validation` writes back over a regeneration
   (`semantic_output_service.py:391`): it needs a history of what was generated, which `ReviewFlow` does not keep.
4. *Done*: the graph as a copy, and the types of the services and their composition.
5. The atlas, if it ever keeps what it computes.

The pipeline and the review meet at two statuses only, so a composition adds the product
of their interleavings and one real interaction: a scan or a late failure that throws a version
back while a reviewer works on it.  `extraction_gate_broken` shows that on the pipeline's side, and
`ReviewedAlwaysHasContent` does not mind it, since nothing in either module deletes content.
