-------------------------- MODULE SchemaMigrations --------------------------
(***************************************************************************)
(* The schema of the catalog database: the ordered migrations that every    *)
(* process runs when it opens the file, each in a savepoint together with   *)
(* the stamp that records it, and the adoption of databases older than the  *)
(* stamps.  Openers may open the file at the same time, and any of them   *)
(* may stop between two statements that commit by themselves.              *)
(*                                                                         *)
(* Left out: types, keys and defaults of columns.                          *)
(***************************************************************************)
EXTENDS Naturals, Sequences

CONSTANTS
    Openers,        \* the processes that open the file
    Releases,       \* numbers of migrations older releases left stamped
    Lacks           \* what files older than the stamps may lack of the first migration

VARIABLES
    schema,         \* the <<table, part>> there are; "" is the table itself
    stamps,         \* the migrations recorded in schema_migrations
    opening,        \* how far each process is, and the migrations it takes as applied
    lacking         \* history: what the file lacked when it was still without stamps

schemaVars == <<schema, stamps, opening, lacking>>

-----------------------------------------------------------------------------
(* The migrations.  CREATE TABLE IF NOT EXISTS makes a table with all its   *)
(* columns or nothing; a column or an index needs its table.               *)
NewTable(name, columns) == [on |-> name, parts |-> {""} \cup columns]
PartOf(name, part) == [on |-> name, parts |-> {part}]

AsTable(parts) == "" \in parts

migrate_0001_initial ==
    <<NewTable("documents", {}),
      NewTable("document_versions", {"reviewer_note", "reviewed_at"}),
      PartOf("document_versions", "idx_sha256"),
      NewTable("raw_extractions", {}),
      NewTable("semantic_documents", {})>>

migrate_0002_add_review_columns ==
    <<PartOf("document_versions", "reviewer_note"), PartOf("document_versions", "reviewed_at")>>

migrate_0003_perf_indexes ==
    <<PartOf("document_versions", "idx_document_id"), PartOf("documents", "idx_created_at_id")>>

migrate_0004_document_scopes ==
    <<NewTable("document_scopes", {}), PartOf("document_scopes", "idx_lookup")>>

migrate_0005_document_scopes_removed_at == <<PartOf("document_scopes", "removed_at")>>

migrate_0006_documents_archived_at == <<PartOf("documents", "archived_at")>>

migrate_0007_validation_metadata == <<NewTable("validation_metadata", {})>>

migrate_0008_corpus_norms == <<NewTable("corpus_norms", {})>>

migrate_0009_sampling_state == <<NewTable("sampling_state", {})>>

migrate_0010_taxonomy ==
    <<NewTable("taxonomies", {}), NewTable("taxonomy_categories", {}),
      PartOf("taxonomies", "idx_active"), PartOf("taxonomy_categories", "idx_parent")>>

migrate_0011_document_relations ==
    <<NewTable("document_relations", {}), PartOf("document_relations", "idx_source"),
      PartOf("document_relations", "idx_target"), PartOf("document_relations", "idx_computed_at")>>

migrate_0012_claims ==
    <<NewTable("claims", {}), PartOf("claims", "idx_subject_entity_id"),
      PartOf("claims", "idx_version_id"), PartOf("claims", "idx_predicate")>>

migrate_0013_processes ==
    <<NewTable("processes", {}), NewTable("process_steps", {}),
      PartOf("processes", "idx_document_id"), PartOf("processes", "idx_version_id")>>

migrate_0014_document_topics ==
    <<NewTable("document_topics", {}), PartOf("document_topics", "idx_document_id"),
      PartOf("document_topics", "idx_version_id")>>

migrate_0015_chunk_taxonomy_allocations ==
    <<NewTable("chunk_taxonomy_allocations", {}),
      PartOf("chunk_taxonomy_allocations", "idx_document_id"),
      PartOf("chunk_taxonomy_allocations", "idx_chunk_id"),
      PartOf("chunk_taxonomy_allocations", "idx_version_id")>>

MIGRATIONS ==
    <<migrate_0001_initial, migrate_0002_add_review_columns, migrate_0003_perf_indexes,
      migrate_0004_document_scopes, migrate_0005_document_scopes_removed_at,
      migrate_0006_documents_archived_at, migrate_0007_validation_metadata,
      migrate_0008_corpus_norms, migrate_0009_sampling_state, migrate_0010_taxonomy,
      migrate_0011_document_relations, migrate_0012_claims, migrate_0013_processes,
      migrate_0014_document_topics, migrate_0015_chunk_taxonomy_allocations>>

MigrationIds == DOMAIN MIGRATIONS

ASSUME ReleasesAssumption == Releases \subseteq 0..15

MigrationStatements(i) == {MIGRATIONS[i][k] : k \in DOMAIN MIGRATIONS[i]}

(* What a migration leaves in place. *)
PartsOf(i) == UNION {{s.on} \X s.parts : s \in MigrationStatements(i)}

LegacyTables == {<<"documents", "">>, <<"document_versions", "">>}

(* Faulty variant: a migration added later is taken for done. *)
BootstrapStampedLater == {1, 2, 3}

BootstrapStamped == {1, 2}

ASSUME LacksAssumption == \A lack \in Lacks : lack \subseteq PartsOf(1) \ LegacyTables

-----------------------------------------------------------------------------
(* A table that is there is passed over. *)
IsPassedOver(s) == AsTable(s.parts) /\ <<s.on, "">> \in schema

(* A column or an index needs its table, which the same migration may have  *)
(* made.                                                                   *)
Fails(i) ==
    \E k \in DOMAIN MIGRATIONS[i] :
       LET s == MIGRATIONS[i][k] IN
       /\ ~AsTable(s.parts) /\ <<s.on, "">> \notin schema
       /\ \A j \in 1..(k - 1) : AsTable(MIGRATIONS[i][j].parts) => MIGRATIONS[i][j].on # s.on

(* What is there once a migration has run. *)
Migrated(i) ==
    schema \cup UNION {{s.on} \X s.parts : s \in {t \in MigrationStatements(i) : ~IsPassedOver(t)}}

Closed == [at |-> "closed", applied |-> {}]

SchemaTypeOK ==
    /\ schema \subseteq (UNION {PartsOf(i) : i \in MigrationIds}) \cup {<<"schema_migrations", "">>}
    /\ stamps \subseteq MigrationIds
    /\ opening \in [Openers ->
          [at : {"closed", "reading", "adopting", "stamping", "migrating", "open"},
           applied : SUBSET MigrationIds]]
    /\ lacking \in Lacks \cup {{}}

-----------------------------------------------------------------------------
(* _run_migrations: the statements outside the savepoints commit at once.  *)

TrackStamps(p) ==
    /\ opening[p].at = "closed"
    /\ schema' = schema \cup {<<"schema_migrations", "">>}
    /\ opening' = [opening EXCEPT ![p].at = "reading"]
    /\ UNCHANGED stamps

ReadApplied(p) ==
    /\ opening[p].at = "reading"
    /\ opening' = [opening EXCEPT ![p] =
          [at |-> IF stamps = {} THEN "adopting" ELSE "migrating", applied |-> stamps]]
    /\ UNCHANGED <<schema, stamps>>

LookForLegacyTables(p) ==
    /\ opening[p].at = "adopting"
    /\ opening' = [opening EXCEPT ![p].at =
          IF LegacyTables \subseteq schema THEN "stamping" ELSE "migrating"]
    /\ UNCHANGED <<schema, stamps>>

(* INSERT OR IGNORE, one migration after the other. *)
StampBootstrap(p) ==
    /\ opening[p].at = "stamping"
    /\ LET rest == BootstrapStamped \ opening[p].applied
       IN  IF rest = {}
           THEN opening' = [opening EXCEPT ![p].at = "migrating"] /\ UNCHANGED stamps
           ELSE LET i == CHOOSE i \in rest : \A j \in rest : i <= j
                IN  /\ stamps' = stamps \cup {i}
                    /\ opening' = [opening EXCEPT ![p].applied = @ \cup {i}]
    /\ UNCHANGED schema

(* The first migration this process takes as unapplied, in its savepoint.   *)
(* A statement that fails, or a stamp another process inserted meanwhile,   *)
(* rolls it back and ends the opening.                                     *)
RunMigration(p) ==
    /\ opening[p].at = "migrating"
    /\ LET rest == MigrationIds \ opening[p].applied
           i    == CHOOSE i \in rest : \A j \in rest : i <= j
       IN  /\ rest # {}
           /\ IF Fails(i) \/ i \in stamps
              THEN opening' = [opening EXCEPT ![p] = Closed] /\ UNCHANGED <<schema, stamps>>
              ELSE /\ schema' = Migrated(i)
                   /\ stamps' = stamps \cup {i}
                   /\ opening' = [opening EXCEPT ![p].applied = @ \cup {i}]

Opened(p) ==
    /\ opening[p].at = "migrating"
    /\ opening[p].applied = MigrationIds
    /\ opening' = [opening EXCEPT ![p] = [at |-> "open", applied |-> {}]]
    /\ UNCHANGED <<schema, stamps>>

(* The process stops, or a statement finds the database locked. *)
StopProcess(p) ==
    /\ opening[p].at # "closed"
    /\ opening' = [opening EXCEPT ![p] = Closed]
    /\ UNCHANGED <<schema, stamps>>

-----------------------------------------------------------------------------
(* A new file, one an older release left, or one that is or once was older  *)
(* than the stamps: the adoption asks for the two legacy tables alone, and *)
(* counts on it that the rest is there.                                    *)
SchemaInit ==
    /\ \E n \in Releases, old \in BOOLEAN :
         /\ lacking \in IF old THEN Lacks ELSE {{}}
         /\ stamps = 1..n
         /\ schema = IF old
                     THEN (PartsOf(1) \ lacking)
                             \cup UNION {PartsOf(i) : i \in 3..n}
                     ELSE UNION {PartsOf(i) : i \in 1..n}
    /\ opening = [p \in Openers |-> Closed]

SchemaNext ==
    /\ \E p \in Openers :
          \/ TrackStamps(p) \/ ReadApplied(p) \/ LookForLegacyTables(p) \/ StampBootstrap(p)
          \/ RunMigration(p) \/ Opened(p) \/ StopProcess(p)
    /\ UNCHANGED lacking

SchemaSpec == SchemaInit /\ [][SchemaNext]_schemaVars

-----------------------------------------------------------------------------
(* Properties.                                                             *)

(* However openings overlap and wherever they stop, a stamped migration     *)
(* left what it makes, but for what a file older than the stamps lacked     *)
(* when it was adopted; none is stamped before those that come earlier in   *)
(* the list, and a process that serves has run or adopted all of them       *)
(* (migrations: "a failure rolls back only that migration").                *)
SchemaFollowsStamps ==
    /\ \A i \in stamps : PartsOf(i) \ lacking \subseteq schema /\ 1..i \subseteq stamps
    /\ \A p \in Openers : opening[p].at = "open" => stamps = MigrationIds

=============================================================================
