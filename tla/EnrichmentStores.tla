-------------------------- MODULE EnrichmentStores --------------------------
(***************************************************************************)
(* What a projection derives from one version beside the graph: its         *)
(* process, claims, document topics and taxonomy allocations.  Each is a    *)
(* table whose rows for the version are deleted, and saved again as one    *)
(* batch, in two transactions.  Projections run in background threads, and *)
(* kw-rebackfill in a process of its own, on the same SQLite file.         *)
(*                                                                         *)
(* Left out: what the rows say; the relations cache and the embeddings,    *)
(* which follow the graph.  Row ids are the numbers, or the sections, that *)
(* the code appends to the version's id.                                   *)
(***************************************************************************)
EXTENDS Integers, Sequences, FiniteSets, SequencesExt, OrderedRows

CONSTANTS
    Projections,   \* background runs of the projector for this version
    Hooks,         \* which of its hooks a projector has: sequences of tables
    MaxItems,      \* bound on the claims, and on the topics, of one extraction
    PageLimit      \* rows per page of GET /knowledge/topics

ASSUME EnrichmentAssumption == {MaxItems, PageLimit} \subseteq Nat \ {0}

VARIABLES
    wired,      \* the hooks of this deployment's projector
    rows,       \* table -> its rows for the version
    clock,      \* the time the next batch of topics is stamped with
    layout,     \* the section ids in use: of the raw and of the semantic document
    projection, \* what each projection is doing
    backfill,   \* the next statement of a running kw-rebackfill
    walk        \* a client paging through the topics

enrichmentVars == <<wired, rows, clock, layout, projection, backfill, walk>>

-----------------------------------------------------------------------------
Layouts == {"pages", "lines"}       \* parser_version 0.1 and 0.2

(* The tables in the order project() visits them.  The hook of the first    *)
(* needs no language model; the others are None without one, and the last  *)
(* is off unless it is asked for.  No hook looks at another's table.        *)
Tables == <<"processes", "claims", "document_topics", "chunk_taxonomy_allocations">>

ASSUME HooksAssumption ==
    \A h \in Hooks : \E on \in (SUBSET ToSet(Tables)) \ {{}} : h = Where(Tables, on)

(* One section per page, or several per page; the two share no id. *)
SectionsOf(l) == IF l = "pages" THEN {100} ELSE {201, 202}

(* The ids an extraction may answer with.  At most one process, named after *)
(* its version.                                                            *)
ProcessBatches == {{}, {0}}

(* Claims are numbered, over all sections, as they are kept. *)
ClaimBatches == {0..(n - 1) : n \in 0..MaxItems}

(* Topics are numbered as they are answered; a dropped one leaves a gap. *)
TopicBatches == SUBSET (0..(MaxItems - 1))

(* Every section has its allocation, be it an empty one; with an empty      *)
(* taxonomy none has.                                                      *)
AllocationBatches(l) == {{}, SectionsOf(l)}

BatchesFrom(table, l) ==
    CASE table = "processes"       -> ProcessBatches
      [] table = "claims"          -> ClaimBatches
      [] table = "document_topics" -> TopicBatches
      [] OTHER                     -> AllocationBatches(l)

Ids == 0..(MaxItems - 1) \cup UNION {SectionsOf(l) : l \in Layouts}

Waiting == [stage |-> 0, step |-> "waiting", layout |-> "pages", batch |-> {}]
Done    == [stage |-> 0, step |-> "done", layout |-> "pages", batch |-> {}]

NoWalk == [on |-> FALSE, at |-> -1, id |-> -1, seen |-> <<>>, start |-> {}]

EnrichmentTypeOK ==
    /\ wired \in Hooks
    /\ \A i \in DOMAIN Tables : \A r \in rows[Tables[i]] :
          r.id \in Ids /\ r.at \in Nat /\ r.by \in Projections
    /\ clock \in Nat
    /\ layout \in [raw : Layouts, semantic : Layouts]
    /\ projection \in [Projections ->
          {Waiting, Done} \cup [stage : DOMAIN wired, step : {"extract", "save"},
                                layout : Layouts, batch : SUBSET Ids]]
    /\ backfill \in {"idle", "raw", "semantic", "claims"}
    /\ walk.on \in BOOLEAN

-----------------------------------------------------------------------------
(* The projector.                                                          *)

(* The semantic document is read before project() is called. *)
StartProjection(p) ==
    /\ projection[p] = Waiting
    /\ projection' = [projection EXCEPT ![p] =
          [stage |-> 1, step |-> "extract", layout |-> layout.semantic, batch |-> {}]]
    /\ UNCHANGED <<wired, rows, clock, layout, backfill, walk>>

(* On to the next table: at the end of a stage, and when one of its         *)
(* statements fails, which is logged.                                      *)
NextStage(p) ==
    projection' = [projection EXCEPT ![p] =
       IF projection[p].stage = Len(wired) THEN Done
       ELSE [projection[p] EXCEPT !.stage = @ + 1, !.step = "extract", !.batch = {}]]

Table(p) == wired[projection[p].stage]

(* The extractor reads only the semantic document it was given, so it and   *)
(* delete_for_version are one step: a batch, with less or nothing in it    *)
(* when calls of the model failed, and the version's rows gone.  An empty  *)
(* batch ends the stage, and so does either of the two when it raises.     *)
ExtractAndDelete(p) ==
    /\ projection[p].step = "extract"
    /\ \/ \E b \in BatchesFrom(Table(p), projection[p].layout) :
             /\ rows' = [rows EXCEPT ![Table(p)] = {}]
             /\ IF b = {} THEN NextStage(p)
                ELSE projection' = [projection EXCEPT ![p].step = "save", ![p].batch = b]
       \/ /\ NextStage(p)
          /\ UNCHANGED rows
    /\ UNCHANGED <<wired, clock, layout, backfill, walk>>

RowsOf(p) == {[id |-> i, by |-> p, at |-> IF Table(p) = "document_topics" THEN clock ELSE 0] :
                 i \in projection[p].batch}

(* Faulty variant: INSERT OR IGNORE keeps the rows that do not clash. *)
SaveRowsIgnoring(p) ==
    LET held == {r.id : r \in rows[Table(p)]} IN
    /\ projection[p].step = "save"
    /\ rows' = [rows EXCEPT ![Table(p)] = @ \cup {r \in RowsOf(p) : r.id \notin held}]
    /\ clock' = IF Table(p) = "document_topics" THEN clock + 1 ELSE clock
    /\ NextStage(p)
    /\ UNCHANGED <<wired, layout, backfill, walk>>

(* save_*: one transaction of plain INSERTs, rolled back as a whole when an *)
(* id is taken.  save_process first deletes the row with its own id.       *)
SaveRows(p) ==
    LET clash == {r \in rows[Table(p)] : r.id \in projection[p].batch} IN
    /\ projection[p].step = "save"
    /\ \/ /\ clash = {} \/ Table(p) = "processes"
          /\ rows' = [rows EXCEPT ![Table(p)] = (@ \ clash) \cup RowsOf(p)]
          /\ clock' = IF Table(p) = "document_topics" THEN clock + 1 ELSE clock
       \/ UNCHANGED <<wired, rows, clock>>
    /\ NextStage(p)
    /\ UNCHANGED <<wired, layout, backfill, walk>>

-----------------------------------------------------------------------------
(* kw-rebackfill.                                                          *)

(* Eligible by the parser version of the stored raw extraction, which is    *)
(* then replaced.                                                          *)
BackfillRaw ==
    /\ backfill = "idle"
    /\ layout.raw = "pages"
    /\ layout' = [layout EXCEPT !.raw = "lines"]
    /\ backfill' = "raw"
    /\ UNCHANGED <<wired, rows, clock, projection, walk>>

BackfillSemantic ==
    /\ backfill = "raw"
    /\ layout' = [layout EXCEPT !.semantic = "lines"]
    /\ backfill' = "semantic"
    /\ UNCHANGED <<wired, rows, clock, projection, walk>>

BackfillDelete ==
    /\ \/ backfill = "semantic" /\ backfill' = "claims" /\ rows' = [rows EXCEPT !["claims"] = {}]
       \/ backfill = "claims" /\ backfill' = "idle" /\ rows' = [rows EXCEPT !["document_topics"] = {}]
    /\ UNCHANGED <<wired, clock, layout, projection, walk>>

(* A statement fails and the version is reported as skipped. *)
BackfillFails ==
    /\ backfill # "idle"
    /\ backfill' = "idle"
    /\ UNCHANGED <<wired, rows, clock, layout, projection, walk>>

-----------------------------------------------------------------------------
(* Pages of topics, in the order of (extracted_at, id).                    *)

Before(r, s) == r.at < s.at \/ (r.at = s.at /\ r.id < s.id)

StartWalk ==
    /\ walk = NoWalk
    /\ walk' = [NoWalk EXCEPT !.on = TRUE, !.start = rows["document_topics"]]
    /\ UNCHANGED <<wired, rows, clock, layout, projection, backfill>>

(* Faulty variant: the cursor's time alone is compared. *)
RemainingByTime == {r \in rows["document_topics"] : r.at > walk.at}

(* Behind the cursor of the last page. *)
Remaining == {r \in rows["document_topics"] : Before(walk, r)}

TopicOrder == {p \in Remaining \X Remaining : Before(p[1], p[2])}

(* One page: the first rows behind the cursor, the cursor of the next one   *)
(* when there are more, and the end of the walk otherwise.                 *)
FetchPage ==
    LET ordered == InOrder(Remaining, TopicOrder)
        page    == FirstFew(ordered, PageLimit)
        last    == page[Len(page)]
    IN  /\ walk.on
        /\ walk' = IF Len(ordered) > PageLimit
                      THEN [walk EXCEPT !.seen = @ \o page, !.at = last.at, !.id = last.id]
                      ELSE [walk EXCEPT !.seen = @ \o page, !.on = FALSE]
        /\ UNCHANGED <<wired, rows, clock, layout, projection, backfill>>

(* The process restarts: background projections and walks are gone. *)
EnrichmentRestart ==
    /\ projection' = [p \in Projections |-> IF projection[p] = Waiting THEN Waiting ELSE Done]
    /\ projection' # projection
    /\ UNCHANGED <<wired, rows, clock, layout, backfill, walk>>

-----------------------------------------------------------------------------
EnrichmentInit ==
    /\ wired \in Hooks
    /\ rows = [t \in {Tables[i] : i \in DOMAIN Tables} |-> {}]
    /\ clock = 0
    /\ layout \in [raw : {"pages"}, semantic : {"pages"}] \cup [raw : {"lines"}, semantic : {"lines"}]
    /\ projection = [p \in Projections |-> Waiting]
    /\ backfill = "idle"
    /\ walk = NoWalk

EnrichmentNext ==
    \/ \E p \in Projections :
          StartProjection(p) \/ ExtractAndDelete(p) \/ SaveRows(p)
    \/ BackfillRaw \/ BackfillSemantic \/ BackfillDelete \/ BackfillFails
    \/ StartWalk \/ FetchPage \/ EnrichmentRestart

EnrichmentSpec == EnrichmentInit /\ [][EnrichmentNext]_enrichmentVars

-----------------------------------------------------------------------------
(* Properties.                                                             *)

(* projector.py: "a re-projection replaces the prior batch".  However two   *)
(* projections of a version interleave, fail or die, the claims kept are   *)
(* those of one of them and never a mixture, and so are the allocations    *)
(* that name sections of the same layout.  Topics are not promised this:   *)
(* their ids have gaps, and two batches may not clash.                     *)
BatchesNeverMix ==
    /\ \A r, s \in rows["claims"] : r.by = s.by
    /\ \A r, s \in rows["chunk_taxonomy_allocations"] :
          (\E l \in Layouts : {r.id, s.id} \subseteq SectionsOf(l)) => r.by = s.by

(* A client that follows next_cursor to the end has seen every topic that   *)
(* was there when it began and still is, and none twice, whatever          *)
(* projections rewrote meanwhile.                                          *)
WalkIsComplete ==
    /\ IsInjective(walk.seen)
    /\ ~walk.on => walk.start \cap rows["document_topics"] \subseteq ToSet(walk.seen)

=============================================================================
