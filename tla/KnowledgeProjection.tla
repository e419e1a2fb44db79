-------------------------- MODULE KnowledgeProjection --------------------------
(***************************************************************************)
(* The knowledge graph as a derived copy of the validated versions.        *)
(* Validating a version sets off a projection, in the background or on the *)
(* request's own thread; an operator's script projects again what is       *)
(* missing; purging a document drops its part of the graph.  Each works by *)
(* several statements, between which the others run, a statement may fail, *)
(* and the process may die.                                                *)
(*                                                                         *)
(* The catalog is here only as far as it starts or stops a projection:     *)
(* ReviewFlow has the statements of a decision, ExtractionPipeline those   *)
(* of a purge.  A rejected version is one in review that is not validated. *)
(* Left out: claims, processes, topics and allocations, which project      *)
(* rewrites in stores of their own after the graph, and embeddings.        *)
(***************************************************************************)
EXTENDS GraphStore, DocumentStatus, Naturals, FiniteSets

CONSTANTS
    DocumentOf,    \* the document of each version
    SectionsOf,    \* the section ids of each version's semantic document
    Triples,       \* <<subject, object>> pairs the entity extractor may find
    Tasks,         \* threads of the API process, and runs of the script
    Backends,      \* the graph stores to consider
    Purges,        \* the documents an operator may purge
    Failures,      \* whether the graph database and the extractor may fail
    Crashes,       \* whether the API process may die
    MaxCut         \* bound: no fault once so many versions are cut

ASSUME ProjectionAssumption ==
    /\ DocumentOf \in [Versions -> Documents]
    /\ SectionsOf \in [Versions -> SUBSET Sections]
    /\ Triples \subseteq Entities \X Entities
    /\ Backends \subseteq {"in-memory", "neo4j"}
    /\ Purges \subseteq Documents
    /\ {Failures, Crashes} \subseteq BOOLEAN
    /\ MaxCut \in Nat
    /\ None \notin {"IN_PROGRESS", "COMPLETED", "FAILED"}

VARIABLES
    backend,    \* the store this deployment is configured with
    status,     \* document_versions.status
    archived,   \* documents with archived_at set
    graph,      \* the graph store
    tracker,    \* ProjectionStatusTracker._entries
    task,       \* what each thread is doing
    cut         \* history: versions a projection or purge of which failed,
                \* was lost in a crash, or found the other under way

vars == <<backend, status, archived, graph, tracker, task, cut>>
catalog == <<backend, status, archived>>

-----------------------------------------------------------------------------
Idle == [op |-> "none", version |-> None, step |-> "idle", todo |-> {},
         triples |-> {}, failed |-> FALSE]

At(t, op, step) == task[t].op \in op /\ task[t].step = step

Goto(t, step) == task' = [task EXCEPT ![t].step = step]

Finish(t) == task' = [task EXCEPT ![t] = Idle]

Projections == {"validate", "reconcile"}
Writing     == {"clear", "detach", "collect", "nodes", "edges",
                "extract", "entities", "cite"}
Steps       == Writing \cup {"start", "read", "report", "tombstone"}

Works == [op : Projections \cup {"purge"}, version : Versions, step : Steps,
          todo : SUBSET Versions, triples : SUBSET Triples, failed : BOOLEAN]

Quiet == \A t \in Tasks : task[t] = Idle

(* find_drifted_versions looks for the version's node and nothing else. *)
Drifted(v) == /\ status[v] = "VALIDATED"
              /\ DocumentOf[v] \notin archived
              /\ graph.node[v] = None

(* A projection of v that has passed its look at the catalog. *)
InFlight(v) == \E t \in Tasks : /\ task[t].op \in Projections
                                /\ task[t].version = v
                                /\ task[t].step \in Writing

Terminal == {"COMPLETED", "FAILED"}

TypeOK ==
    /\ backend \in Backends
    /\ status \in [Versions -> Statuses]
    /\ archived \subseteq Documents
    /\ graph \in Graphs
    /\ tracker \in [Versions -> Terminal \cup {"IN_PROGRESS", None}]
    /\ cut \subseteq Versions
    /\ task \in [Tasks -> {Idle} \cup Works]

Init ==
    /\ backend \in Backends
    /\ status = [v \in Versions |-> "NEEDS_REVIEW"]
    /\ archived = {}
    /\ graph = EmptyGraph
    /\ tracker = [v \in Versions |-> None]
    /\ task = [t \in Tasks |-> Idle]
    /\ cut = {}

-----------------------------------------------------------------------------
(* The review, as far as it concerns the graph.                            *)

(* handle_validation, the supersession of the validated sibling included,  *)
(* and the side effects handed to a thread.  A decision under way when its *)
(* document is archived still lands.                                       *)
Validate(t, v) ==
    /\ task[t] = Idle
    /\ status[v] = "NEEDS_REVIEW"
    /\ status' = [u \in Versions |->
          IF u = v THEN "VALIDATED"
          ELSE IF DocumentOf[u] = DocumentOf[v] /\ status[u] = "VALIDATED"
          THEN "SUPERSEDED" ELSE status[u]]
    /\ task' = [task EXCEPT ![t] = [Idle EXCEPT !.op = "validate", !.version = v,
                                                !.step = "start"]]
    /\ UNCHANGED <<backend, archived, graph, tracker, cut>>

(* handle_demote_to_review: the graph is left as it is. *)
Demote(v) ==
    /\ status[v] = "VALIDATED"
    /\ status' = [status EXCEPT ![v] = "NEEDS_REVIEW"]
    /\ UNCHANGED <<backend, archived, graph, tracker, task, cut>>

-----------------------------------------------------------------------------
(* _fire_knowledge_layer_side_effects: mark_started; the document; project; *)
(* the entities; the outcome.                                              *)

MarkStarted(t) ==
    /\ At(t, {"validate"}, "start")
    /\ tracker' = [tracker EXCEPT ![task[t].version] = "IN_PROGRESS"]
    /\ Goto(t, "read")
    /\ UNCHANGED <<catalog, graph, cut>>

(* Faulty variant: without a document there is nothing to report. *)
ReadDocumentSilently(t) ==
    /\ At(t, {"validate"}, "read")
    /\ IF DocumentOf[task[t].version] \in archived THEN Finish(t) ELSE Goto(t, "clear")
    /\ UNCHANGED <<catalog, graph, tracker, cut>>

(* Faulty variant: the archived document is found. *)
ReadDocumentArchived(t) ==
    /\ At(t, {"validate"}, "read")
    /\ Goto(t, "clear")
    /\ UNCHANGED <<catalog, graph, tracker, cut>>

(* get_document hides an archived document: nothing is projected, and that *)
(* counts as a success.                                                    *)
ReadDocument(t) ==
    /\ At(t, {"validate"}, "read")
    /\ Goto(t, IF DocumentOf[task[t].version] \in archived THEN "report" ELSE "clear")
    /\ UNCHANGED <<catalog, graph, tracker, cut>>

(* reconcile_version, from a script of its own: the same projection, not   *)
(* tracked, of any VALIDATED version, whether or not find_drifted_versions *)
(* named it.  With the in-memory store it would fill its own copy.         *)
StartReconcile(t, v) ==
    /\ backend = "neo4j"
    /\ task[t] = Idle
    /\ DocumentOf[v] \notin archived
    /\ status[v] = "VALIDATED"
    /\ task' = [task EXCEPT ![t] = [Idle EXCEPT !.op = "reconcile", !.version = v,
                                                !.step = "clear"]]
    /\ UNCHANGED <<catalog, graph, tracker, cut>>

-----------------------------------------------------------------------------
(* delete_subgraph_for_version, for a projection and for a purge.          *)

(* What follows the deletion: the projection's own nodes, or the next       *)
(* version of the purged document.                                         *)
AfterDelete(t) ==
    IF task[t].op # "purge" THEN Goto(t, "nodes")
    ELSE IF task[t].todo = {} THEN Finish(t)
    ELSE \E u \in task[t].todo :
            task' = [task EXCEPT ![t].version = u, ![t].step = "clear",
                                 ![t].todo = @ \ {u}]

Deletions == Projections \cup {"purge"}

Clear(t) ==
    LET v == task[t].version IN
    /\ At(t, Deletions, "clear")
    /\ \/ /\ backend = "in-memory"
          /\ graph' = DeleteVersion(graph, v)
          /\ AfterDelete(t)
       \/ /\ backend = "neo4j"
          /\ graph' = DeleteEdges(graph, v)
          /\ Goto(t, "detach")
    /\ UNCHANGED <<catalog, tracker, cut>>

DetachNodes(t) ==
    /\ At(t, Deletions, "detach")
    /\ graph' = DetachVersion(graph, task[t].version)
    /\ Goto(t, "collect")
    /\ UNCHANGED <<catalog, tracker, cut>>

Collect(t) ==
    /\ At(t, Deletions, "collect")
    /\ graph' = CollectEntities(graph)
    /\ AfterDelete(t)
    /\ UNCHANGED <<catalog, tracker, cut>>

-----------------------------------------------------------------------------
(* The rest of KnowledgeProjector.project, and project_entities.           *)

StructureNodes(v) == {DocumentOf[v], v} \cup SectionsOf[v]

StructureEdges(v) ==
    [from : {v}, to : {DocumentOf[v]}, version : {v}]
       \cup [from : SectionsOf[v], to : {v}, version : {v}]

CitedNodes(triples) == UNION {{r[1], r[2]} : r \in triples}

CitedEdges(v, triples) == {[from |-> r[1], to |-> r[2], version |-> v] : r \in triples}

WriteNodes(v, ns) == graph' = IF backend = "neo4j" THEN MergeNodes(graph, v, ns)
                                                   ELSE UpsertNodes(graph, v, ns)

WriteEdges(es) == graph' = IF backend = "neo4j" THEN MergeEdges(graph, es)
                                                ELSE UpsertEdges(graph, es)

PutNodes(t) ==
    /\ At(t, Projections, "nodes")
    /\ WriteNodes(task[t].version, StructureNodes(task[t].version))
    /\ Goto(t, "edges")
    /\ UNCHANGED <<catalog, tracker, cut>>

PutEdges(t) ==
    /\ At(t, Projections, "edges")
    /\ WriteEdges(StructureEdges(task[t].version))
    /\ Goto(t, "extract")
    /\ UNCHANGED <<catalog, tracker, cut>>

(* Where a projection goes when it is over: the script keeps no tracker. *)
Conclude(t) == IF task[t].op = "validate" THEN Goto(t, "report") ELSE Finish(t)

(* The entity extractor, any triples it comes up with; none are written if *)
(* there are none, or no extractor.                                        *)
Extract(t) ==
    /\ At(t, Projections, "extract")
    /\ \/ Conclude(t)
       \/ \E found \in (SUBSET Triples) \ {{}} :
             task' = [task EXCEPT ![t].triples = found, ![t].step = "entities"]
    /\ UNCHANGED <<catalog, graph, tracker, cut>>

PutEntities(t) ==
    /\ At(t, Projections, "entities")
    /\ WriteNodes(task[t].version, CitedNodes(task[t].triples))
    /\ Goto(t, "cite")
    /\ UNCHANGED <<catalog, tracker, cut>>

Cite(t) ==
    /\ At(t, Projections, "cite")
    /\ WriteEdges(CitedEdges(task[t].version, task[t].triples))
    /\ Conclude(t)
    /\ UNCHANGED <<catalog, tracker, cut>>

(* A statement fails, after its retries: the API process notes the failure  *)
(* and goes on with the entities, if it has the document; the script gives *)
(* the version up; a purge goes on with the next version.  The in-memory   *)
(* store never fails, but what precedes it may.                            *)
Fail(t) ==
    /\ Failures /\ Cardinality(cut) < MaxCut
    /\ task[t].step \in Writing \cup {"read"}
    /\ backend = "in-memory" => /\ task[t].op # "purge"
                                /\ task[t].step \in {"read", "clear", "extract"}
    /\ CASE task[t].op = "purge"     -> AfterDelete(t)
         [] task[t].op = "reconcile" -> Finish(t)
         [] OTHER -> task' = [task EXCEPT ![t].failed = TRUE,
                                          ![t].step = IF @ \in {"read", "extract", "entities", "cite"}
                                                      THEN "report" ELSE "extract"]
    /\ cut' = cut \cup {task[t].version}
    /\ UNCHANGED <<catalog, graph, tracker>>

(* _record_projection_outcome: only an entry the tracker has is updated,   *)
(* and terminal entries that have outlived their time are dropped.         *)
Report(t) ==
    LET v == task[t].version IN
    /\ At(t, {"validate"}, "report")
    /\ \E stale \in SUBSET {u \in Versions \ {v} : tracker[u] \in Terminal} :
          tracker' = [u \in Versions |->
             IF u = v /\ tracker[v] # None
             THEN (IF task[t].failed THEN "FAILED" ELSE "COMPLETED")
             ELSE IF u \in stale THEN None ELSE tracker[u]]
    /\ Finish(t)
    /\ UNCHANGED <<catalog, graph, cut>>

-----------------------------------------------------------------------------
(* orbital_purge_document: archive, tombstone every version, then drop the *)
(* subgraph of every version.                                              *)
StartPurge(t, d) ==
    /\ d \in Purges
    /\ task[t] = Idle
    /\ archived' = archived \cup {d}
    /\ \E v \in {u \in Versions : DocumentOf[u] = d} :
          task' = [task EXCEPT ![t] =
             [Idle EXCEPT !.op = "purge", !.version = v, !.step = "tombstone",
                          !.todo = {u \in Versions \ {v} : DocumentOf[u] = d}]]
    /\ cut' = cut \cup {u \in Versions : DocumentOf[u] = d /\ InFlight(u)}
    /\ UNCHANGED <<backend, status, graph, tracker>>

Tombstone(t) ==
    /\ At(t, {"purge"}, "tombstone")
    /\ status' = [u \in Versions |->
          IF u = task[t].version \/ u \in task[t].todo THEN "PURGED" ELSE status[u]]
    /\ Goto(t, "clear")
    /\ UNCHANGED <<backend, archived, graph, tracker, cut>>

(* The API process ends and comes up again, its threads, its tracker and an *)
(* in-memory graph lost; a script runs on.                                 *)
Crash ==
    LET dead == {t \in Tasks : task[t].op \in {"validate", "purge"}} IN
    /\ Crashes /\ Cardinality(cut) < MaxCut
    /\ task' = [t \in Tasks |-> IF t \in dead THEN Idle ELSE task[t]]
    /\ tracker' = [v \in Versions |-> None]
    /\ graph' = IF backend = "in-memory" THEN EmptyGraph ELSE graph
    /\ cut' = IF backend = "in-memory" THEN Versions
              ELSE cut \cup UNION {{task[t].version} \cup task[t].todo : t \in dead}
    /\ UNCHANGED catalog

-----------------------------------------------------------------------------
Step(t) ==
    \/ MarkStarted(t) \/ ReadDocument(t)
    \/ Clear(t) \/ DetachNodes(t) \/ Collect(t) \/ PutNodes(t) \/ PutEdges(t)
    \/ Extract(t) \/ PutEntities(t) \/ Cite(t)
    \/ Fail(t) \/ Report(t) \/ Tombstone(t)

Next ==
    \/ \E t \in Tasks :
          \/ Step(t)
          \/ \E v \in Versions : Validate(t, v) \/ StartReconcile(t, v)
          \/ \E d \in Documents : StartPurge(t, d)
    \/ \E v \in Versions : Demote(v)
    \/ Crash

Spec == Init /\ [][Next]_vars

-----------------------------------------------------------------------------
(* Properties.                                                             *)

(* The graph holds the whole structure of v: its nodes, and the edges that *)
(* tie them together.                                                      *)
Complete(v) ==
    /\ \A n \in StructureNodes(v) : graph.node[n] # None
    /\ StructureEdges(v) \subseteq graph.edges

(* It holds nothing of v. *)
Absent(v) == graph.node[v] = None /\ \A e \in graph.edges : e.version # v

(* docs/runbook/reconciliation.md: projections and reconciliations of one   *)
(* version that run at once "land the same end state", and ADR-012 makes   *)
(* projection a side effect of validation.  When all is quiet, a validated *)
(* version none of whose projections was cut short is in the graph with    *)
(* every node and edge, however they overlapped each other, those of       *)
(* other versions, and purges of other documents.                          *)
ValidatedIsInGraph ==
    Quiet => \A v \in Versions :
       /\ status[v] = "VALIDATED"
       /\ DocumentOf[v] \notin archived
       /\ v \notin cut
       => Complete(v)

(* The in-memory store counts references: a node some version still claims *)
(* is there, whatever projections and purges of other versions deleted.    *)
ClaimedNodesStand == \A c \in graph.claims : graph.node[c[2]] # None

(* The reviewer's "Projecting..." indicator ends: an entry is IN_PROGRESS   *)
(* only while a tracked projection of the version runs, whether it finds   *)
(* its document, fails at any statement, or dies with the process.         *)
InProgressIsRunning ==
    \A v \in Versions :
       tracker[v] = "IN_PROGRESS" =>
          \E t \in Tasks : task[t].op = "validate" /\ task[t].version = v

(* A purge that ends leaves neither the version's node nor an edge of it,   *)
(* for archiving comes first and turns away the projections that have not  *)
(* read the catalog yet: only one already writing can bring it back.       *)
PurgedLeavesGraph ==
    Quiet => \A v \in Versions :
       status[v] = "PURGED" /\ v \notin cut => Absent(v)

(* What the catalog, the graph and the threads are as a copy: a version     *)
(* belongs in the graph while it is validated and its document is not      *)
(* archived.                                                               *)
InCatalog == {v \in Versions : status[v] = "VALIDATED" /\ DocumentOf[v] \notin archived}

Purged == {v \in Versions : status[v] = "PURGED"}

CopyOf == [v \in Versions |-> IF Complete(v) THEN "whole"
                             ELSE IF Absent(v) THEN "absent" ELSE "part"]

HoldsVersion(t, v) == task[t].version = v \/ v \in task[t].todo

WorkedOn == {v \in Versions : \E t \in Tasks : HoldsVersion(t, v)}

Copies == INSTANCE GraphCopy WITH
             wanted <- InCatalog, gone <- Purged, copy <- CopyOf,
             working <- WorkedOn, damaged <- cut

(* projector.py:31-33: "Re-projecting the same version is safe", for it     *)
(* deletes the version's prior subgraph before upserting the new one.      *)
(* The statements of projections, reconciliations and purges interleave on *)
(* node and edge ids their versions share; seen from outside, each changes *)
(* the copy of its own version alone, and the last one at work on a        *)
(* version leaves it as it should be, whoever else is still running.       *)
ImplementsCopy == Copies!CopySpec

(* projector.py:3-9 promises a "Document -> Version -> Chunk skeleton",     *)
(* one chunk per section: the node a version's chunk edge leads from is    *)
(* the chunk of that version.  Chunk ids are unique only within a file, so *)
(* the next version's projection writes over the same node.                *)
ChunksAreTheVersions ==
    Quiet => \A e \in graph.edges :
                e.from \in Sections => graph.node[e.from] = e.version

(* graph_store.py:704-708: "we delete only the HAS_ENTITY edges scoped to  *)
(* this version, then garbage-collect entity nodes".  An edge goes only in *)
(* a deletion of its own version's subgraph; yet an entity that is the     *)
(* subject of its triples has no incoming edge, and is collected with its  *)
(* outgoing ones.                                                          *)
OthersEdgesKept ==
    [][\A e \in graph.edges \ graph'.edges :
          \E t \in Tasks : /\ task[t].version = e.version
                           /\ task[t].step \in {"clear", "detach", "collect"}]_vars

(* projector.py:28-30: after a failure "the graph catches up later via      *)
(* re-projection or out-of-band reconciliation".  A validated version is   *)
(* in the graph or reported as drifted; one whose nodes were written when  *)
(* a statement failed, or the process died, is neither.                    *)
LeftOutIsDrifted ==
    Quiet => \A v \in Versions :
       /\ status[v] = "VALIDATED"
       /\ DocumentOf[v] \notin archived
       => Complete(v) \/ Drifted(v)

=============================================================================
