------------------------------ MODULE GraphStore ------------------------------
(***************************************************************************)
(* The knowledge graph as its two backends keep it: InMemoryGraphStore, a   *)
(* set of dictionaries under one lock, and Neo4jGraphStore, one statement  *)
(* after the other.                                                        *)
(*                                                                         *)
(* A node is its id and the version its properties name, which is the last *)
(* one to have written it; a document's node names no version, and is      *)
(* recorded as written by the document.  A chunk's id is the id of the     *)
(* section it came from, which parsers number within one file, so versions *)
(* share chunk ids as they share entity ids.  Topic nodes and the edges    *)
(* between chunks are written and removed with the chunks and stand or     *)
(* fall with them; embeddings and labels are left out.                     *)
(***************************************************************************)
CONSTANTS
    Documents,     \* document families
    Versions,      \* their versions
    Sections,      \* section ids: "para-0", "page-1-sec-0", ...
    Entities,      \* entity ids: hashes of type and text
    None           \* no such node

NodeIds == Documents \cup Versions \cup Sections \cup Entities

ASSUME GraphAssumption ==
    /\ Documents \cap (Versions \cup Sections \cup Entities) = {}
    /\ Versions \cap (Sections \cup Entities) = {}
    /\ Sections \cap Entities = {}
    /\ None \notin NodeIds

Edges == [from : NodeIds, to : NodeIds, version : Versions]

Graphs == [node   : [NodeIds -> Versions \cup Documents \cup {None}],
           edges  : SUBSET Edges,
           claims : SUBSET (Versions \X (NodeIds \ Documents))]

EmptyGraph == [node |-> [n \in NodeIds |-> None], edges |-> {}, claims |-> {}]

-----------------------------------------------------------------------------
(* InMemoryGraphStore.  "claims" is _version_to_node_ids, and its inverse  *)
(* _node_to_versions.                                                      *)

(* Faulty variant: a document's node is claimed like any other. *)
UpsertNodesClaimingAll(g, v, ns) ==
    [g EXCEPT !.node = [n \in NodeIds |-> IF n \notin ns THEN @[n]
                                          ELSE IF n \in Documents THEN n ELSE v],
              !.claims = @ \cup ({v} \X ns)]

(* A document's node carries no version_id: nobody claims it. *)
UpsertNodes(g, v, ns) ==
    [node   |-> [n \in NodeIds |-> IF n \notin ns THEN g.node[n]
                                   ELSE IF n \in Documents THEN n ELSE v],
     edges  |-> g.edges,
     claims |-> g.claims \cup ({v} \X (ns \ Documents))]

(* No check that the ends exist. *)
UpsertEdges(g, es) == [g EXCEPT !.edges = @ \cup es]

(* Faulty variant: a node goes whoever else claims it. *)
DeleteVersionUncounted(g, v) ==
    LET mine == {n \in NodeIds : <<v, n>> \in g.claims} IN
    [node   |-> [n \in NodeIds |-> IF n \in mine THEN None ELSE g.node[n]],
     edges  |-> {e \in g.edges : e.version # v},
     claims |-> {c \in g.claims : c[1] # v}]

(* delete_subgraph_for_version: the version's edges, and the nodes no other *)
(* version claims.                                                         *)
DeleteVersion(g, v) ==
    LET mine == {n \in NodeIds : /\ <<v, n>> \in g.claims
                                 /\ \A u \in Versions \ {v} : <<u, n>> \notin g.claims} IN
    [node   |-> [n \in NodeIds |-> IF n \in mine THEN None ELSE g.node[n]],
     edges  |-> {e \in g.edges : e.version # v},
     claims |-> {c \in g.claims : c[1] # v}]

-----------------------------------------------------------------------------
(* Neo4jGraphStore.  Each operator is one auto-committed statement.        *)

(* DETACH DELETE. *)
Detach(g, ns) ==
    [node   |-> [n \in NodeIds |-> IF n \in ns THEN None ELSE g.node[n]],
     edges  |-> {e \in g.edges : e.from \notin ns /\ e.to \notin ns},
     claims |-> g.claims]

(* MERGE by id, then SET: the claims are not kept. *)
MergeNodes(g, v, ns) == [UpsertNodes(g, v, ns) EXCEPT !.claims = {}]

(* MATCH both ends, then MERGE: an edge with a missing end is skipped. *)
MergeEdges(g, es) ==
    UpsertEdges(g, {e \in es : g.node[e.from] # None /\ g.node[e.to] # None})

(* delete_subgraph_for_version, in three statements: the version's edges; *)
(* its nodes of kind document, version and section, which leaves chunks;  *)
(* every entity, of any version, no has_entity edge leads to.             *)
DeleteEdges(g, v) == [g EXCEPT !.edges = {e \in @ : e.version # v}]

DetachVersion(g, v) == Detach(g, {n \in Documents \cup Versions : g.node[n] = v})

(* Faulty variant: the kind is not asked for. *)
CollectUnreferenced(g) ==
    Detach(g, {n \in NodeIds : \A e \in g.edges : e.to # n})

CollectEntities(g) ==
    Detach(g, {n \in Entities : \A e \in g.edges : e.to # n})

=============================================================================
