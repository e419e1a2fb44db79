------------------------------ MODULE GraphReads ------------------------------
(***************************************************************************)
(* The routes that read the knowledge graph as a graph: what surrounds one  *)
(* node, the pages of the whole and one document's part.  Each statement   *)
(* to the graph store is a step, and documents are projected and dropped   *)
(* between them.                                                           *)
(*                                                                         *)
(* What projecting and dropping do in detail is KnowledgeProjection's      *)
(* matter: here a document's nodes are written, then its edges, and        *)
(* dropping it removes its edges and any of its nodes.  The in-memory      *)
(* store keeps edges of other documents that lead to what is gone; Neo4j   *)
(* matches both ends and detaches.  What the caller may see does not       *)
(* change.  Left out: labels, properties but for the scores, the kinds of  *)
(* nodes.                                                                  *)
(***************************************************************************)
EXTENDS Naturals, FiniteSets, Sequences, SequencesExt, FiniteSetsExt, OrderedRows

CONSTANTS
    NodeOwner,      \* the document each node names, 0 for entities: a sequence
                    \* over the nodes, in the order of their kinds and ids
    EdgeEnds,       \* the ends of each edge: a sequence of pairs of nodes
    EdgeWriter,     \* the document it is written with
    EdgeScore,      \* the score of an edge between chunks, NotScored for the others
    EdgeKeywords,   \* and the number of keywords its ends share
    NotScored,
    Roots,          \* the nodes asked about
    Depths, EdgeLimits, Floors,  \* how far, how many edges, and how strong
    NodesPerPage,   \* the limit of a page of the graph
    MaxGraphChanges \* changes to the graph during one reading

ASSUME GraphReadsAssumption ==
    /\ NodeOwner \in Seq(Nat) /\ EdgeEnds \in Seq((DOMAIN NodeOwner) \X (DOMAIN NodeOwner))
    /\ DOMAIN EdgeEnds = DOMAIN EdgeWriter /\ DOMAIN EdgeEnds = DOMAIN EdgeScore
    /\ MaxGraphChanges \in Nat /\ NodesPerPage \in Nat \ {0} /\ Roots \subseteq DOMAIN NodeOwner
    /\ Depths \subseteq Nat \ {0} /\ EdgeLimits \subseteq Nat /\ Floors \subseteq Nat
    /\ \A e \in DOMAIN EdgeEnds : EdgeScore[e] \in 0..100 \cup {NotScored}

VARIABLES
    backend,    \* the store, and the documents the caller may see
    standing,   \* the nodes and edges stored, and the documents half written
    reader,     \* the reading under way
    moments     \* what stood at some, and at every, moment of it

graphReadVars == <<backend, standing, reader, moments>>

-----------------------------------------------------------------------------
GraphNodes == DOMAIN NodeOwner
GraphEdges == DOMAIN EdgeEnds
Ends(e) == {EdgeEnds[e][1], EdgeEnds[e][2]}
GraphOwners == {EdgeWriter[e] : e \in GraphEdges}
NoOwner == 0

(* Entities are written with the edges that lead to them. *)
NodesOf(d) ==
    {n \in GraphNodes : \/ NodeOwner[n] = d
                        \/ /\ NodeOwner[n] = NoOwner
                           /\ \E e \in GraphEdges : EdgeWriter[e] = d /\ n \in Ends(e)}
EdgesOf(d) == {e \in GraphEdges : EdgeWriter[e] = d}

NothingAsked ==
    [kind |-> "none", stage |-> "idle", root |-> 0, depth |-> 0, left |-> 0, limit |-> 0, floor |-> 0,
     visited |-> {}, frontier |-> {}, next |-> {}, found |-> {}, lookups |-> {},
     cursor |-> 0, nodes |-> <<>>, edges |-> {}, hidden |-> 0, truncated |-> FALSE]

GraphReadsTypeOK ==
    /\ backend \in [store : {"memory", "neo4j"}, sees : SUBSET GraphOwners]
    /\ standing \in [nodes : SUBSET GraphNodes, edges : SUBSET GraphEdges, writing : SUBSET GraphOwners]
    /\ reader.kind \in {"none", "neighborhood", "pages", "document"}
    /\ reader.stage \in {"idle", "root", "access", "again", "expand", "look up", "page", "done", "refused"}
    /\ reader.frontier \subseteq GraphNodes /\ reader.visited \subseteq GraphNodes
    /\ reader.found \cup reader.edges \subseteq GraphEdges
    /\ reader.nodes \in Seq(GraphNodes)
    /\ moments.everEdges \subseteq GraphEdges
    /\ moments.changes \in 0..MaxGraphChanges

-----------------------------------------------------------------------------
(* The statements of the two stores.                                       *)

(* find_edges_incident_to_node *)
IncidentEdges(n) == {e \in standing.edges : n \in Ends(e)}

(* find_subgraph: the nodes after the cursor, and the edges that touch them. *)
NodesAfter(cursor) == {n \in standing.nodes : n > cursor}

PageAfter(cursor) == FirstFew(InOrder(NodesAfter(cursor), Ascending(GraphNodes)), NodesPerPage)

(* Neo4jGraphStore cannot tell whether a full page is the last one. *)
CursorAfter(cursor) ==
    LET page == PageAfter(cursor)
        full == Len(page) = NodesPerPage
        more == Len(page) < Cardinality(NodesAfter(cursor))
    IN  IF full /\ (backend.store = "neo4j" \/ more) THEN Last(page) ELSE 0

(* find_subgraph_for_document *)
SubgraphOf(d) ==
    LET nodes == {n \in standing.nodes : NodeOwner[n] = d}
    IN  [nodes |-> nodes, edges |-> {e \in standing.edges : Ends(e) \subseteq nodes}]

-----------------------------------------------------------------------------
(* The neighbourhood of a node.                                            *)

BeingRead == reader.stage \notin {"idle", "done", "refused"}
GraphStays == UNCHANGED <<backend, standing>>

AskNeighborhood(root, depth, limit, floor) ==
    /\ reader.stage = "idle"
    /\ reader' = [NothingAsked EXCEPT !.kind = "neighborhood", !.stage = "root", !.root = root,
                                    !.depth = depth, !.left = depth, !.limit = limit, !.floor = floor]
    /\ GraphStays

GoTo(stage) == reader' = [reader EXCEPT !.stage = stage]

(* The route looks the root up before it checks access. *)
FetchRoot ==
    /\ reader.stage = "root"
    /\ GoTo(IF reader.root \in standing.nodes THEN "access" ELSE "refused")
    /\ GraphStays

CheckRootAccess ==
    /\ reader.stage = "access"
    /\ GoTo(IF NodeOwner[reader.root] \in backend.sees \cup {NoOwner} THEN "again" ELSE "refused")
    /\ GraphStays

(* The service looks it up again. *)
FindRoot ==
    /\ reader.stage = "again"
    /\ reader' = IF reader.root \in standing.nodes
                 THEN [reader EXCEPT !.stage = "expand", !.visited = {reader.root},
                                     !.frontier = {reader.root}]
                 ELSE [reader EXCEPT !.stage = "refused"]
    /\ GraphStays

(* relation_strength_score, of one source chunk and no validation bonus. *)
Strength(e) == Min({100, EdgeScore[e] + Min({5 * Min({EdgeKeywords[e], 4}), 30})})

StrengthOrZero(e) == IF EdgeScore[e] = NotScored THEN 0 ELSE Strength(e)

Weak(edges, floor) == {e \in edges : EdgeScore[e] # NotScored /\ Strength(e) < floor}

Stronger(e, f) ==
    StrengthOrZero(e) > StrengthOrZero(f) \/ (StrengthOrZero(e) = StrengthOrZero(f) /\ e < f)

(* Faulty variant: only what is past the budget makes an answer truncated. *)
RankOverBudget(r) ==
    LET kept == r.found \ Weak(r.found, r.floor)
        shown == {e \in kept : Cardinality({f \in kept : Stronger(f, e)}) < r.limit}
    IN  [r EXCEPT !.stage = "look up",
                  !.edges = shown,
                  !.lookups = {r.root} \cup UNION {Ends(e) : e \in shown},
                  !.hidden = Cardinality(r.found) - Cardinality(shown),
                  !.truncated = Cardinality(kept) > r.limit,
                  !.found = {}, !.frontier = {}, !.next = {}]

(* What is too weak is left out, the strongest of the rest is shown. *)
Rank(r) ==
    LET kept == r.found \ Weak(r.found, r.floor)
        shown == {e \in kept : Cardinality({f \in kept : Stronger(f, e)}) < r.limit}
    IN  [r EXCEPT !.stage = "look up",
                  !.edges = shown,
                  !.lookups = {r.root} \cup UNION {Ends(e) : e \in shown},
                  !.hidden = Cardinality(r.found) - Cardinality(shown),
                  !.truncated = shown # r.found,
                  !.found = {}, !.frontier = {}, !.next = {}]

(* The end of a round of the search. *)
EndRound(r) ==
    IF r.frontier # {} THEN r
    ELSE LET round == [r EXCEPT !.visited = @ \cup r.next, !.frontier = r.next, !.next = {},
                                !.left = @ - 1]
         IN  IF round.left = 0 \/ round.frontier = {} THEN Rank(round) ELSE round

ExpandNode ==
    /\ reader.stage = "expand"
    /\ \E n \in reader.frontier :
          LET new == IncidentEdges(n) \ reader.found IN
          reader' = EndRound([reader EXCEPT
             !.frontier = @ \ {n}, !.found = @ \cup new,
             !.next = @ \cup ((UNION {Ends(e) : e \in new}) \ (reader.visited \cup {n}))])
    /\ GraphStays

LookUpNode ==
    /\ reader.stage = "look up"
    /\ \E n \in reader.lookups :
          reader' = [reader EXCEPT
             !.lookups = @ \ {n},
             !.nodes = IF n \in standing.nodes THEN Append(@, n) ELSE @,
             !.stage = IF reader.lookups = {n} THEN "done" ELSE @]
    /\ GraphStays

-----------------------------------------------------------------------------
(* The pages of the whole, and one document's part.                        *)

MaySee(n) == NodeOwner[n] \in backend.sees \cup {NoOwner}

AskPages ==
    /\ reader.stage = "idle"
    /\ reader' = [NothingAsked EXCEPT !.kind = "pages", !.stage = "page"]
    /\ GraphStays

(* _filter_graph_page_by_scope drops what the caller may not see, and the   *)
(* edges at it; the cursor is the store's.                                 *)
ReadPage ==
    /\ reader.stage = "page"
    /\ LET page == PageAfter(reader.cursor)
           shown == Where(page, {n \in GraphNodes : MaySee(n)})
           omitted == {n \in Range(page) : ~MaySee(n)}
           touching == {e \in standing.edges : Ends(e) \cap Range(page) # {}}
           cursor == CursorAfter(reader.cursor)
       IN  reader' = [reader EXCEPT
              !.nodes = @ \o shown,
              !.edges = @ \cup {e \in touching : Ends(e) \cap omitted = {}},
              !.cursor = cursor,
              !.stage = IF cursor = 0 THEN "done" ELSE "page"]
    /\ GraphStays

(* A document that is not known is answered an empty graph. *)
ReadDocument(d) ==
    /\ reader.stage = "idle"
    /\ reader' = IF d \in backend.sees
                 THEN [NothingAsked EXCEPT !.kind = "document", !.stage = "done",
                                         !.nodes = InOrder(SubgraphOf(d).nodes, Ascending(GraphNodes)),
                                         !.edges = SubgraphOf(d).edges]
                 ELSE [NothingAsked EXCEPT !.kind = "document", !.stage = "refused"]
    /\ GraphStays

(* The answer has been looked at. *)
CloseReading ==
    /\ reader.stage \in {"done", "refused"}
    /\ reader' = NothingAsked
    /\ GraphStays

-----------------------------------------------------------------------------
(* What happens to the graph.                                              *)

Changing ==
    /\ reader.stage \notin {"done", "refused"}
    /\ moments.changes < MaxGraphChanges
    /\ UNCHANGED <<backend, reader>>

WriteNodes(d) ==
    /\ Changing
    /\ d \notin standing.writing
    /\ standing' = [standing EXCEPT !.nodes = @ \cup NodesOf(d), !.writing = @ \cup {d}]

Keepable(edges, nodes) ==
    IF backend.store = "memory" THEN edges ELSE {e \in edges : Ends(e) \subseteq nodes}

WriteEdges(d) ==
    /\ Changing
    /\ d \in standing.writing
    /\ standing' = [standing EXCEPT !.edges = @ \cup Keepable(EdgesOf(d), standing.nodes),
                                    !.writing = @ \ {d}]

DropGraph(d) ==
    /\ Changing
    /\ d \notin standing.writing
    /\ \E gone \in SUBSET NodesOf(d) :
          LET nodes == standing.nodes \ gone IN
          standing' = [standing EXCEPT !.nodes = nodes,
                                       !.edges = Keepable(@ \ EdgesOf(d), nodes)]
    /\ standing' # standing

-----------------------------------------------------------------------------
Moments ==
    moments' =
        IF reader'.stage = "idle"
        THEN [everEdges |-> {}, steadyEdges |-> {}, steadyNodes |-> {}, changes |-> 0]
        ELSE IF ~BeingRead
        THEN [everEdges |-> standing'.edges, steadyEdges |-> standing'.edges,
              steadyNodes |-> standing'.nodes, changes |-> 0]
        ELSE [everEdges |-> moments.everEdges \cup standing'.edges,
              steadyEdges |-> moments.steadyEdges \cap standing'.edges,
              steadyNodes |-> moments.steadyNodes \cap standing'.nodes,
              changes |-> moments.changes + IF standing' = standing THEN 0 ELSE 1]

GraphReadsInit ==
    /\ backend \in [store : {"memory", "neo4j"}, sees : SUBSET GraphOwners]
    /\ standing = [nodes |-> {}, edges |-> {}, writing |-> {}]
    /\ reader = NothingAsked
    /\ moments = [everEdges |-> {}, steadyEdges |-> {}, steadyNodes |-> {}, changes |-> 0]

GraphReadsNext ==
    /\ \/ \E r \in Roots, d \in Depths, l \in EdgeLimits, f \in Floors : AskNeighborhood(r, d, l, f)
       \/ FetchRoot \/ CheckRootAccess \/ FindRoot \/ ExpandNode \/ LookUpNode
       \/ AskPages \/ ReadPage \/ CloseReading
       \/ \E d \in GraphOwners :
             ReadDocument(d) \/ WriteNodes(d) \/ WriteEdges(d) \/ DropGraph(d)
    /\ Moments

GraphReadsSpec == GraphReadsInit /\ [][GraphReadsNext]_graphReadVars

-----------------------------------------------------------------------------
(* Properties.                                                             *)

(* A walk of so many steps along edges, from a node; a step may stay. *)
IsWalk(walk, edges, root, steps) ==
    /\ walk[0] = root
    /\ \A i \in 1..steps :
          walk[i] = walk[i - 1] \/ \E e \in edges : {walk[i - 1], walk[i]} \subseteq Ends(e)

(* The edges within so many steps of a node. *)
Within(edges, root, depth) ==
    {e \in edges : \E walk \in [0..(depth - 1) -> GraphNodes] :
                      IsWalk(walk, edges, root, depth - 1) /\ walk[depth - 1] \in Ends(e)}

(* What a reading of the graph answers is true of it, although the graph   *)
(* changed meanwhile.  A neighbourhood shows only edges that stood, at      *)
(* some moment, near enough to the root; one that is not marked truncated  *)
(* shows every edge near enough that stood throughout; and it has the ends *)
(* of the edges it shows, where they stood.  The pages of the whole show   *)
(* no node twice, every node that stood throughout and is the caller's to  *)
(* see, and every edge between such nodes, whatever the scope filter drops *)
(* from a page.                                                            *)
ReadingsAddUp ==
    reader.stage = "done" =>
       /\ Cardinality(Range(reader.nodes)) = Len(reader.nodes)
       /\ reader.kind = "neighborhood" =>
             /\ reader.edges \subseteq Within(moments.everEdges, reader.root, reader.depth)
             /\ ~reader.truncated =>
                   Within(moments.steadyEdges, reader.root, reader.depth) \subseteq reader.edges
             /\ moments.steadyNodes \cap UNION {Ends(e) : e \in reader.edges}
                   \subseteq Range(reader.nodes)
       /\ reader.kind = "pages" =>
             /\ {n \in moments.steadyNodes : MaySee(n)} \subseteq Range(reader.nodes)
             /\ {e \in moments.steadyEdges :
                    Ends(e) \subseteq {n \in moments.steadyNodes : MaySee(n)}} \subseteq reader.edges

=============================================================================
