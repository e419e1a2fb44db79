---------------------- MODULE KnowledgeProjection_proofs ----------------------
(***************************************************************************)
(* Proofs about KnowledgeProjection, for any documents, versions, sections, *)
(* triples, threads and faults, over both graph stores.                    *)
(***************************************************************************)
EXTENDS KnowledgeProjection, TLAPS

-----------------------------------------------------------------------------
(* The inductive invariant.                                                *)

(* What a thread's step says of its operation, of the store, and, of a      *)
(* purge, that the documents it empties are archived.                      *)
TaskInv ==
    \A t \in Tasks : task[t] # Idle =>
       /\ task[t].step \in {"detach", "collect"} => backend = "neo4j"
       /\ task[t].op = "reconcile" => task[t].step \in Writing
       /\ task[t].op = "purge" =>
             /\ task[t].step \in {"tombstone", "clear", "detach", "collect"}
             /\ \A v \in task[t].todo \cup {task[t].version} : DocumentOf[v] \in archived
       /\ task[t].op \in Projections => task[t].step # "tombstone"

(* Who is archived is not being written, but for what the history says. *)
FlightInv ==
    \A v \in Versions : DocumentOf[v] \in archived /\ v \notin cut => ~InFlight(v)

(* A document's and a version's node are written by themselves alone; the   *)
(* in-memory store's version nodes are claimed, by their versions; Neo4j   *)
(* claims nothing.                                                         *)
WellKept(b, g) ==
    /\ \A n \in Documents \cup Versions : g.node[n] \in {n, None}
    /\ \A c \in g.claims : g.node[c[2]] # None /\ (c[2] \in Versions => c[1] = c[2])
    /\ b = "in-memory" => \A v \in Versions : g.node[v] # None => <<v, v>> \in g.claims
    /\ b = "neo4j" => g.claims = {}

(* Of v the graph has nothing left, or its nodes, held by its claims, or   *)
(* its edges.                                                              *)
EdgesGone(g, v) == \A e \in g.edges : e.version # v
Gone(g, v) == g.node[v] = None /\ EdgesGone(g, v)
NodesHeld(b, g, v) ==
    \A n \in StructureNodes(v) :
       /\ g.node[n] # None
       /\ b = "in-memory" /\ n \notin Documents => <<v, n>> \in g.claims
EdgesHeld(g, v) == StructureEdges(v) \subseteq g.edges

(* A purge has still to come to v's nodes. *)
Cleaning(t, v) ==
    /\ task[t].op = "purge"
    /\ \/ v \in task[t].todo
       \/ task[t].version = v /\ task[t].step = "clear"
       \/ task[t].version = v /\ task[t].step = "detach" /\ EdgesGone(graph, v)

PurgeInv ==
    \A v \in Versions : status[v] = "PURGED" /\ v \notin cut =>
       /\ DocumentOf[v] \in archived
       /\ Gone(graph, v) \/ \E t \in Tasks : Cleaning(t, v)

(* A projection has still to come to v's nodes, or to its edges. *)
Projecting(t, v, steps) ==
    task[t].op \in Projections /\ task[t].version = v /\ task[t].step \in steps

BeforeNodes == {"start", "read", "clear", "detach", "collect", "nodes"}

CopyInv ==
    \A v \in Versions :
       status[v] = "VALIDATED" /\ DocumentOf[v] \notin archived /\ v \notin cut =>
          \/ \E t \in Tasks : Projecting(t, v, BeforeNodes)
          \/ /\ NodesHeld(backend, graph, v)
             /\ EdgesHeld(graph, v) \/ \E t \in Tasks : Projecting(t, v, {"edges"})

IInv ==
    /\ TypeOK
    /\ TaskInv
    /\ FlightInv
    /\ WellKept(backend, graph)
    /\ PurgeInv
    /\ CopyInv
    /\ InProgressIsRunning

-----------------------------------------------------------------------------
(* Facts about single tasks.                                               *)

LEMMA IdleFields ==
    /\ Idle.op = "none" /\ Idle.version = None /\ Idle.step = "idle"
    /\ Idle.todo = {} /\ Idle.triples = {} /\ Idle.failed = FALSE
    /\ Idle \notin Works
  BY DEF Idle, Works, Projections

LEMMA NotIdle ==
    ASSUME TypeOK, NEW t \in Tasks, task[t].step # "idle"
    PROVE  task[t] \in Works /\ task[t] # Idle
  BY IdleFields DEF TypeOK

LEMMA WorkFields ==
    ASSUME NEW r \in Works
    PROVE  /\ r.op \in Projections \cup {"purge"} /\ r.version \in Versions
           /\ r.step \in Steps /\ r.todo \in SUBSET Versions
           /\ r.triples \in SUBSET Triples /\ r.failed \in BOOLEAN
           /\ r.step # "idle" /\ r # Idle
<1>1. r.step \in Steps  BY DEF Works
<1>2. r.step # "idle"  BY <1>1 DEF Steps, Writing
<1> QED  BY <1>2, IdleFields DEF Works

(* Goto changes the step of a working thread, and nothing else. *)
LEMMA Goes ==
    ASSUME TypeOK, NEW t \in Tasks, task[t] \in Works, NEW s \in Steps, Goto(t, s)
    PROVE  /\ task' \in [Tasks -> {Idle} \cup Works]
           /\ \A x \in Tasks \ {t} : task'[x] = task[x]
           /\ task'[t] = [task[t] EXCEPT !.step = s]
           /\ task'[t] \in Works
<1> DEFINE r == [task[t] EXCEPT !.step = s]
<1>1. r \in Works  BY DEF Works
<1>2. task' = [task EXCEPT ![t] = r]  BY DEF Goto, TypeOK
<1> HIDE DEF r
<1>3. /\ task' \in [Tasks -> {Idle} \cup Works]
      /\ \A x \in Tasks \ {t} : task'[x] = task[x]
      /\ task'[t] = r
  BY <1>1, <1>2 DEF TypeOK
<1> QED  BY <1>1, <1>3 DEF r

LEMMA Finishes ==
    ASSUME TypeOK, NEW t \in Tasks, Finish(t)
    PROVE  /\ task' \in [Tasks -> {Idle} \cup Works]
           /\ \A x \in Tasks \ {t} : task'[x] = task[x]
           /\ task'[t] = Idle
  BY DEF Finish, TypeOK

(* An idle thread takes something up. *)
LEMMA TakesUp ==
    ASSUME TypeOK, NEW t \in Tasks, NEW r \in Works, task' = [task EXCEPT ![t] = r]
    PROVE  /\ task' \in [Tasks -> {Idle} \cup Works]
           /\ \A x \in Tasks \ {t} : task'[x] = task[x]
           /\ task'[t] = r
  BY DEF TypeOK

(* After a deletion: the projection goes on, and a purge takes up its next *)
(* version or ends.                                                        *)
LEMMA Deleted ==
    ASSUME TypeOK, NEW t \in Tasks, task[t] \in Works, AfterDelete(t)
    PROVE  /\ task' \in [Tasks -> {Idle} \cup Works]
           /\ \A x \in Tasks \ {t} : task'[x] = task[x]
           /\ task[t].op # "purge" => task'[t] = [task[t] EXCEPT !.step = "nodes"]
           /\ task[t].op = "purge" =>
                 \/ task[t].todo = {} /\ task'[t] = Idle
                 \/ \E u \in task[t].todo :
                       task'[t] = [task[t] EXCEPT !.version = u, !.step = "clear",
                                                  !.todo = task[t].todo \ {u}]
           /\ task'[t] \in {Idle} \cup Works
<1>1. CASE task[t].op # "purge"
  <2>1. Goto(t, "nodes")  BY <1>1 DEF AfterDelete
  <2>2. "nodes" \in Steps  BY DEF Steps, Writing
  <2> QED  BY <1>1, <2>1, <2>2, Goes
<1>2. CASE task[t].op = "purge" /\ task[t].todo = {}
  BY <1>2, Finishes DEF AfterDelete
<1>3. CASE task[t].op = "purge" /\ task[t].todo # {}
  <2>1. PICK u \in task[t].todo :
           task' = [task EXCEPT ![t].version = u, ![t].step = "clear",
                                ![t].todo = @ \ {u}]
    BY <1>3 DEF AfterDelete
  <2> DEFINE r == [task[t] EXCEPT !.version = u, !.step = "clear",
                                  !.todo = task[t].todo \ {u}]
  <2>2. u \in Versions  BY WorkFields
  <2>3. task[t].todo \ {u} \in SUBSET Versions  BY WorkFields
  <2>4. "clear" \in Steps  BY DEF Steps, Writing
  <2>5. r \in Works  BY <2>2, <2>3, <2>4 DEF Works
  <2>6. task' = [task EXCEPT ![t] = r]  BY <2>1 DEF TypeOK
  <2> HIDE DEF r
  <2>7. /\ task' \in [Tasks -> {Idle} \cup Works]
        /\ \A x \in Tasks \ {t} : task'[x] = task[x]
        /\ task'[t] = r
    BY <2>5, <2>6, TakesUp
  <2> QED  BY <1>3, <2>5, <2>7 DEF r
<1> QED  BY <1>1, <1>2, <1>3

-----------------------------------------------------------------------------
(* What the operators on graphs make of a graph.                           *)

LEMMA Ids ==
    /\ Documents \subseteq NodeIds /\ Versions \subseteq NodeIds
    /\ Sections \subseteq NodeIds /\ Entities \subseteq NodeIds
    /\ None \notin NodeIds
    /\ \A d \in Documents : d \notin Versions /\ d \notin Sections /\ d \notin Entities
    /\ \A v \in Versions : v \notin Documents /\ v \notin Sections /\ v \notin Entities
    /\ \A s \in Sections : s \notin Documents /\ s \notin Versions /\ s \notin Entities
  BY GraphAssumption DEF NodeIds

LEMMA GraphFields ==
    ASSUME NEW g \in Graphs
    PROVE  /\ g.node \in [NodeIds -> Versions \cup Documents \cup {None}]
           /\ g.edges \in SUBSET Edges
           /\ g.claims \in SUBSET (Versions \X (NodeIds \ Documents))
  BY DEF Graphs

LEMMA StructureOf ==
    ASSUME NEW v \in Versions
    PROVE  /\ StructureNodes(v) \in SUBSET NodeIds
           /\ StructureNodes(v) \cap Versions = {v}
           /\ StructureNodes(v) \cap Entities = {}
           /\ StructureEdges(v) \in SUBSET Edges
           /\ \A e \in StructureEdges(v) :
                 /\ e.version = v
                 /\ e.from \in StructureNodes(v) /\ e.to \in StructureNodes(v)
<1>1. DocumentOf[v] \in Documents /\ SectionsOf[v] \in SUBSET Sections
  BY ProjectionAssumption
<1>2. /\ StructureNodes(v) \in SUBSET NodeIds
      /\ StructureNodes(v) \cap Versions = {v}
      /\ StructureNodes(v) \cap Entities = {}
  BY <1>1, Ids DEF StructureNodes
<1>3. ASSUME NEW e \in StructureEdges(v)
      PROVE  /\ e \in Edges /\ e.version = v
             /\ e.from \in StructureNodes(v) /\ e.to \in StructureNodes(v)
  <2>1. CASE e \in [from : {v}, to : {DocumentOf[v]}, version : {v}]
    BY <2>1, <1>1, Ids DEF StructureNodes, Edges
  <2>2. CASE e \in [from : SectionsOf[v], to : {v}, version : {v}]
    BY <2>2, <1>1, Ids DEF StructureNodes, Edges
  <2> QED  BY <1>3, <2>1, <2>2 DEF StructureEdges
<1> QED  BY <1>2, <1>3

(* A graph with other edges. *)
LEMMA Rewritten ==
    ASSUME NEW g \in Graphs, NEW E
    PROVE  [g EXCEPT !.edges = E] = [node |-> g.node, edges |-> E, claims |-> g.claims]
  BY DEF Graphs

LEMMA UpsertNodesGives ==
    ASSUME NEW g \in Graphs, NEW v \in Versions, NEW ns \in SUBSET NodeIds
    PROVE  /\ UpsertNodes(g, v, ns) \in Graphs
           /\ \A n \in NodeIds : UpsertNodes(g, v, ns).node[n] =
                 IF n \notin ns THEN g.node[n] ELSE IF n \in Documents THEN n ELSE v
           /\ UpsertNodes(g, v, ns).edges = g.edges
           /\ UpsertNodes(g, v, ns).claims = g.claims \cup ({v} \X (ns \ Documents))
<1> DEFINE node == [n \in NodeIds |-> IF n \notin ns THEN g.node[n]
                                      ELSE IF n \in Documents THEN n ELSE v]
           claims == g.claims \cup ({v} \X (ns \ Documents))
<1>1. node \in [NodeIds -> Versions \cup Documents \cup {None}]
  BY GraphFields
<1>2. claims \in SUBSET (Versions \X (NodeIds \ Documents))
  BY GraphFields
<1>3. UpsertNodes(g, v, ns) = [node |-> node, edges |-> g.edges, claims |-> claims]
  BY DEF UpsertNodes
<1>4. \A n \in NodeIds : node[n] =
         IF n \notin ns THEN g.node[n] ELSE IF n \in Documents THEN n ELSE v
  OBVIOUS
<1>5. g.edges \in SUBSET Edges  BY GraphFields
<1> HIDE DEF node, claims
<1>6. UpsertNodes(g, v, ns) \in Graphs  BY <1>1, <1>2, <1>3, <1>5 DEF Graphs
<1>7. /\ UpsertNodes(g, v, ns).node = node
      /\ UpsertNodes(g, v, ns).edges = g.edges
      /\ UpsertNodes(g, v, ns).claims = claims
  BY <1>3
<1> QED  BY <1>4, <1>6, <1>7 DEF claims

LEMMA MergeNodesGives ==
    ASSUME NEW g \in Graphs, NEW v \in Versions, NEW ns \in SUBSET NodeIds
    PROVE  /\ MergeNodes(g, v, ns) \in Graphs
           /\ \A n \in NodeIds : MergeNodes(g, v, ns).node[n] =
                 IF n \notin ns THEN g.node[n] ELSE IF n \in Documents THEN n ELSE v
           /\ MergeNodes(g, v, ns).edges = g.edges
           /\ MergeNodes(g, v, ns).claims = {}
<1> DEFINE h == UpsertNodes(g, v, ns)
<1>1. /\ h \in Graphs /\ h.edges = g.edges
      /\ \A n \in NodeIds : h.node[n] =
            IF n \notin ns THEN g.node[n] ELSE IF n \in Documents THEN n ELSE v
  BY UpsertNodesGives
<1>2. MergeNodes(g, v, ns) = [h EXCEPT !.claims = {}]
  BY DEF MergeNodes
<1> HIDE DEF h
<1>3. MergeNodes(g, v, ns) = [node |-> h.node, edges |-> h.edges, claims |-> {}]
  BY <1>1, <1>2 DEF Graphs
<1> QED  BY <1>1, <1>3, GraphFields DEF Graphs

LEMMA UpsertEdgesGives ==
    ASSUME NEW g \in Graphs, NEW es \in SUBSET Edges
    PROVE  /\ UpsertEdges(g, es) \in Graphs
           /\ UpsertEdges(g, es).node = g.node
           /\ UpsertEdges(g, es).edges = g.edges \cup es
           /\ UpsertEdges(g, es).claims = g.claims
<1>1. UpsertEdges(g, es) =
         [node |-> g.node, edges |-> g.edges \cup es, claims |-> g.claims]
  BY Rewritten, Zenon DEF UpsertEdges
<1> QED  BY <1>1, GraphFields DEF Graphs

LEMMA DeleteVersionGives ==
    ASSUME NEW g \in Graphs, NEW v \in Versions
    PROVE  /\ DeleteVersion(g, v) \in Graphs
           /\ \A n \in NodeIds : DeleteVersion(g, v).node[n] =
                 IF <<v, n>> \in g.claims /\ \A u \in Versions \ {v} : <<u, n>> \notin g.claims
                 THEN None ELSE g.node[n]
           /\ DeleteVersion(g, v).edges = {e \in g.edges : e.version # v}
           /\ DeleteVersion(g, v).claims = {c \in g.claims : c[1] # v}
<1> DEFINE mine == {n \in NodeIds : /\ <<v, n>> \in g.claims
                                    /\ \A u \in Versions \ {v} : <<u, n>> \notin g.claims}
           node == [n \in NodeIds |-> IF n \in mine THEN None ELSE g.node[n]]
<1>1. node \in [NodeIds -> Versions \cup Documents \cup {None}]
  BY GraphFields
<1>2. DeleteVersion(g, v) = [node   |-> node,
                             edges  |-> {e \in g.edges : e.version # v},
                             claims |-> {c \in g.claims : c[1] # v}]
  BY DEF DeleteVersion
<1>3. \A n \in NodeIds : node[n] =
         IF <<v, n>> \in g.claims /\ \A u \in Versions \ {v} : <<u, n>> \notin g.claims
         THEN None ELSE g.node[n]
  OBVIOUS
<1> HIDE DEF node, mine
<1>4. {e \in g.edges : e.version # v} \in SUBSET Edges  BY GraphFields
<1>5. {c \in g.claims : c[1] # v} \in SUBSET (Versions \X (NodeIds \ Documents))
  BY GraphFields
<1>6. DeleteVersion(g, v) \in Graphs  BY <1>1, <1>2, <1>4, <1>5 DEF Graphs
<1>7. DeleteVersion(g, v).node = node  BY <1>2
<1> QED  BY <1>2, <1>3, <1>6, <1>7

LEMMA DeleteEdgesGives ==
    ASSUME NEW g \in Graphs, NEW v \in Versions
    PROVE  /\ DeleteEdges(g, v) \in Graphs
           /\ DeleteEdges(g, v).node = g.node
           /\ DeleteEdges(g, v).edges = {e \in g.edges : e.version # v}
           /\ DeleteEdges(g, v).claims = g.claims
<1>1. DeleteEdges(g, v) = [node |-> g.node, edges |-> {e \in g.edges : e.version # v},
                           claims |-> g.claims]
  BY Rewritten, Zenon DEF DeleteEdges
<1>2. {e \in g.edges : e.version # v} \in SUBSET Edges  BY GraphFields
<1>3. DeleteEdges(g, v) \in Graphs  BY <1>1, <1>2, GraphFields DEF Graphs
<1> QED  BY <1>1, <1>3

LEMMA DetachGives ==
    ASSUME NEW g \in Graphs, NEW ns \in SUBSET NodeIds
    PROVE  /\ Detach(g, ns) \in Graphs
           /\ \A n \in NodeIds : Detach(g, ns).node[n] =
                 IF n \in ns THEN None ELSE g.node[n]
           /\ Detach(g, ns).edges = {e \in g.edges : e.from \notin ns /\ e.to \notin ns}
           /\ Detach(g, ns).claims = g.claims
<1> DEFINE node == [n \in NodeIds |-> IF n \in ns THEN None ELSE g.node[n]]
           edges == {e \in g.edges : e.from \notin ns /\ e.to \notin ns}
<1>1. node \in [NodeIds -> Versions \cup Documents \cup {None}]
  BY GraphFields
<1>2. Detach(g, ns) = [node |-> node, edges |-> edges, claims |-> g.claims]
  BY DEF Detach
<1>3. \A n \in NodeIds : node[n] = IF n \in ns THEN None ELSE g.node[n]
  OBVIOUS
<1> HIDE DEF node
<1>4. edges \in SUBSET Edges  BY GraphFields
<1>5. g.claims \in SUBSET (Versions \X (NodeIds \ Documents))  BY GraphFields
<1>6. Detach(g, ns) \in Graphs  BY <1>1, <1>2, <1>4, <1>5 DEF Graphs
<1>7. Detach(g, ns).node = node  BY <1>2
<1> QED  BY <1>2, <1>3, <1>6, <1>7

-----------------------------------------------------------------------------
(* What a statement leaves of the others' parts of the graph.              *)

Stores == {"in-memory", "neo4j"}

Keeps(b, g, h, u) ==
    /\ Gone(g, u) => Gone(h, u)
    /\ EdgesGone(g, u) => EdgesGone(h, u)
    /\ NodesHeld(b, g, u) => NodesHeld(b, h, u)
    /\ EdgesHeld(g, u) => EdgesHeld(h, u)

(* Nodes written over: those that were held are held. *)
LEMMA NodesWritten ==
    ASSUME NEW b \in Stores, NEW g \in Graphs, NEW h, WellKept(b, g),
           NEW v \in Versions, NEW ns \in SUBSET NodeIds, ns \cap Versions \subseteq {v},
           h = IF b = "neo4j" THEN MergeNodes(g, v, ns) ELSE UpsertNodes(g, v, ns)
    PROVE  /\ h \in Graphs /\ WellKept(b, h)
           /\ \A u \in Versions \ {v} : Keeps(b, g, h, u)
           /\ NodesHeld(b, g, v) => NodesHeld(b, h, v)
           /\ EdgesHeld(g, v) => EdgesHeld(h, v)
           /\ ns = StructureNodes(v) => NodesHeld(b, h, v)
<1>0. /\ h \in Graphs /\ h.edges = g.edges
      /\ \A n \in NodeIds : h.node[n] =
            IF n \notin ns THEN g.node[n] ELSE IF n \in Documents THEN n ELSE v
      /\ b = "in-memory" => h.claims = g.claims \cup ({v} \X (ns \ Documents))
      /\ b = "neo4j" => h.claims = {}
  <2>1. CASE b = "neo4j"
    BY <2>1, MergeNodesGives
  <2>2. CASE b = "in-memory"
    BY <2>2, UpsertNodesGives
  <2> QED  BY <2>1, <2>2 DEF Stores
<1>1. \A n \in ns : h.node[n] # None
  BY <1>0, Ids
<1>2. \A n \in NodeIds : g.node[n] # None => h.node[n] # None
  BY <1>0, <1>1
<1>3. \A n \in Documents \cup Versions : h.node[n] \in {n, None}
  <2>1. ASSUME NEW n \in Documents  PROVE h.node[n] \in {n, None}
    BY <1>0, <2>1, Ids DEF WellKept
  <2>2. ASSUME NEW n \in Versions  PROVE h.node[n] \in {n, None}
    <3>1. CASE n \in ns
      BY <1>0, <3>1, Ids
    <3>2. CASE n \notin ns
      BY <1>0, <3>2, Ids DEF WellKept
    <3> QED  BY <3>1, <3>2
  <2> QED  BY <2>1, <2>2
<1>4. \A c \in h.claims : h.node[c[2]] # None /\ (c[2] \in Versions => c[1] = c[2])
  <2> SUFFICES ASSUME NEW c \in h.claims
               PROVE  h.node[c[2]] # None /\ (c[2] \in Versions => c[1] = c[2])
    OBVIOUS
  <2>1. b = "in-memory"  BY <1>0 DEF Stores
  <2>2. CASE c \in g.claims
    <3>1. c[2] \in NodeIds  BY <2>2, GraphFields
    <3> QED  BY <2>2, <3>1, <1>2 DEF WellKept
  <2>3. CASE c \in {v} \X (ns \ Documents)
    BY <2>3, <1>1
  <2> QED  BY <1>0, <2>1, <2>2, <2>3
<1>5. b = "in-memory" => \A u \in Versions : h.node[u] # None => <<u, u>> \in h.claims
  <2> SUFFICES ASSUME b = "in-memory", NEW u \in Versions, h.node[u] # None
               PROVE  <<u, u>> \in h.claims
    OBVIOUS
  <2>1. CASE u \in ns
    <3>1. u = v /\ u \notin Documents  BY <2>1, Ids
    <3> QED  BY <1>0, <2>1, <3>1
  <2>2. CASE u \notin ns
    BY <1>0, <2>2, Ids DEF WellKept
  <2> QED  BY <2>1, <2>2
<1>6. WellKept(b, h)
  BY <1>0, <1>3, <1>4, <1>5 DEF WellKept
<1>7. \A u \in Versions : NodesHeld(b, g, u) => NodesHeld(b, h, u)
  <2> SUFFICES ASSUME NEW u \in Versions, NodesHeld(b, g, u), NEW n \in StructureNodes(u)
               PROVE  /\ h.node[n] # None
                      /\ b = "in-memory" /\ n \notin Documents => <<u, n>> \in h.claims
    BY DEF NodesHeld
  <2>1. n \in NodeIds  BY StructureOf
  <2> QED  BY <1>0, <1>2, <2>1 DEF NodesHeld
<1>8. ASSUME NEW u \in Versions \ {v}  PROVE Keeps(b, g, h, u)
  <2>1. h.node[u] = g.node[u]  BY <1>0, <1>8, Ids
  <2> QED  BY <1>0, <1>7, <2>1 DEF Keeps, Gone, EdgesGone, EdgesHeld
<1>9. ns = StructureNodes(v) => NodesHeld(b, h, v)
  <2> SUFFICES ASSUME ns = StructureNodes(v), NEW n \in ns
               PROVE  /\ h.node[n] # None
                      /\ b = "in-memory" /\ n \notin Documents => <<v, n>> \in h.claims
    BY DEF NodesHeld
  <2> QED  BY <1>0, <1>1
<1> QED  BY <1>0, <1>6, <1>7, <1>8, <1>9 DEF EdgesHeld

(* Edges written, of one version. *)
LEMMA EdgesWritten ==
    ASSUME NEW b \in Stores, NEW g \in Graphs, NEW h, WellKept(b, g),
           NEW v \in Versions, NEW es \in SUBSET Edges, \A e \in es : e.version = v,
           h = IF b = "neo4j" THEN MergeEdges(g, es) ELSE UpsertEdges(g, es)
    PROVE  /\ h \in Graphs /\ WellKept(b, h)
           /\ \A u \in Versions \ {v} : Keeps(b, g, h, u)
           /\ NodesHeld(b, g, v) => NodesHeld(b, h, v)
           /\ EdgesHeld(g, v) => EdgesHeld(h, v)
           /\ es = StructureEdges(v) /\ NodesHeld(b, g, v) => EdgesHeld(h, v)
<1> DEFINE linked == {e \in es : g.node[e.from] # None /\ g.node[e.to] # None}
<1>1. PICK new \in SUBSET es :
         /\ h \in Graphs /\ h.node = g.node /\ h.claims = g.claims
         /\ h.edges = g.edges \cup new
         /\ new = es \/ new = linked
  <2>1. CASE b = "neo4j"
    <3>1. h = UpsertEdges(g, linked)  BY <2>1, Zenon DEF MergeEdges
    <3>2. linked \in SUBSET Edges /\ linked \in SUBSET es  OBVIOUS
    <3> HIDE DEF linked
    <3> QED  BY <3>1, <3>2, UpsertEdgesGives
  <2>2. CASE b # "neo4j"
    BY <2>2, UpsertEdgesGives
  <2> QED  BY <2>1, <2>2
<1>2. WellKept(b, h)
  BY <1>1 DEF WellKept
<1>3. \A u \in Versions :
         /\ NodesHeld(b, g, u) => NodesHeld(b, h, u)
         /\ EdgesHeld(g, u) => EdgesHeld(h, u)
  BY <1>1 DEF NodesHeld, EdgesHeld
<1>4. ASSUME NEW u \in Versions \ {v}  PROVE Keeps(b, g, h, u)
  BY <1>1, <1>3 DEF Keeps, Gone, EdgesGone
<1>5. es = StructureEdges(v) /\ NodesHeld(b, g, v) => EdgesHeld(h, v)
  <2> SUFFICES ASSUME es = StructureEdges(v), NodesHeld(b, g, v)
               PROVE  es \subseteq h.edges
    BY DEF EdgesHeld
  <2>1. es \subseteq linked  BY StructureOf DEF NodesHeld
  <2> QED  BY <1>1, <2>1
<1> QED  BY <1>1, <1>2, <1>3, <1>4, <1>5

(* delete_subgraph_for_version, in memory: of v nothing is left, and what   *)
(* others claim stands.                                                    *)
LEMMA VersionDeleted ==
    ASSUME NEW g \in Graphs, WellKept("in-memory", g), NEW v \in Versions,
           NEW h, h = DeleteVersion(g, v)
    PROVE  /\ h \in Graphs /\ WellKept("in-memory", h)
           /\ \A u \in Versions \ {v} : Keeps("in-memory", g, h, u)
           /\ Gone(h, v)
<1>1. /\ h \in Graphs
      /\ \A n \in NodeIds : h.node[n] =
            IF <<v, n>> \in g.claims /\ \A u \in Versions \ {v} : <<u, n>> \notin g.claims
            THEN None ELSE g.node[n]
      /\ h.edges = {e \in g.edges : e.version # v}
      /\ h.claims = {c \in g.claims : c[1] # v}
  BY DeleteVersionGives
<1>2. ASSUME NEW u \in Versions \ {v}, NEW n \in NodeIds, <<u, n>> \in g.claims
      PROVE  h.node[n] = g.node[n] /\ <<u, n>> \in h.claims
  BY <1>1, <1>2
<1>3. ASSUME NEW d \in Documents  PROVE h.node[d] = g.node[d]
  <2>1. <<v, d>> \notin g.claims  BY GraphFields
  <2>2. d \in NodeIds  BY Ids
  <2> QED  BY <1>1, <2>1, <2>2
<1>4. \A n \in Documents \cup Versions : h.node[n] \in {n, None}
  <2> SUFFICES ASSUME NEW n \in Documents \cup Versions  PROVE h.node[n] \in {n, None}
    OBVIOUS
  <2>1. n \in NodeIds  BY Ids
  <2>2. g.node[n] \in {n, None}  BY DEF WellKept
  <2> QED  BY <1>1, <2>1, <2>2
<1>5. ASSUME NEW c \in h.claims
      PROVE  h.node[c[2]] # None /\ (c[2] \in Versions => c[1] = c[2])
  <2>1. c \in g.claims /\ c[1] # v  BY <1>1, <1>5
  <2>2. c[1] \in Versions /\ c[2] \in NodeIds /\ c = <<c[1], c[2]>>
    BY <2>1, GraphFields
  <2>3. h.node[c[2]] = g.node[c[2]]  BY <1>2, <2>1, <2>2
  <2> QED  BY <2>1, <2>3 DEF WellKept
<1>6. ASSUME NEW u \in Versions, h.node[u] # None  PROVE <<u, u>> \in h.claims
  <2>1. u \in NodeIds  BY Ids
  <2>2. g.node[u] # None  BY <1>1, <1>6, <2>1
  <2>3. <<u, u>> \in g.claims  BY <2>2 DEF WellKept
  <2>4. u # v
    <3> SUFFICES ASSUME u = v  PROVE FALSE
      OBVIOUS
    <3>1. \A w \in Versions \ {v} : <<w, v>> \notin g.claims
      BY DEF WellKept
    <3> QED  BY <1>1, <1>6, <2>1, <2>3, <3>1
  <2> QED  BY <1>1, <2>3, <2>4
<1>7. WellKept("in-memory", h)
  BY <1>4, <1>5, <1>6 DEF WellKept
<1>8. Gone(h, v)
  <2>1. v \in NodeIds  BY Ids
  <2>2. h.node[v] = None
    <3> SUFFICES ASSUME h.node[v] # None  PROVE FALSE
      OBVIOUS
    <3>1. <<v, v>> \in h.claims  BY <1>6
    <3> QED  BY <1>1, <3>1
  <2> QED  BY <1>1, <2>2 DEF Gone, EdgesGone
<1>9. ASSUME NEW u \in Versions \ {v}  PROVE Keeps("in-memory", g, h, u)
  <2>1. Gone(g, u) => Gone(h, u)
    <3>1. u \in NodeIds  BY Ids
    <3> QED  BY <1>1, <3>1 DEF Gone, EdgesGone
  <2>2. EdgesGone(g, u) => EdgesGone(h, u)
    BY <1>1 DEF EdgesGone
  <2>3. NodesHeld("in-memory", g, u) => NodesHeld("in-memory", h, u)
    <3> SUFFICES ASSUME NodesHeld("in-memory", g, u), NEW n \in StructureNodes(u)
                 PROVE  h.node[n] # None /\ (n \notin Documents => <<u, n>> \in h.claims)
      BY DEF NodesHeld
    <3>1. n \in NodeIds  BY StructureOf
    <3>2. CASE n \in Documents
      BY <1>3, <3>2 DEF NodesHeld
    <3>3. CASE n \notin Documents
      BY <1>2, <3>1, <3>3 DEF NodesHeld
    <3> QED  BY <3>2, <3>3
  <2>4. EdgesHeld(g, u) => EdgesHeld(h, u)
    BY <1>1, StructureOf DEF EdgesHeld
  <2> QED  BY <2>1, <2>2, <2>3, <2>4 DEF Keeps
<1> QED  BY <1>1, <1>7, <1>8, <1>9

(* Neo4j's first statement. *)
LEMMA EdgesDeleted ==
    ASSUME NEW g \in Graphs, WellKept("neo4j", g), NEW v \in Versions,
           NEW h, h = DeleteEdges(g, v)
    PROVE  /\ h \in Graphs /\ WellKept("neo4j", h)
           /\ \A u \in Versions \ {v} : Keeps("neo4j", g, h, u)
           /\ EdgesGone(h, v) /\ (Gone(g, v) => Gone(h, v))
<1>1. /\ h \in Graphs /\ h.node = g.node /\ h.claims = g.claims
      /\ h.edges = {e \in g.edges : e.version # v}
  BY DeleteEdgesGives
<1>2. WellKept("neo4j", h)
  BY <1>1 DEF WellKept
<1>3. ASSUME NEW u \in Versions \ {v}  PROVE Keeps("neo4j", g, h, u)
  <2>1. EdgesHeld(g, u) => EdgesHeld(h, u)
    BY <1>1, StructureOf DEF EdgesHeld
  <2> QED  BY <1>1, <2>1 DEF Keeps, Gone, EdgesGone, NodesHeld
<1> QED  BY <1>1, <1>2, <1>3 DEF Gone, EdgesGone

(* DETACH DELETE, of nodes that are not u's. *)
LEMMA Detached ==
    ASSUME NEW g \in Graphs, WellKept("neo4j", g), NEW ns \in SUBSET NodeIds,
           NEW h, h = Detach(g, ns)
    PROVE  /\ h \in Graphs /\ WellKept("neo4j", h)
           /\ \A u \in Versions : Gone(g, u) => Gone(h, u)
           /\ \A u \in Versions : EdgesGone(g, u) => EdgesGone(h, u)
           /\ \A u \in Versions : StructureNodes(u) \cap ns = {} => Keeps("neo4j", g, h, u)
<1>1. /\ h \in Graphs /\ h.claims = g.claims
      /\ \A n \in NodeIds : h.node[n] = IF n \in ns THEN None ELSE g.node[n]
      /\ h.edges = {e \in g.edges : e.from \notin ns /\ e.to \notin ns}
  BY DetachGives
<1>2. WellKept("neo4j", h)
  <2>1. \A n \in Documents \cup Versions : h.node[n] \in {n, None}
    <3> SUFFICES ASSUME NEW n \in Documents \cup Versions  PROVE h.node[n] \in {n, None}
      OBVIOUS
    <3>1. n \in NodeIds  BY Ids
    <3>2. g.node[n] \in {n, None}  BY DEF WellKept
    <3> QED  BY <1>1, <3>1, <3>2
  <2> QED  BY <1>1, <2>1 DEF WellKept
<1>3. ASSUME NEW u \in Versions
      PROVE  /\ EdgesGone(g, u) => EdgesGone(h, u)
             /\ Gone(g, u) => Gone(h, u)
  <2>1. u \in NodeIds  BY Ids
  <2> QED  BY <1>1, <2>1 DEF Gone, EdgesGone
<1>4. ASSUME NEW u \in Versions, StructureNodes(u) \cap ns = {}
      PROVE  Keeps("neo4j", g, h, u)
  <2>1. NodesHeld("neo4j", g, u) => NodesHeld("neo4j", h, u)
    <3> SUFFICES ASSUME NodesHeld("neo4j", g, u), NEW n \in StructureNodes(u)
                 PROVE  h.node[n] # None
      BY DEF NodesHeld
    <3>1. n \in NodeIds /\ n \notin ns  BY <1>4, StructureOf
    <3> QED  BY <1>1, <3>1 DEF NodesHeld
  <2>2. EdgesHeld(g, u) => EdgesHeld(h, u)
    <3> SUFFICES ASSUME EdgesHeld(g, u), NEW e \in StructureEdges(u)
                 PROVE  e \in h.edges
      BY DEF EdgesHeld
    <3>1. e \in g.edges  BY DEF EdgesHeld
    <3>2. e.from \notin ns /\ e.to \notin ns  BY <1>4, StructureOf
    <3> QED  BY <1>1, <3>1, <3>2
  <2> QED  BY <1>3, <2>1, <2>2 DEF Keeps
<1> QED  BY <1>1, <1>2, <1>3, <1>4

(* Neo4j's second statement: a document's node names no version, so it is   *)
(* the version's own that goes.                                            *)
LEMMA VersionDetached ==
    ASSUME NEW g \in Graphs, WellKept("neo4j", g), NEW v \in Versions,
           NEW h, h = DetachVersion(g, v)
    PROVE  /\ h \in Graphs /\ WellKept("neo4j", h)
           /\ \A u \in Versions \ {v} : Keeps("neo4j", g, h, u)
           /\ EdgesGone(g, v) => Gone(h, v)
           /\ Gone(g, v) => Gone(h, v)
<1> DEFINE ns == {n \in Documents \cup Versions : g.node[n] = v}
<1>1. h = Detach(g, ns)  BY DEF DetachVersion
<1>2. ns \in SUBSET NodeIds  BY Ids
<1>3. ns \subseteq {v}
  <2> SUFFICES ASSUME NEW n \in Documents \cup Versions, g.node[n] = v  PROVE n = v
    OBVIOUS
  <2>1. g.node[n] \in {n, None}  BY DEF WellKept
  <2>2. v # None  BY Ids
  <2> QED  BY <2>1, <2>2
<1>4. h.node[v] = None
  <2>1. v \in NodeIds  BY Ids
  <2>2. g.node[v] \in {v, None}  BY DEF WellKept
  <2>3. h.node[v] = IF v \in ns THEN None ELSE g.node[v]
    <3> HIDE DEF ns
    <3> QED  BY <1>1, <1>2, <2>1, DetachGives
  <2> QED  BY <2>2, <2>3
<1> HIDE DEF ns
<1>5. /\ h \in Graphs /\ WellKept("neo4j", h)
      /\ EdgesGone(g, v) => EdgesGone(h, v)
      /\ \A u \in Versions : StructureNodes(u) \cap ns = {} => Keeps("neo4j", g, h, u)
  BY <1>1, <1>2, Detached
<1>6. \A u \in Versions \ {v} : StructureNodes(u) \cap ns = {}
  BY <1>3, StructureOf
<1> QED  BY <1>4, <1>5, <1>6 DEF Gone

(* Neo4j's third statement. *)
LEMMA EntitiesCollected ==
    ASSUME NEW g \in Graphs, WellKept("neo4j", g), NEW h, h = CollectEntities(g)
    PROVE  /\ h \in Graphs /\ WellKept("neo4j", h)
           /\ \A u \in Versions : Keeps("neo4j", g, h, u)
<1> DEFINE ns == {n \in Entities : \A e \in g.edges : e.to # n}
<1>1. h = Detach(g, ns)  BY DEF CollectEntities
<1>2. ns \in SUBSET NodeIds /\ ns \subseteq Entities  BY Ids
<1> HIDE DEF ns
<1>3. \A u \in Versions : StructureNodes(u) \cap ns = {}
  BY <1>2, StructureOf
<1> QED  BY <1>1, <1>2, <1>3, Detached

-----------------------------------------------------------------------------
(* A step of one thread, at its own version, leaves the invariants of all.  *)

Moves(t) ==
    /\ task' \in [Tasks -> {Idle} \cup Works]
    /\ \A x \in Tasks \ {t} : task'[x] = task[x]

LEMMA BackendKnown ==
    ASSUME IInv  PROVE backend \in Stores
  BY ProjectionAssumption DEF IInv, TypeOK, Stores

(* What a projection's step has to show of its own version's copy: it comes *)
(* back to the nodes, or it puts them, or it puts the edges, or it leaves  *)
(* what is there.                                                          *)
CopyStep(t, v) ==
    \/ DocumentOf[v] \in archived
    \/ task'[t].step \in BeforeNodes /\ task'[t] # Idle
    \/ /\ task[t].step \in BeforeNodes =>
             NodesHeld(backend, graph', v) /\ task'[t] # Idle /\ task'[t].step = "edges"
       /\ NodesHeld(backend, graph, v) => NodesHeld(backend, graph', v)
       /\ EdgesHeld(graph, v) => EdgesHeld(graph', v)
       /\ task[t].step = "edges" /\ NodesHeld(backend, graph, v) => EdgesHeld(graph', v)

LEMMA ProjectionStep ==
    ASSUME IInv, NEW t \in Tasks, NEW v \in Versions, task[t] \in Works,
           task[t].op \in Projections, task[t].version = v, Moves(t),
           UNCHANGED <<backend, status, archived>>, cut \subseteq cut',
           task'[t] # Idle => task'[t].op = task[t].op /\ task'[t].version = v,
           task'[t].step \in Writing =>
              task[t].step \in Writing \/ DocumentOf[v] \notin archived,
           task'[t].step \in {"detach", "collect"} => backend = "neo4j",
           task'[t] # Idle /\ task'[t].op = "reconcile" => task'[t].step \in Writing,
           task'[t].step # "tombstone",
           WellKept(backend, graph'),
           \A u \in Versions \ {v} : Keeps(backend, graph, graph', u),
           graph' = graph \/ task[t].step \in Writing,
           CopyStep(t, v) \/ v \in cut'
    PROVE  TaskInv' /\ FlightInv' /\ WellKept(backend, graph)' /\ PurgeInv' /\ CopyInv'
<1>1. "purge" \notin Projections  BY DEF Projections
<1>2. TaskInv'
  <2> SUFFICES ASSUME NEW x \in Tasks, task'[x] # Idle
               PROVE  /\ task'[x].step \in {"detach", "collect"} => backend = "neo4j"
                      /\ task'[x].op = "reconcile" => task'[x].step \in Writing
                      /\ task'[x].op = "purge" =>
                            /\ task'[x].step \in {"tombstone", "clear", "detach", "collect"}
                            /\ \A u \in task'[x].todo \cup {task'[x].version} :
                                  DocumentOf[u] \in archived
                      /\ task'[x].op \in Projections => task'[x].step # "tombstone"
    BY DEF TaskInv
  <2>1. CASE x = t
    BY <2>1, <1>1
  <2>2. CASE x # t
    <3>1. task'[x] = task[x]  BY <2>2 DEF Moves
    <3> QED  BY <3>1 DEF IInv, TaskInv
  <2> QED  BY <2>1, <2>2
<1>3. FlightInv'
  <2> SUFFICES ASSUME NEW u \in Versions, DocumentOf[u] \in archived, u \notin cut',
                      NEW x \in Tasks, task'[x].op \in Projections,
                      task'[x].version = u, task'[x].step \in Writing
               PROVE  FALSE
    BY DEF FlightInv, InFlight
  <2>1. ~InFlight(u)  BY DEF IInv, FlightInv
  <2>2. CASE x = t
    <3>1. task'[t] # Idle  BY <2>2, IdleFields DEF Projections
    <3>2. u = v  BY <2>2, <3>1
    <3> QED  BY <2>1, <2>2, <3>2 DEF InFlight
  <2>3. CASE x # t
    BY <2>1, <2>3 DEF Moves, InFlight
  <2> QED  BY <2>2, <2>3
<1>4. PurgeInv'
  <2> SUFFICES ASSUME NEW u \in Versions, status[u] = "PURGED", u \notin cut'
               PROVE  /\ DocumentOf[u] \in archived
                      /\ Gone(graph', u) \/ \E x \in Tasks : Cleaning(x, u)'
    BY DEF PurgeInv
  <2>1. /\ DocumentOf[u] \in archived
        /\ Gone(graph, u) \/ \E x \in Tasks : Cleaning(x, u)
    BY DEF IInv, PurgeInv
  <2>2. /\ Gone(graph, u) => Gone(graph', u)
        /\ EdgesGone(graph, u) => EdgesGone(graph', u)
    <3>1. CASE u = v
      <4>1. ~InFlight(v)  BY <2>1, <3>1 DEF IInv, FlightInv
      <4>2. graph' = graph  BY <4>1 DEF InFlight
      <4> QED  BY <4>2
    <3>2. CASE u # v
      BY <3>2 DEF Keeps
    <3> QED  BY <3>1, <3>2
  <2>3. ASSUME NEW x \in Tasks, Cleaning(x, u)  PROVE Cleaning(x, u)'
    <3>1. x # t  BY <1>1, <2>3 DEF Cleaning
    <3>2. task'[x] = task[x]  BY <3>1 DEF Moves
    <3> QED  BY <2>2, <2>3, <3>2 DEF Cleaning
  <2> QED  BY <2>1, <2>2, <2>3
<1>5. CopyInv'
  <2> SUFFICES ASSUME NEW u \in Versions, status[u] = "VALIDATED",
                      DocumentOf[u] \notin archived, u \notin cut'
               PROVE  \/ \E x \in Tasks : Projecting(x, u, BeforeNodes)'
                      \/ /\ NodesHeld(backend, graph', u)
                         /\ EdgesHeld(graph', u)
                               \/ \E x \in Tasks : Projecting(x, u, {"edges"})'
    BY DEF CopyInv
  <2>1. \/ \E x \in Tasks : Projecting(x, u, BeforeNodes)
        \/ /\ NodesHeld(backend, graph, u)
           /\ EdgesHeld(graph, u) \/ \E x \in Tasks : Projecting(x, u, {"edges"})
    BY DEF IInv, CopyInv
  <2>2. \A x \in Tasks \ {t} : \A steps : Projecting(x, u, steps) => Projecting(x, u, steps)'
    BY DEF Projecting, Moves
  <2>3. CASE u # v
    <3>1. \A steps : ~Projecting(t, u, steps)  BY <2>3 DEF Projecting
    <3>2. Keeps(backend, graph, graph', u)  BY <2>3
    <3> QED  BY <2>1, <2>2, <3>1, <3>2 DEF Keeps
  <2>4. CASE u = v /\ task'[t].step \in BeforeNodes /\ task'[t] # Idle
    <3>1. Projecting(t, u, BeforeNodes)'  BY <2>4 DEF Projecting
    <3> QED  BY <3>1
  <2>5. CASE u = v /\ ~(task'[t].step \in BeforeNodes /\ task'[t] # Idle)
    <3>1. /\ task[t].step \in BeforeNodes =>
                NodesHeld(backend, graph', v) /\ task'[t] # Idle /\ task'[t].step = "edges"
          /\ NodesHeld(backend, graph, v) => NodesHeld(backend, graph', v)
          /\ EdgesHeld(graph, v) => EdgesHeld(graph', v)
          /\ task[t].step = "edges" /\ NodesHeld(backend, graph, v) => EdgesHeld(graph', v)
      BY <2>5 DEF CopyStep
    <3>2. CASE task[t].step \in BeforeNodes
      <4>1. Projecting(t, u, {"edges"})'  BY <2>5, <3>1, <3>2 DEF Projecting
      <4> QED  BY <2>5, <3>1, <3>2, <4>1
    <3>3. CASE task[t].step \notin BeforeNodes
      <4>1. ~Projecting(t, u, BeforeNodes)  BY <3>3 DEF Projecting
      <4>2. CASE \E x \in Tasks : Projecting(x, u, BeforeNodes)
        BY <2>2, <4>1, <4>2
      <4>3. CASE NodesHeld(backend, graph, u) /\ EdgesHeld(graph, u)
        BY <2>5, <3>1, <4>3
      <4>4. CASE NodesHeld(backend, graph, u) /\ \E x \in Tasks : Projecting(x, u, {"edges"})
        <5>1. PICK x \in Tasks : Projecting(x, u, {"edges"})  BY <4>4
        <5>2. CASE x = t
          <6>1. task[t].step = "edges"  BY <5>1, <5>2 DEF Projecting
          <6> QED  BY <2>5, <3>1, <4>4, <6>1
        <5>3. CASE x # t
          <6>1. Projecting(x, u, {"edges"})'  BY <2>2, <5>1, <5>3
          <6> QED  BY <2>5, <3>1, <4>4, <6>1
        <5> QED  BY <5>2, <5>3
      <4> QED  BY <2>1, <4>2, <4>3, <4>4
    <3> QED  BY <3>2, <3>3
  <2> QED  BY <2>3, <2>4, <2>5
<1> QED  BY <1>2, <1>3, <1>4, <1>5

(* And a purge's, whose versions are of an archived document. *)
LEMMA PurgeStep ==
    ASSUME IInv, NEW t \in Tasks, NEW v \in Versions, task[t] \in Works,
           task[t].op = "purge", task[t].version = v, Moves(t),
           UNCHANGED <<backend, status, archived>>, cut \subseteq cut',
           task'[t] # Idle =>
              /\ task'[t].op = "purge"
              /\ task'[t].step \in {"tombstone", "clear", "detach", "collect"}
              /\ task'[t].todo \cup {task'[t].version} \subseteq task[t].todo \cup {v},
           task'[t].step \in {"detach", "collect"} => backend = "neo4j",
           WellKept(backend, graph'),
           \A u \in Versions \ {v} : Keeps(backend, graph, graph', u),
           Gone(graph, v) => Gone(graph', v),
           EdgesGone(graph, v) => EdgesGone(graph', v),
           \A u \in task[t].todo : Cleaning(t, u)' \/ u \in cut',
           v \notin task[t].todo /\ Cleaning(t, v) =>
              v \in cut' \/ Gone(graph', v) \/ Cleaning(t, v)'
    PROVE  TaskInv' /\ FlightInv' /\ WellKept(backend, graph)' /\ PurgeInv' /\ CopyInv'
<1>1. "purge" \notin Projections /\ "reconcile" # "purge" /\ task[t] # Idle
  BY WorkFields DEF Projections
<1>2. \A u \in task[t].todo \cup {v} : DocumentOf[u] \in archived
  BY <1>1 DEF IInv, TaskInv
<1>3. TaskInv'
  <2> SUFFICES ASSUME NEW x \in Tasks, task'[x] # Idle
               PROVE  /\ task'[x].step \in {"detach", "collect"} => backend = "neo4j"
                      /\ task'[x].op = "reconcile" => task'[x].step \in Writing
                      /\ task'[x].op = "purge" =>
                            /\ task'[x].step \in {"tombstone", "clear", "detach", "collect"}
                            /\ \A u \in task'[x].todo \cup {task'[x].version} :
                                  DocumentOf[u] \in archived
                      /\ task'[x].op \in Projections => task'[x].step # "tombstone"
    BY DEF TaskInv
  <2>1. CASE x = t
    BY <2>1, <1>1, <1>2
  <2>2. CASE x # t
    <3>1. task'[x] = task[x]  BY <2>2 DEF Moves
    <3> QED  BY <3>1 DEF IInv, TaskInv
  <2> QED  BY <2>1, <2>2
<1>4. \A x \in Tasks : task'[x].op \in Projections => x # t /\ task'[x] = task[x]
  BY <1>1, IdleFields DEF Moves, Projections
<1>5. FlightInv'
  BY <1>4 DEF IInv, FlightInv, InFlight
<1>6. PurgeInv'
  <2> SUFFICES ASSUME NEW u \in Versions, status[u] = "PURGED", u \notin cut'
               PROVE  /\ DocumentOf[u] \in archived
                      /\ Gone(graph', u) \/ \E x \in Tasks : Cleaning(x, u)'
    BY DEF PurgeInv
  <2>1. /\ DocumentOf[u] \in archived
        /\ Gone(graph, u) \/ \E x \in Tasks : Cleaning(x, u)
    BY DEF IInv, PurgeInv
  <2>2. /\ Gone(graph, u) => Gone(graph', u)
        /\ EdgesGone(graph, u) => EdgesGone(graph', u)
    BY DEF Keeps
  <2>3. ASSUME NEW x \in Tasks \ {t}, Cleaning(x, u)  PROVE Cleaning(x, u)'
    <3>1. task'[x] = task[x]  BY DEF Moves
    <3> QED  BY <2>2, <2>3, <3>1 DEF Cleaning
  <2>4. ASSUME Cleaning(t, u)  PROVE Gone(graph', u) \/ Cleaning(t, u)'
    <3>1. CASE u \in task[t].todo
      BY <3>1
    <3>2. CASE u \notin task[t].todo
      <4>1. u = v  BY <2>4, <3>2 DEF Cleaning
      <4> QED  BY <2>4, <3>2, <4>1
    <3> QED  BY <3>1, <3>2
  <2> QED  BY <2>1, <2>2, <2>3, <2>4
<1>7. CopyInv'
  <2> SUFFICES ASSUME NEW u \in Versions, status[u] = "VALIDATED",
                      DocumentOf[u] \notin archived, u \notin cut'
               PROVE  \/ \E x \in Tasks : Projecting(x, u, BeforeNodes)'
                      \/ /\ NodesHeld(backend, graph', u)
                         /\ EdgesHeld(graph', u)
                               \/ \E x \in Tasks : Projecting(x, u, {"edges"})'
    BY DEF CopyInv
  <2>1. \/ \E x \in Tasks : Projecting(x, u, BeforeNodes)
        \/ /\ NodesHeld(backend, graph, u)
           /\ EdgesHeld(graph, u) \/ \E x \in Tasks : Projecting(x, u, {"edges"})
    BY DEF IInv, CopyInv
  <2>2. \A x \in Tasks : \A steps : Projecting(x, u, steps) => Projecting(x, u, steps)'
    BY <1>1 DEF Projecting, Moves
  <2>3. Keeps(backend, graph, graph', u)  BY <1>2
  <2> QED  BY <2>1, <2>2, <2>3 DEF Keeps
<1> QED  BY <1>3, <1>5, <1>6, <1>7

(* The indicator: only the end of a tracked projection takes its thread     *)
(* away, and that writes an outcome.                                       *)
LEMMA StillRunning ==
    ASSUME IInv, NEW t \in Tasks, Moves(t),
           \A v \in Versions : tracker'[v] = "IN_PROGRESS" => tracker[v] = "IN_PROGRESS",
           task[t].op = "validate" =>
              task'[t].op = "validate" /\ task'[t].version = task[t].version
    PROVE  InProgressIsRunning'
<1> SUFFICES ASSUME NEW v \in Versions, tracker'[v] = "IN_PROGRESS"
             PROVE  \E x \in Tasks : task'[x].op = "validate" /\ task'[x].version = v
  BY DEF InProgressIsRunning
<1>1. PICK x \in Tasks : task[x].op = "validate" /\ task[x].version = v
  BY DEF IInv, InProgressIsRunning
<1>2. CASE x = t
  BY <1>1, <1>2
<1>3. CASE x # t
  BY <1>1, <1>3 DEF Moves
<1> QED  BY <1>2, <1>3

-----------------------------------------------------------------------------
(* One lemma per statement of a projection.                                *)

LEMMA Working ==
    ASSUME IInv, NEW t \in Tasks, task[t].step # "idle"
    PROVE  /\ task[t] \in Works /\ task[t] # Idle /\ task[t].version \in Versions
           /\ TypeOK /\ graph \in Graphs /\ WellKept(backend, graph)
           /\ \A g \in Graphs : \A u \in Versions : Keeps(backend, g, g, u)
  BY NotIdle, WorkFields DEF IInv, TypeOK, Keeps

LEMMA StepMarkStarted ==
    ASSUME IInv, NEW t \in Tasks, MarkStarted(t)
    PROVE  IInv'
<1> DEFINE v == task[t].version
<1>1. task[t].op = "validate" /\ task[t].step = "start"  BY DEF MarkStarted, At
<1>2. /\ task[t] \in Works /\ v \in Versions /\ TypeOK
      /\ graph \in Graphs /\ WellKept(backend, graph)
      /\ \A u \in Versions : Keeps(backend, graph, graph, u)
  BY <1>1, Working
<1>3. Moves(t) /\ task'[t] = [task[t] EXCEPT !.step = "read"] /\ task'[t] \in Works
  <2>1. Goto(t, "read") /\ "read" \in Steps  BY DEF MarkStarted, Steps
  <2> QED  BY <1>2, <2>1, Goes DEF Moves
<1>4. /\ task'[t].op = "validate" /\ task'[t].version = v /\ task'[t].step = "read"
      /\ task'[t] # Idle
  BY <1>1, <1>2, <1>3, IdleFields DEF Works
<1>5. UNCHANGED <<backend, status, archived, graph, cut>>
  BY DEF MarkStarted, catalog
<1>6. tracker' = [tracker EXCEPT ![v] = "IN_PROGRESS"]  BY DEF MarkStarted
<1>7. TypeOK'
  BY <1>2, <1>3, <1>5, <1>6 DEF TypeOK, Moves
<1>8. TaskInv' /\ FlightInv' /\ WellKept(backend, graph)' /\ PurgeInv' /\ CopyInv'
  <2>1. CopyStep(t, v)  BY <1>4 DEF CopyStep, BeforeNodes
  <2>2. "validate" \in Projections /\ "read" \notin Writing  BY DEF Projections, Writing
  <2> HIDE DEF v
  <2> QED  BY <1>1, <1>2, <1>3, <1>4, <1>5, <2>1, <2>2, ProjectionStep DEF v
<1>9. InProgressIsRunning'
  <2> SUFFICES ASSUME NEW u \in Versions, tracker'[u] = "IN_PROGRESS"
               PROVE  \E x \in Tasks : task'[x].op = "validate" /\ task'[x].version = u
    BY DEF InProgressIsRunning
  <2>1. CASE u = v
    BY <1>4, <2>1
  <2>2. CASE u # v
    <3>1. tracker[u] = "IN_PROGRESS"  BY <1>2, <1>6, <2>2 DEF TypeOK
    <3>2. PICK x \in Tasks : task[x].op = "validate" /\ task[x].version = u
      BY <3>1 DEF IInv, InProgressIsRunning
    <3> QED  BY <1>3, <2>2, <3>2 DEF Moves
  <2> QED  BY <2>1, <2>2
<1> QED  BY <1>7, <1>8, <1>9 DEF IInv

(* The other statements leave the tracker alone. *)
LEMMA ProjectionAdvances ==
    ASSUME IInv, NEW t \in Tasks, NEW v \in Versions, task[t] \in Works,
           task[t].op \in Projections, task[t].version = v, Moves(t),
           UNCHANGED <<backend, status, archived, tracker>>,
           cut \subseteq cut', cut' \in SUBSET Versions,
           task'[t] # Idle => task'[t].op = task[t].op /\ task'[t].version = v,
           task[t].op = "validate" => task'[t] # Idle,
           task'[t].step \in Writing =>
              task[t].step \in Writing \/ DocumentOf[v] \notin archived,
           task'[t].step \in {"detach", "collect"} => backend = "neo4j",
           task'[t] # Idle /\ task'[t].op = "reconcile" => task'[t].step \in Writing,
           task'[t].step # "tombstone",
           graph' \in Graphs, WellKept(backend, graph'),
           \A u \in Versions \ {v} : Keeps(backend, graph, graph', u),
           graph' = graph \/ task[t].step \in Writing,
           CopyStep(t, v) \/ v \in cut'
    PROVE  IInv'
<1>1. TypeOK'
  BY DEF IInv, TypeOK, Moves
<1>2. TaskInv' /\ FlightInv' /\ WellKept(backend, graph)' /\ PurgeInv' /\ CopyInv'
  BY ProjectionStep
<1>3. InProgressIsRunning'
  BY StillRunning
<1> QED  BY <1>1, <1>2, <1>3 DEF IInv

(* Those that only move on, or write. *)
LEMMA ProjectionGoes ==
    ASSUME IInv, NEW t \in Tasks, NEW v \in Versions, task[t] \in Works,
           task[t].op \in Projections, task[t].version = v,
           NEW s \in Steps \ {"tombstone"}, Goto(t, s),
           UNCHANGED <<backend, status, archived, tracker, cut>>,
           s \in Writing => task[t].step \in Writing \/ DocumentOf[v] \notin archived,
           s \in {"detach", "collect"} => backend = "neo4j",
           task[t].op = "reconcile" => s \in Writing,
           graph' \in Graphs, WellKept(backend, graph'),
           \A u \in Versions \ {v} : Keeps(backend, graph, graph', u),
           graph' = graph \/ task[t].step \in Writing,
           \/ DocumentOf[v] \in archived
           \/ s \in BeforeNodes
           \/ /\ task[t].step \in BeforeNodes => NodesHeld(backend, graph', v) /\ s = "edges"
              /\ NodesHeld(backend, graph, v) => NodesHeld(backend, graph', v)
              /\ EdgesHeld(graph, v) => EdgesHeld(graph', v)
              /\ task[t].step = "edges" /\ NodesHeld(backend, graph, v) =>
                    EdgesHeld(graph', v)
    PROVE  IInv'
<1>1. TypeOK  BY DEF IInv
<1>2. Moves(t) /\ task'[t] = [task[t] EXCEPT !.step = s] /\ task'[t] \in Works
  BY <1>1, Goes DEF Moves
<1>3. task'[t] # Idle /\ task'[t].op = task[t].op /\ task'[t].version = v /\ task'[t].step = s
  BY <1>2, IdleFields DEF Works
<1>4. cut' \in SUBSET Versions  BY <1>1 DEF TypeOK
<1>5. CopyStep(t, v)
  BY <1>3 DEF CopyStep
<1> QED  BY <1>2, <1>3, <1>4, <1>5, ProjectionAdvances

LEMMA StepReadDocument ==
    ASSUME IInv, NEW t \in Tasks, ReadDocument(t)
    PROVE  IInv'
<1>1. task[t].op = "validate" /\ task[t].step = "read"  BY DEF ReadDocument, At
<1>2. PICK v \in Versions : v = task[t].version  BY <1>1, Working
<1>3. /\ task[t] \in Works /\ graph \in Graphs /\ WellKept(backend, graph)
      /\ \A u \in Versions : Keeps(backend, graph, graph, u)
  BY <1>1, Working
<1>4. UNCHANGED <<backend, status, archived, tracker, cut, graph>>
  BY DEF ReadDocument, catalog
<1>5. "validate" \in Projections /\ "report" \notin Writing /\ "clear" \in BeforeNodes
      /\ {"report", "clear"} \subseteq Steps \ {"tombstone"}
  BY DEF Projections, Writing, Steps, BeforeNodes
<1>6. CASE DocumentOf[v] \in archived
  <2>1. Goto(t, "report")  BY <1>2, <1>6 DEF ReadDocument
  <2> QED  BY <1>1, <1>2, <1>3, <1>4, <1>5, <1>6, <2>1, ProjectionGoes
<1>7. CASE DocumentOf[v] \notin archived
  <2>1. Goto(t, "clear")  BY <1>2, <1>7 DEF ReadDocument
  <2> QED  BY <1>1, <1>2, <1>3, <1>4, <1>5, <1>7, <2>1, ProjectionGoes
<1> QED  BY <1>6, <1>7

LEMMA StepPutNodes ==
    ASSUME IInv, NEW t \in Tasks, PutNodes(t)
    PROVE  IInv'
<1>1. task[t].op \in Projections /\ task[t].step = "nodes"  BY DEF PutNodes, At
<1>2. PICK v \in Versions : v = task[t].version  BY <1>1, Working
<1>3. /\ task[t] \in Works /\ graph \in Graphs /\ WellKept(backend, graph)
      /\ backend \in Stores
  BY <1>1, Working, BackendKnown
<1>4. UNCHANGED <<backend, status, archived, tracker, cut>> /\ Goto(t, "edges")
  BY DEF PutNodes, catalog
<1>5. {"nodes", "edges"} \subseteq Writing /\ "edges" \in Steps \ {"tombstone"}
  BY DEF Writing, Steps
<1>6. /\ StructureNodes(v) \in SUBSET NodeIds
      /\ StructureNodes(v) \cap Versions \subseteq {v}
  BY StructureOf
<1>7. graph' = IF backend = "neo4j" THEN MergeNodes(graph, v, StructureNodes(v))
                                    ELSE UpsertNodes(graph, v, StructureNodes(v))
  BY <1>2 DEF PutNodes, WriteNodes
<1>8. /\ graph' \in Graphs /\ WellKept(backend, graph')
      /\ \A u \in Versions \ {v} : Keeps(backend, graph, graph', u)
      /\ NodesHeld(backend, graph', v)
      /\ EdgesHeld(graph, v) => EdgesHeld(graph', v)
  BY <1>3, <1>6, <1>7, NodesWritten
<1> QED  BY <1>1, <1>2, <1>3, <1>4, <1>5, <1>8, ProjectionGoes

LEMMA StepPutEdges ==
    ASSUME IInv, NEW t \in Tasks, PutEdges(t)
    PROVE  IInv'
<1>1. task[t].op \in Projections /\ task[t].step = "edges"  BY DEF PutEdges, At
<1>2. PICK v \in Versions : v = task[t].version  BY <1>1, Working
<1>3. /\ task[t] \in Works /\ graph \in Graphs /\ WellKept(backend, graph)
      /\ backend \in Stores
  BY <1>1, Working, BackendKnown
<1>4. UNCHANGED <<backend, status, archived, tracker, cut>> /\ Goto(t, "extract")
  BY DEF PutEdges, catalog
<1>5. /\ {"edges", "extract"} \subseteq Writing /\ "extract" \in Steps \ {"tombstone"}
      /\ "edges" \notin BeforeNodes
  BY DEF Writing, Steps, BeforeNodes
<1>6. /\ StructureEdges(v) \in SUBSET Edges
      /\ \A e \in StructureEdges(v) : e.version = v
  BY StructureOf
<1>7. graph' = IF backend = "neo4j" THEN MergeEdges(graph, StructureEdges(v))
                                    ELSE UpsertEdges(graph, StructureEdges(v))
  BY <1>2 DEF PutEdges, WriteEdges
<1>8. /\ graph' \in Graphs /\ WellKept(backend, graph')
      /\ \A u \in Versions \ {v} : Keeps(backend, graph, graph', u)
      /\ NodesHeld(backend, graph, v) => NodesHeld(backend, graph', v)
      /\ EdgesHeld(graph, v) => EdgesHeld(graph', v)
      /\ NodesHeld(backend, graph, v) => EdgesHeld(graph', v)
  BY <1>3, <1>6, <1>7, EdgesWritten
<1> QED  BY <1>1, <1>2, <1>3, <1>4, <1>5, <1>8, ProjectionGoes

(* The end of a projection past its edges. *)
LEMMA Concludes ==
    ASSUME IInv, NEW t \in Tasks, NEW v \in Versions, task[t] \in Works,
           task[t].op \in Projections, task[t].version = v,
           task[t].step \in {"extract", "cite"}, Conclude(t),
           UNCHANGED <<backend, status, archived, tracker, cut>>,
           graph' \in Graphs, WellKept(backend, graph'),
           \A u \in Versions \ {v} : Keeps(backend, graph, graph', u),
           NodesHeld(backend, graph, v) => NodesHeld(backend, graph', v),
           EdgesHeld(graph, v) => EdgesHeld(graph', v)
    PROVE  IInv'
<1>1. /\ {"extract", "cite"} \subseteq Writing \ (BeforeNodes \cup {"edges"})
      /\ {"report", "idle"} \cap (Writing \cup {"tombstone"}) = {}
      /\ "report" \in Steps \ {"tombstone"} /\ "reconcile" # "validate"
  BY DEF Writing, BeforeNodes, Steps
<1>2. CASE task[t].op = "validate"
  <2>1. Goto(t, "report")  BY <1>2 DEF Conclude
  <2> QED  BY <1>1, <1>2, <2>1, ProjectionGoes
<1>3. CASE task[t].op # "validate"
  <2>1. Finish(t)  BY <1>3 DEF Conclude
  <2>2. Moves(t) /\ task'[t] = Idle  BY <2>1, Finishes DEF Moves, IInv
  <2>3. cut' \in SUBSET Versions  BY DEF IInv, TypeOK
  <2>4. CopyStep(t, v)  BY <1>1 DEF CopyStep
  <2> QED  BY <1>1, <1>3, <2>2, <2>3, <2>4, IdleFields, ProjectionAdvances
<1> QED  BY <1>2, <1>3

LEMMA StepExtract ==
    ASSUME IInv, NEW t \in Tasks, Extract(t)
    PROVE  IInv'
<1>1. task[t].op \in Projections /\ task[t].step = "extract"  BY DEF Extract, At
<1>2. PICK v \in Versions : v = task[t].version  BY <1>1, Working
<1>3. /\ task[t] \in Works /\ graph \in Graphs /\ WellKept(backend, graph)
      /\ \A u \in Versions : Keeps(backend, graph, graph, u) /\ TypeOK
  BY <1>1, Working
<1>4. UNCHANGED <<backend, status, archived, tracker, cut, graph>>
  BY DEF Extract, catalog
<1>5. CASE Conclude(t)
  BY <1>1, <1>2, <1>3, <1>4, <1>5, Concludes
<1>6. CASE ~Conclude(t)
  <2>1. PICK found \in SUBSET Triples :
           task' = [task EXCEPT ![t].triples = found, ![t].step = "entities"]
    BY <1>6 DEF Extract
  <2> DEFINE r == [task[t] EXCEPT !.triples = found, !.step = "entities"]
  <2>2. "entities" \in Writing /\ "entities" \in Steps /\ "extract" \in Writing
        /\ "extract" \notin BeforeNodes
    BY DEF Writing, Steps, BeforeNodes
  <2>3. r \in Works  BY <1>3, <2>2 DEF Works
  <2>4. r.op = task[t].op /\ r.version = task[t].version /\ r.step = "entities"
    BY <1>3 DEF Works
  <2>5. task' = [task EXCEPT ![t] = r]  BY <1>3, <2>1 DEF TypeOK
  <2> HIDE DEF r
  <2>6. Moves(t) /\ task'[t] = r  BY <1>3, <2>3, <2>5, TakesUp DEF Moves
  <2>7. r # Idle  BY <2>3, IdleFields
  <2>8. cut' \in SUBSET Versions  BY <1>3, <1>4 DEF TypeOK
  <2>9. CopyStep(t, v)  BY <1>1, <1>4, <2>2 DEF CopyStep
  <2> QED
    BY <1>1, <1>2, <1>3, <1>4, <2>2, <2>4, <2>6, <2>7, <2>8, <2>9, ProjectionAdvances
<1> QED  BY <1>5, <1>6

LEMMA Cited ==
    ASSUME NEW v \in Versions, NEW triples \in SUBSET Triples
    PROVE  /\ CitedNodes(triples) \in SUBSET NodeIds
           /\ CitedNodes(triples) \cap Versions = {}
           /\ CitedEdges(v, triples) \in SUBSET Edges
           /\ \A e \in CitedEdges(v, triples) : e.version = v
<1>1. \A r \in triples : r[1] \in Entities /\ r[2] \in Entities
  BY ProjectionAssumption
<1>2. /\ CitedNodes(triples) \in SUBSET NodeIds
      /\ CitedNodes(triples) \cap Versions = {}
  <2>1. \A n \in CitedNodes(triples) : n \in Entities  BY <1>1 DEF CitedNodes
  <2> QED  BY <2>1, Ids
<1>3. ASSUME NEW r \in triples
      PROVE  [from |-> r[1], to |-> r[2], version |-> v] \in Edges
  <2>1. r[1] \in NodeIds /\ r[2] \in NodeIds  BY <1>1, Ids
  <2> QED  BY <2>1 DEF Edges
<1> QED  BY <1>2, <1>3 DEF CitedEdges

LEMMA StepPutEntities ==
    ASSUME IInv, NEW t \in Tasks, PutEntities(t)
    PROVE  IInv'
<1>1. task[t].op \in Projections /\ task[t].step = "entities"  BY DEF PutEntities, At
<1>2. PICK v \in Versions : v = task[t].version  BY <1>1, Working
<1>3. /\ task[t] \in Works /\ graph \in Graphs /\ WellKept(backend, graph)
      /\ backend \in Stores
  BY <1>1, Working, BackendKnown
<1>4. UNCHANGED <<backend, status, archived, tracker, cut>> /\ Goto(t, "cite")
  BY DEF PutEntities, catalog
<1>5. /\ {"entities", "cite"} \subseteq Writing /\ "cite" \in Steps \ {"tombstone"}
      /\ "entities" \notin BeforeNodes
  BY DEF Writing, Steps, BeforeNodes
<1>6. PICK ns \in SUBSET NodeIds :
         ns = CitedNodes(task[t].triples) /\ ns \cap Versions = {}
  <2>1. task[t].triples \in SUBSET Triples  BY <1>3, WorkFields
  <2> QED  BY <2>1, Cited
<1>7. graph' = IF backend = "neo4j" THEN MergeNodes(graph, v, ns)
                                    ELSE UpsertNodes(graph, v, ns)
  BY <1>2, <1>6 DEF PutEntities, WriteNodes
<1>8. /\ graph' \in Graphs /\ WellKept(backend, graph')
      /\ \A u \in Versions \ {v} : Keeps(backend, graph, graph', u)
      /\ NodesHeld(backend, graph, v) => NodesHeld(backend, graph', v)
      /\ EdgesHeld(graph, v) => EdgesHeld(graph', v)
  BY <1>3, <1>6, <1>7, NodesWritten
<1> QED  BY <1>1, <1>2, <1>3, <1>4, <1>5, <1>8, ProjectionGoes

LEMMA StepCite ==
    ASSUME IInv, NEW t \in Tasks, Cite(t)
    PROVE  IInv'
<1>1. task[t].op \in Projections /\ task[t].step = "cite"  BY DEF Cite, At
<1>2. PICK v \in Versions : v = task[t].version  BY <1>1, Working
<1>3. /\ task[t] \in Works /\ graph \in Graphs /\ WellKept(backend, graph)
      /\ backend \in Stores
  BY <1>1, Working, BackendKnown
<1>4. UNCHANGED <<backend, status, archived, tracker, cut>> /\ Conclude(t)
  BY DEF Cite, catalog
<1>5. PICK es \in SUBSET Edges :
         es = CitedEdges(v, task[t].triples) /\ \A e \in es : e.version = v
  BY <1>3, WorkFields, Cited
<1>6. graph' = IF backend = "neo4j" THEN MergeEdges(graph, es) ELSE UpsertEdges(graph, es)
  BY <1>2, <1>5 DEF Cite, WriteEdges
<1>7. /\ graph' \in Graphs /\ WellKept(backend, graph')
      /\ \A u \in Versions \ {v} : Keeps(backend, graph, graph', u)
      /\ NodesHeld(backend, graph, v) => NodesHeld(backend, graph', v)
      /\ EdgesHeld(graph, v) => EdgesHeld(graph', v)
  BY <1>3, <1>5, <1>6, EdgesWritten
<1> QED  BY <1>1, <1>2, <1>3, <1>4, <1>7, Concludes

-----------------------------------------------------------------------------
(* The deletion, for a projection and for a purge.                         *)

LEMMA PurgeAdvances ==
    ASSUME IInv, NEW t \in Tasks, NEW v \in Versions, task[t] \in Works,
           task[t].op = "purge", task[t].version = v, Moves(t),
           UNCHANGED <<backend, status, archived, tracker>>,
           cut \subseteq cut', cut' \in SUBSET Versions,
           task'[t] # Idle =>
              /\ task'[t].op = "purge"
              /\ task'[t].step \in {"tombstone", "clear", "detach", "collect"}
              /\ task'[t].todo \cup {task'[t].version} \subseteq task[t].todo \cup {v},
           task'[t].step \in {"detach", "collect"} => backend = "neo4j",
           graph' \in Graphs, WellKept(backend, graph'),
           \A u \in Versions \ {v} : Keeps(backend, graph, graph', u),
           Gone(graph, v) => Gone(graph', v),
           EdgesGone(graph, v) => EdgesGone(graph', v),
           \A u \in task[t].todo : Cleaning(t, u)' \/ u \in cut',
           v \notin task[t].todo /\ Cleaning(t, v) =>
              v \in cut' \/ Gone(graph', v) \/ Cleaning(t, v)'
    PROVE  IInv'
<1>1. TypeOK'
  BY DEF IInv, TypeOK, Moves
<1>2. TaskInv' /\ FlightInv' /\ WellKept(backend, graph)' /\ PurgeInv' /\ CopyInv'
  BY PurgeStep
<1>3. task[t].op # "validate"
  OBVIOUS
<1>4. InProgressIsRunning'
  BY <1>3, StillRunning
<1> QED  BY <1>1, <1>2, <1>4 DEF IInv

(* A purge has done with one version, or given it up. *)
LEMMA PurgeGoesOn ==
    ASSUME IInv, NEW t \in Tasks, NEW v \in Versions, task[t] \in Works,
           task[t].op = "purge", task[t].version = v, AfterDelete(t),
           UNCHANGED <<backend, status, archived, tracker>>,
           cut \subseteq cut', cut' \in SUBSET Versions,
           graph' \in Graphs, WellKept(backend, graph'),
           \A u \in Versions \ {v} : Keeps(backend, graph, graph', u),
           Gone(graph, v) => Gone(graph', v),
           EdgesGone(graph, v) => EdgesGone(graph', v),
           task[t].step = "collect" \/ Gone(graph', v) \/ v \in cut'
    PROVE  IInv'
<1>1. TypeOK  BY DEF IInv
<1>2. Moves(t)  BY <1>1, Deleted DEF Moves
<1>3. v \notin task[t].todo /\ Cleaning(t, v) => v \in cut' \/ Gone(graph', v)
  BY DEF Cleaning
<1>4. CASE task[t].todo = {} /\ task'[t] = Idle
  BY <1>2, <1>3, <1>4, IdleFields, PurgeAdvances
<1>5. CASE task[t].todo # {}
  <2>1. PICK u \in task[t].todo :
           task'[t] = [task[t] EXCEPT !.version = u, !.step = "clear",
                                      !.todo = task[t].todo \ {u}]
    BY <1>1, <1>5, Deleted
  <2>2. /\ task'[t].op = "purge" /\ task'[t].version = u /\ task'[t].step = "clear"
        /\ task'[t].todo = task[t].todo \ {u}
    BY <2>1 DEF Works
  <2>3. \A w \in task[t].todo : Cleaning(t, w)'
    BY <2>2 DEF Cleaning
  <2> QED  BY <1>2, <1>3, <2>2, <2>3, PurgeAdvances
<1> QED  BY <1>1, <1>4, <1>5, Deleted

(* A projection goes on to its nodes. *)
LEMMA ProjectionGoesOn ==
    ASSUME IInv, NEW t \in Tasks, NEW v \in Versions, task[t] \in Works,
           task[t].op \in Projections, task[t].version = v, AfterDelete(t),
           task[t].step \in {"clear", "collect"},
           UNCHANGED <<backend, status, archived, tracker, cut>>,
           graph' \in Graphs, WellKept(backend, graph'),
           \A u \in Versions \ {v} : Keeps(backend, graph, graph', u)
    PROVE  IInv'
<1>1. Goto(t, "nodes")  BY DEF AfterDelete, Projections
<1>2. /\ {"clear", "collect", "nodes"} \subseteq Writing
      /\ "nodes" \in BeforeNodes /\ "nodes" \in Steps \ {"tombstone"}
  BY DEF Writing, BeforeNodes, Steps
<1> QED  BY <1>1, <1>2, ProjectionGoes

LEMMA StepClear ==
    ASSUME IInv, NEW t \in Tasks, Clear(t)
    PROVE  IInv'
<1>1. task[t].op \in Projections \cup {"purge"} /\ task[t].step = "clear"
  BY DEF Clear, At, Deletions
<1>2. PICK v \in Versions : v = task[t].version  BY <1>1, Working
<1>3. /\ task[t] \in Works /\ graph \in Graphs /\ WellKept(backend, graph) /\ TypeOK
  BY <1>1, Working
<1>4. UNCHANGED <<backend, status, archived, tracker, cut>>
  BY DEF Clear, catalog
<1>5. cut \subseteq cut' /\ cut' \in SUBSET Versions  BY <1>3, <1>4 DEF TypeOK
<1>6. CASE backend = "in-memory"
  <2>1. graph' = DeleteVersion(graph, v) /\ AfterDelete(t)  BY <1>2, <1>6 DEF Clear
  <2>2. /\ graph' \in Graphs /\ WellKept(backend, graph')
        /\ \A u \in Versions \ {v} : Keeps(backend, graph, graph', u)
        /\ Gone(graph', v)
    BY <1>3, <1>6, <2>1, VersionDeleted
  <2>3. EdgesGone(graph', v)  BY <2>2 DEF Gone
  <2> QED
    BY <1>1, <1>2, <1>3, <1>4, <1>5, <2>1, <2>2, <2>3, PurgeGoesOn, ProjectionGoesOn
<1>7. CASE backend = "neo4j"
  <2>1. graph' = DeleteEdges(graph, v) /\ Goto(t, "detach")  BY <1>2, <1>7 DEF Clear
  <2>2. /\ graph' \in Graphs /\ WellKept(backend, graph')
        /\ \A u \in Versions \ {v} : Keeps(backend, graph, graph', u)
        /\ EdgesGone(graph', v) /\ (Gone(graph, v) => Gone(graph', v))
    BY <1>3, <1>7, <2>1, EdgesDeleted
  <2>3. /\ {"clear", "detach"} \subseteq Writing
        /\ "detach" \in BeforeNodes /\ "detach" \in Steps \ {"tombstone"}
    BY DEF Writing, BeforeNodes, Steps
  <2>4. CASE task[t].op \in Projections
    BY <1>1, <1>2, <1>3, <1>4, <1>7, <2>1, <2>2, <2>3, <2>4, ProjectionGoes
  <2>5. CASE task[t].op = "purge"
    <3>1. Moves(t) /\ task'[t] = [task[t] EXCEPT !.step = "detach"]
      BY <1>3, <2>1, <2>3, Goes DEF Moves
    <3>2. /\ task'[t].op = "purge" /\ task'[t].version = v
          /\ task'[t].todo = task[t].todo /\ task'[t].step = "detach"
      BY <1>2, <1>3, <2>5, <3>1 DEF Works
    <3>3. Cleaning(t, v)' /\ \A u \in task[t].todo : Cleaning(t, u)'
      BY <2>2, <3>2 DEF Cleaning
    <3> QED
      BY <1>2, <1>3, <1>4, <1>5, <1>7, <2>2, <2>5, <3>1, <3>2, <3>3, PurgeAdvances
  <2> QED  BY <1>1, <2>4, <2>5
<1> QED  BY <1>6, <1>7 DEF Clear

LEMMA StepDetachNodes ==
    ASSUME IInv, NEW t \in Tasks, DetachNodes(t)
    PROVE  IInv'
<1>1. task[t].op \in Projections \cup {"purge"} /\ task[t].step = "detach"
  BY DEF DetachNodes, At, Deletions
<1>2. PICK v \in Versions : v = task[t].version  BY <1>1, Working
<1>3. /\ task[t] \in Works /\ graph \in Graphs /\ WellKept(backend, graph) /\ TypeOK
      /\ task[t] # Idle
  BY <1>1, Working
<1>4. UNCHANGED <<backend, status, archived, tracker, cut>> /\ Goto(t, "collect")
  BY DEF DetachNodes, catalog
<1>5. cut \subseteq cut' /\ cut' \in SUBSET Versions  BY <1>3, <1>4 DEF TypeOK
<1>6. backend = "neo4j"  BY <1>1, <1>3 DEF IInv, TaskInv
<1>7. graph' = DetachVersion(graph, v)  BY <1>2 DEF DetachNodes
<1>8. /\ graph' \in Graphs /\ WellKept(backend, graph')
      /\ \A u \in Versions \ {v} : Keeps(backend, graph, graph', u)
      /\ EdgesGone(graph, v) => Gone(graph', v)
      /\ Gone(graph, v) => Gone(graph', v)
  BY <1>3, <1>6, <1>7, VersionDetached
<1>9. EdgesGone(graph, v) => EdgesGone(graph', v)  BY <1>8 DEF Gone
<1>10. /\ {"detach", "collect"} \subseteq Writing
       /\ "collect" \in BeforeNodes /\ "collect" \in Steps \ {"tombstone"}
  BY DEF Writing, BeforeNodes, Steps
<1>11. CASE task[t].op \in Projections
  BY <1>1, <1>2, <1>3, <1>4, <1>6, <1>8, <1>10, <1>11, ProjectionGoes
<1>12. CASE task[t].op = "purge"
  <2>1. Moves(t) /\ task'[t] = [task[t] EXCEPT !.step = "collect"]
    BY <1>3, <1>4, <1>10, Goes DEF Moves
  <2>2. /\ task'[t].op = "purge" /\ task'[t].version = v
        /\ task'[t].todo = task[t].todo /\ task'[t].step = "collect"
    BY <1>2, <1>3, <1>12, <2>1 DEF Works
  <2>3. \A u \in task[t].todo : Cleaning(t, u)'
    BY <2>2 DEF Cleaning
  <2>4. v \notin task[t].todo /\ Cleaning(t, v) => Gone(graph', v)
    BY <1>1, <1>8 DEF Cleaning
  <2> QED
    BY <1>2, <1>3, <1>4, <1>5, <1>6, <1>8, <1>9, <1>12, <2>1, <2>2, <2>3, <2>4, PurgeAdvances
<1> QED  BY <1>1, <1>11, <1>12

LEMMA StepCollect ==
    ASSUME IInv, NEW t \in Tasks, Collect(t)
    PROVE  IInv'
<1>1. task[t].op \in Projections \cup {"purge"} /\ task[t].step = "collect"
  BY DEF Collect, At, Deletions
<1>2. PICK v \in Versions : v = task[t].version  BY <1>1, Working
<1>3. /\ task[t] \in Works /\ graph \in Graphs /\ WellKept(backend, graph) /\ TypeOK
      /\ task[t] # Idle
  BY <1>1, Working
<1>4. UNCHANGED <<backend, status, archived, tracker, cut>> /\ AfterDelete(t)
  BY DEF Collect, catalog
<1>5. cut \subseteq cut' /\ cut' \in SUBSET Versions  BY <1>3, <1>4 DEF TypeOK
<1>6. backend = "neo4j"  BY <1>1, <1>3 DEF IInv, TaskInv
<1>7. graph' = CollectEntities(graph)  BY DEF Collect
<1>8. /\ graph' \in Graphs /\ WellKept(backend, graph')
      /\ \A u \in Versions : Keeps(backend, graph, graph', u)
  BY <1>3, <1>6, <1>7, EntitiesCollected
<1>9. /\ EdgesGone(graph, v) => EdgesGone(graph', v)
      /\ Gone(graph, v) => Gone(graph', v)
  BY <1>8 DEF Keeps
<1>10. CASE task[t].op \in Projections
  BY <1>1, <1>2, <1>3, <1>4, <1>8, <1>10, ProjectionGoesOn
<1>11. CASE task[t].op = "purge"
  BY <1>1, <1>2, <1>3, <1>4, <1>5, <1>8, <1>9, <1>11, PurgeGoesOn
<1> QED  BY <1>1, <1>10, <1>11

-----------------------------------------------------------------------------
(* Failure and report.                                                     *)

LEMMA StepFail ==
    ASSUME IInv, NEW t \in Tasks, Fail(t)
    PROVE  IInv'
<1>1. task[t].step \in Writing \cup {"read"}  BY DEF Fail
<1>2. task[t].step # "idle"  BY <1>1 DEF Writing
<1>3. PICK v \in Versions : v = task[t].version  BY <1>2, Working
<1>4. /\ task[t] \in Works /\ graph \in Graphs /\ WellKept(backend, graph) /\ TypeOK
      /\ \A u \in Versions : Keeps(backend, graph, graph, u)
  BY <1>2, Working
<1>5. UNCHANGED <<backend, status, archived, tracker, graph>> /\ cut' = cut \cup {v}
  BY <1>3 DEF Fail, catalog
<1>6. cut \subseteq cut' /\ cut' \in SUBSET Versions /\ v \in cut'
  BY <1>4, <1>5 DEF TypeOK
<1>7. task[t].op \in Projections \cup {"purge"}  BY <1>4, WorkFields
<1>8. CASE task[t].op = "purge"
  <2>1. AfterDelete(t)  BY <1>8 DEF Fail
  <2> QED  BY <1>3, <1>4, <1>5, <1>6, <1>8, <2>1, PurgeGoesOn
<1>9. CASE task[t].op = "reconcile"
  <2>1. Finish(t)  BY <1>9 DEF Fail
  <2>2. Moves(t) /\ task'[t] = Idle  BY <1>4, <2>1, Finishes DEF Moves
  <2>3. "idle" \notin Writing \cup {"tombstone"} /\ "reconcile" \in Projections
    BY DEF Writing, Projections
  <2> QED
    BY <1>3, <1>4, <1>5, <1>6, <1>9, <2>2, <2>3, IdleFields, ProjectionAdvances
<1>10. CASE task[t].op = "validate"
  <2> DEFINE next == IF task[t].step \in {"read", "extract", "entities", "cite"}
                     THEN "report" ELSE "extract"
             r == [task[t] EXCEPT !.failed = TRUE, !.step = next]
  <2>1. task' = [task EXCEPT ![t].failed = TRUE,
                             ![t].step = IF @ \in {"read", "extract", "entities", "cite"}
                                         THEN "report" ELSE "extract"]
    BY <1>10 DEF Fail
  <2>2. next \in Steps /\ next # "tombstone" /\ next \notin {"detach", "collect"}
    BY DEF Steps, Writing
  <2>3. next \in Writing => task[t].step \in Writing
    BY <1>1 DEF Writing
  <2>4. task' = [task EXCEPT ![t] = r]
    <3>1. [task[t] EXCEPT !.failed = TRUE].step = task[t].step  BY <1>4 DEF Works
    <3> QED  BY <1>4, <2>1, <3>1 DEF TypeOK
  <2> HIDE DEF next
  <2>5. r \in Works  BY <1>4, <2>2 DEF Works
  <2>6. r.op = "validate" /\ r.version = v /\ r.step = next
    BY <1>3, <1>4, <1>10 DEF Works
  <2> HIDE DEF r
  <2>7. Moves(t) /\ task'[t] = r  BY <1>4, <2>4, <2>5, TakesUp DEF Moves
  <2>8. r # Idle  BY <2>5, IdleFields
  <2>9. "validate" \in Projections /\ "validate" # "reconcile"  BY DEF Projections
  <2> QED
    BY <1>3, <1>4, <1>5, <1>6, <1>10, <2>2, <2>3, <2>6, <2>7, <2>8, <2>9, ProjectionAdvances
<1> QED  BY <1>7, <1>8, <1>9, <1>10 DEF Projections

LEMMA StepReport ==
    ASSUME IInv, NEW t \in Tasks, Report(t)
    PROVE  IInv'
<1>1. task[t].op = "validate" /\ task[t].step = "report"  BY DEF Report, At
<1>2. PICK v \in Versions : v = task[t].version  BY <1>1, Working
<1>3. /\ task[t] \in Works /\ graph \in Graphs /\ WellKept(backend, graph) /\ TypeOK
      /\ \A u \in Versions : Keeps(backend, graph, graph, u)
  BY <1>1, Working
<1>4. UNCHANGED <<backend, status, archived, graph, cut>> /\ Finish(t)
  BY DEF Report, catalog
<1>5. Moves(t) /\ task'[t] = Idle  BY <1>3, <1>4, Finishes DEF Moves
<1>6. PICK stale \in SUBSET {u \in Versions \ {v} : tracker[u] \in Terminal} :
         tracker' = [u \in Versions |->
            IF u = v /\ tracker[v] # None
            THEN (IF task[t].failed THEN "FAILED" ELSE "COMPLETED")
            ELSE IF u \in stale THEN None ELSE tracker[u]]
  BY <1>2 DEF Report
<1>7. tracker' \in [Versions -> Terminal \cup {"IN_PROGRESS", None}]
  BY <1>3, <1>6 DEF TypeOK, Terminal
<1>8. TypeOK'
  BY <1>3, <1>4, <1>5, <1>7 DEF TypeOK, Moves
<1>9. TaskInv' /\ FlightInv' /\ WellKept(backend, graph)' /\ PurgeInv' /\ CopyInv'
  <2>1. /\ "idle" \notin Writing \cup {"tombstone"} /\ "validate" \in Projections
        /\ "report" \notin BeforeNodes
    BY DEF Writing, Projections, BeforeNodes
  <2>2. CopyStep(t, v)  BY <1>1, <1>4, <2>1 DEF CopyStep
  <2> QED  BY <1>1, <1>2, <1>3, <1>4, <1>5, <2>1, <2>2, IdleFields, ProjectionStep
<1>10. InProgressIsRunning'
  <2> SUFFICES ASSUME NEW u \in Versions, tracker'[u] = "IN_PROGRESS"
               PROVE  \E x \in Tasks : task'[x].op = "validate" /\ task'[x].version = u
    BY DEF InProgressIsRunning
  <2>2. u # v /\ tracker[u] = "IN_PROGRESS"
    BY <1>6, ProjectionAssumption
  <2>3. PICK x \in Tasks : task[x].op = "validate" /\ task[x].version = u
    BY <2>2 DEF IInv, InProgressIsRunning
  <2>4. task'[x] = task[x]  BY <1>2, <1>5, <2>2, <2>3 DEF Moves
  <2> QED  BY <2>3, <2>4
<1> QED  BY <1>8, <1>9, <1>10 DEF IInv

-----------------------------------------------------------------------------
(* What starts an operation: the decision, the script, the purge.           *)

LEMMA Begins ==
    ASSUME IInv, NEW t \in Tasks, NEW r \in Works, task[t] = Idle,
           task' = [task EXCEPT ![t] = r],
           UNCHANGED <<backend, graph, tracker>>,
           status' \in [Versions -> Statuses], archived' \in SUBSET Documents,
           archived \subseteq archived', cut \subseteq cut', cut' \in SUBSET Versions,
           r.step \notin {"detach", "collect"},
           r.op = "reconcile" => r.step \in Writing,
           r.op = "purge" =>
              /\ r.step = "tombstone"
              /\ \A u \in r.todo \cup {r.version} : DocumentOf[u] \in archived',
           r.op \in Projections => r.step # "tombstone",
           r.op \in Projections /\ r.step \in Writing => DocumentOf[r.version] \notin archived',
           \A u \in Versions :
              DocumentOf[u] \in archived' \ archived /\ InFlight(u) => u \in cut',
           \A u \in Versions : status'[u] = "PURGED" => status[u] = "PURGED",
           \A u \in Versions : status'[u] = "VALIDATED" =>
              \/ status[u] = "VALIDATED"
              \/ r.op \in Projections /\ r.version = u /\ r.step \in BeforeNodes
    PROVE  IInv'
<1>1. TypeOK  BY DEF IInv
<1>2. Moves(t) /\ task'[t] = r  BY <1>1, TakesUp DEF Moves
<1>3. TypeOK'
  BY <1>1, <1>2 DEF TypeOK, Moves
<1>4. "none" \notin Projections \cup {"purge"}  BY DEF Projections
<1>5. TaskInv'
  <2> SUFFICES ASSUME NEW x \in Tasks, task'[x] # Idle
               PROVE  /\ task'[x].step \in {"detach", "collect"} => backend = "neo4j"
                      /\ task'[x].op = "reconcile" => task'[x].step \in Writing
                      /\ task'[x].op = "purge" =>
                            /\ task'[x].step \in {"tombstone", "clear", "detach", "collect"}
                            /\ \A u \in task'[x].todo \cup {task'[x].version} :
                                  DocumentOf[u] \in archived'
                      /\ task'[x].op \in Projections => task'[x].step # "tombstone"
    BY DEF TaskInv
  <2>1. CASE x = t
    BY <1>2, <2>1
  <2>2. CASE x # t
    <3>1. task'[x] = task[x]  BY <1>2, <2>2 DEF Moves
    <3> QED  BY <3>1 DEF IInv, TaskInv
  <2> QED  BY <2>1, <2>2
<1>6. FlightInv'
  <2> SUFFICES ASSUME NEW u \in Versions, DocumentOf[u] \in archived', u \notin cut',
                      NEW x \in Tasks, task'[x].op \in Projections,
                      task'[x].version = u, task'[x].step \in Writing
               PROVE  FALSE
    BY DEF FlightInv, InFlight
  <2>1. x # t  BY <1>2
  <2>2. InFlight(u)  BY <1>2, <2>1 DEF Moves, InFlight
  <2> QED  BY <2>2 DEF IInv, FlightInv
<1>7. PurgeInv'
  <2> SUFFICES ASSUME NEW u \in Versions, status'[u] = "PURGED", u \notin cut'
               PROVE  /\ DocumentOf[u] \in archived'
                      /\ Gone(graph, u) \/ \E x \in Tasks : Cleaning(x, u)'
    BY DEF PurgeInv
  <2>1. /\ DocumentOf[u] \in archived
        /\ Gone(graph, u) \/ \E x \in Tasks : Cleaning(x, u)
    BY DEF IInv, PurgeInv
  <2>2. ASSUME NEW x \in Tasks, Cleaning(x, u)  PROVE Cleaning(x, u)'
    <3>1. x # t  BY <2>2, IdleFields DEF Cleaning
    <3>2. task'[x] = task[x]  BY <1>2, <3>1 DEF Moves
    <3> QED  BY <2>2, <3>2 DEF Cleaning
  <2> QED  BY <2>1, <2>2
<1>8. CopyInv'
  <2> SUFFICES ASSUME NEW u \in Versions, status'[u] = "VALIDATED",
                      DocumentOf[u] \notin archived', u \notin cut'
               PROVE  \/ \E x \in Tasks : Projecting(x, u, BeforeNodes)'
                      \/ /\ NodesHeld(backend, graph, u)
                         /\ EdgesHeld(graph, u)
                               \/ \E x \in Tasks : Projecting(x, u, {"edges"})'
    BY DEF CopyInv
  <2>1. CASE r.op \in Projections /\ r.version = u /\ r.step \in BeforeNodes
    <3>1. Projecting(t, u, BeforeNodes)'  BY <1>2, <2>1 DEF Projecting
    <3> QED  BY <3>1
  <2>2. CASE status[u] = "VALIDATED"
    <3>1. \/ \E x \in Tasks : Projecting(x, u, BeforeNodes)
          \/ /\ NodesHeld(backend, graph, u)
             /\ EdgesHeld(graph, u) \/ \E x \in Tasks : Projecting(x, u, {"edges"})
      BY <2>2 DEF IInv, CopyInv
    <3>2. \A x \in Tasks : \A steps : Projecting(x, u, steps) => Projecting(x, u, steps)'
      <4> SUFFICES ASSUME NEW x \in Tasks, NEW steps, Projecting(x, u, steps)
                   PROVE  Projecting(x, u, steps)'
        OBVIOUS
      <4>1. x # t  BY <1>4, IdleFields DEF Projecting
      <4> QED  BY <1>2, <4>1 DEF Projecting, Moves
    <3> QED  BY <3>1, <3>2
  <2> QED  BY <2>1, <2>2
<1>9. WellKept(backend, graph)'  BY DEF IInv
<1>10. InProgressIsRunning'
  <2>1. task[t].op # "validate"  BY IdleFields
  <2> QED  BY <1>2, <2>1, StillRunning
<1> QED  BY <1>3, <1>5, <1>6, <1>7, <1>8, <1>9, <1>10 DEF IInv

LEMMA Table ==
    {"NEEDS_REVIEW", "VALIDATED", "SUPERSEDED", "PURGED"} \subseteq Statuses
  BY DEF Statuses

LEMMA StepValidate ==
    ASSUME IInv, NEW t \in Tasks, NEW v \in Versions, Validate(t, v)
    PROVE  IInv'
<1> DEFINE r == [Idle EXCEPT !.op = "validate", !.version = v, !.step = "start"]
<1>1. "validate" \in Projections /\ "start" \in Steps /\ "start" \notin Writing
      /\ "start" \in BeforeNodes
  BY DEF Projections, Steps, Writing, BeforeNodes
<1>2. /\ r \in Works /\ r.op = "validate" /\ r.version = v /\ r.step = "start"
  BY <1>1 DEF Works, Idle
<1>3. task[t] = Idle /\ task' = [task EXCEPT ![t] = r]
      /\ UNCHANGED <<backend, archived, graph, tracker, cut>>
  BY DEF Validate
<1> HIDE DEF r
<1>4. status' \in [Versions -> Statuses]
      /\ \A u \in Versions :
            /\ status'[u] = "PURGED" => status[u] = "PURGED"
            /\ status'[u] = "VALIDATED" => status[u] = "VALIDATED" \/ u = v
  BY Table DEF IInv, TypeOK, Validate
<1>5. archived' \in SUBSET Documents /\ cut' \in SUBSET Versions
  BY <1>3 DEF IInv, TypeOK
<1> QED  BY <1>1, <1>2, <1>3, <1>4, <1>5, Begins

LEMMA StepStartReconcile ==
    ASSUME IInv, NEW t \in Tasks, NEW v \in Versions, StartReconcile(t, v)
    PROVE  IInv'
<1> DEFINE r == [Idle EXCEPT !.op = "reconcile", !.version = v, !.step = "clear"]
<1>1. "reconcile" \in Projections /\ "clear" \in Steps /\ "clear" \in Writing
  BY DEF Projections, Steps, Writing
<1>2. /\ r \in Works /\ r.op = "reconcile" /\ r.version = v /\ r.step = "clear"
  BY <1>1 DEF Works, Idle
<1>3. task[t] = Idle /\ task' = [task EXCEPT ![t] = r]
      /\ UNCHANGED <<backend, status, archived, graph, tracker, cut>>
      /\ DocumentOf[v] \notin archived
  BY DEF StartReconcile, catalog
<1> HIDE DEF r
<1>4. /\ archived' \in SUBSET Documents /\ cut' \in SUBSET Versions
      /\ status' \in [Versions -> Statuses]
  BY <1>3 DEF IInv, TypeOK
<1> QED  BY <1>1, <1>2, <1>3, <1>4, Begins

LEMMA StepStartPurge ==
    ASSUME IInv, NEW t \in Tasks, NEW d \in Documents, StartPurge(t, d)
    PROVE  IInv'
<1>1. PICK v \in Versions :
         /\ DocumentOf[v] = d
         /\ task' = [task EXCEPT ![t] =
               [Idle EXCEPT !.op = "purge", !.version = v, !.step = "tombstone",
                            !.todo = {u \in Versions \ {v} : DocumentOf[u] = d}]]
  BY DEF StartPurge
<1> DEFINE todo == {u \in Versions \ {v} : DocumentOf[u] = d}
           r == [Idle EXCEPT !.op = "purge", !.version = v, !.step = "tombstone",
                             !.todo = todo]
<1>2. "tombstone" \in Steps /\ "purge" \notin Projections  BY DEF Steps, Projections
<1>3. todo \in SUBSET Versions /\ \A u \in todo : DocumentOf[u] = d  OBVIOUS
<1>4. task' = [task EXCEPT ![t] = r]  BY <1>1
<1>5. task[t] = Idle /\ UNCHANGED <<backend, status, graph, tracker>>
      /\ archived' = archived \cup {d}
      /\ cut' = cut \cup {u \in Versions : DocumentOf[u] = d /\ InFlight(u)}
  BY DEF StartPurge
<1> HIDE DEF todo
<1>6. /\ r \in Works /\ r.op = "purge" /\ r.version = v /\ r.step = "tombstone"
      /\ r.todo = todo
  BY <1>2, <1>3 DEF Works, Idle
<1> HIDE DEF r
<1>7. /\ archived' \in SUBSET Documents /\ cut' \in SUBSET Versions /\ cut \subseteq cut'
      /\ status' \in [Versions -> Statuses]
  BY <1>5 DEF IInv, TypeOK
<1>8. \A u \in Versions : DocumentOf[u] \in archived' \ archived /\ InFlight(u) => u \in cut'
  BY <1>5
<1>9. \A u \in r.todo \cup {r.version} : DocumentOf[u] \in archived'
  BY <1>1, <1>3, <1>5, <1>6
<1> QED  BY <1>2, <1>4, <1>5, <1>6, <1>7, <1>8, <1>9, Begins

-----------------------------------------------------------------------------
(* The rest: demotion, tombstones, and the end of the process.              *)

LEMMA StepDemote ==
    ASSUME IInv, NEW v \in Versions, Demote(v)
    PROVE  IInv'
<1>1. /\ UNCHANGED <<backend, archived, graph, tracker, task, cut>>
      /\ status' = [status EXCEPT ![v] = "NEEDS_REVIEW"]
  BY DEF Demote
<1>2. /\ status' \in [Versions -> Statuses]
      /\ \A u \in Versions :
            /\ status'[u] = "PURGED" => status[u] = "PURGED"
            /\ status'[u] = "VALIDATED" => status[u] = "VALIDATED"
  BY <1>1, Table DEF IInv, TypeOK
<1>3. TypeOK'  BY <1>1, <1>2 DEF IInv, TypeOK
<1>4. TaskInv' /\ FlightInv' /\ WellKept(backend, graph)' /\ InProgressIsRunning'
  BY <1>1 DEF IInv, TaskInv, FlightInv, InFlight, InProgressIsRunning
<1>5. PurgeInv'
  BY <1>1, <1>2 DEF IInv, PurgeInv, Cleaning
<1>6. CopyInv'
  BY <1>1, <1>2 DEF IInv, CopyInv, Projecting
<1> QED  BY <1>3, <1>4, <1>5, <1>6 DEF IInv

LEMMA StepTombstone ==
    ASSUME IInv, NEW t \in Tasks, Tombstone(t)
    PROVE  IInv'
<1>1. task[t].op = "purge" /\ task[t].step = "tombstone"  BY DEF Tombstone, At
<1>2. PICK v \in Versions : v = task[t].version  BY <1>1, Working
<1>3. task[t] \in Works /\ TypeOK /\ task[t] # Idle  BY <1>1, Working
<1>4. UNCHANGED <<backend, archived, graph, tracker, cut>> /\ Goto(t, "clear")
  BY DEF Tombstone
<1>5. /\ status' \in [Versions -> Statuses]
      /\ \A u \in Versions :
            /\ status'[u] = "PURGED" => status[u] = "PURGED" \/ u \in task[t].todo \cup {v}
            /\ status'[u] = "VALIDATED" => status[u] = "VALIDATED"
  BY <1>2, <1>3, Table DEF Tombstone, TypeOK
<1>6. "clear" \in Steps /\ "purge" \notin Projections  BY DEF Steps, Writing, Projections
<1>7. Moves(t) /\ task'[t] = [task[t] EXCEPT !.step = "clear"]
  BY <1>3, <1>4, <1>6, Goes DEF Moves
<1>8. /\ task'[t].op = "purge" /\ task'[t].version = v /\ task'[t].step = "clear"
      /\ task'[t].todo = task[t].todo
  BY <1>1, <1>2, <1>3, <1>7 DEF Works
<1>9. \A u \in task[t].todo \cup {v} : DocumentOf[u] \in archived /\ Cleaning(t, u)'
  BY <1>1, <1>2, <1>3, <1>8 DEF IInv, TaskInv, Cleaning
<1>10. TypeOK'
  BY <1>3, <1>4, <1>5, <1>7 DEF TypeOK, Moves
<1>11. TaskInv'
  <2> SUFFICES ASSUME NEW x \in Tasks, task'[x] # Idle
               PROVE  /\ task'[x].step \in {"detach", "collect"} => backend = "neo4j"
                      /\ task'[x].op = "reconcile" => task'[x].step \in Writing
                      /\ task'[x].op = "purge" =>
                            /\ task'[x].step \in {"tombstone", "clear", "detach", "collect"}
                            /\ \A u \in task'[x].todo \cup {task'[x].version} :
                                  DocumentOf[u] \in archived
                      /\ task'[x].op \in Projections => task'[x].step # "tombstone"
    BY <1>4 DEF TaskInv
  <2>1. CASE x = t
    BY <1>6, <1>8, <1>9, <2>1
  <2>2. CASE x # t
    <3>1. task'[x] = task[x]  BY <1>7, <2>2 DEF Moves
    <3> QED  BY <3>1 DEF IInv, TaskInv
  <2> QED  BY <2>1, <2>2
<1>12. \A x \in Tasks : task'[x].op \in Projections => x # t /\ task'[x] = task[x]
  BY <1>6, <1>7, <1>8 DEF Moves
<1>13. FlightInv'
  BY <1>4, <1>12 DEF IInv, FlightInv, InFlight
<1>14. PurgeInv'
  <2> SUFFICES ASSUME NEW u \in Versions, status'[u] = "PURGED", u \notin cut
               PROVE  /\ DocumentOf[u] \in archived
                      /\ Gone(graph, u) \/ \E x \in Tasks : Cleaning(x, u)'
    BY <1>4 DEF PurgeInv
  <2>1. CASE u \in task[t].todo \cup {v}
    BY <1>9, <2>1
  <2>2. CASE u \notin task[t].todo \cup {v}
    <3>1. /\ DocumentOf[u] \in archived
          /\ Gone(graph, u) \/ \E x \in Tasks : Cleaning(x, u)
      BY <1>5, <2>2 DEF IInv, PurgeInv
    <3>2. ASSUME NEW x \in Tasks, Cleaning(x, u)  PROVE Cleaning(x, u)'
      <4>1. x # t  BY <1>2, <2>2, <3>2 DEF Cleaning
      <4>2. task'[x] = task[x]  BY <1>7, <4>1 DEF Moves
      <4> QED  BY <1>4, <3>2, <4>2 DEF Cleaning
    <3> QED  BY <3>1, <3>2
  <2> QED  BY <2>1, <2>2
<1>15. CopyInv'
  <2>1. \A x \in Tasks, u \in Versions : \A steps :
           Projecting(x, u, steps) => Projecting(x, u, steps)'
    BY <1>1, <1>6, <1>7 DEF Projecting, Moves
  <2> QED  BY <1>4, <1>5, <2>1 DEF IInv, CopyInv
<1>16. InProgressIsRunning'
  <2>1. "validate" \in Projections  BY DEF Projections
  <2> QED  BY <1>1, <1>4, <1>7, StillRunning
<1>17. WellKept(backend, graph)'  BY <1>4 DEF IInv
<1> QED  BY <1>10, <1>11, <1>13, <1>14, <1>15, <1>16, <1>17 DEF IInv

LEMMA EmptyIsKept ==
    ASSUME NEW b  PROVE EmptyGraph \in Graphs /\ WellKept(b, EmptyGraph)
<1>1. EmptyGraph \in Graphs  BY DEF EmptyGraph, Graphs
<1>2. \A n \in NodeIds : EmptyGraph.node[n] = None  BY DEF EmptyGraph
<1>3. \A n \in Documents \cup Versions : EmptyGraph.node[n] = None  BY <1>2, Ids
<1>4. EmptyGraph.claims = {}  BY DEF EmptyGraph
<1> QED  BY <1>1, <1>3, <1>4 DEF WellKept

LEMMA StepCrash ==
    ASSUME IInv, Crash
    PROVE  IInv'
<1> DEFINE dead == {t \in Tasks : task[t].op \in {"validate", "purge"}}
           lost == UNION {{task[t].version} \cup task[t].todo : t \in dead}
<1>1. /\ task' = [t \in Tasks |-> IF t \in dead THEN Idle ELSE task[t]]
      /\ tracker' = [v \in Versions |-> None]
      /\ graph' = IF backend = "in-memory" THEN EmptyGraph ELSE graph
      /\ cut' = IF backend = "in-memory" THEN Versions ELSE cut \cup lost
      /\ UNCHANGED <<backend, status, archived>>
  BY DEF Crash, catalog
<1>2. TypeOK  BY DEF IInv
<1>3. \A t \in dead : task[t] \in Works
  BY <1>2, IdleFields DEF TypeOK
<1>4. lost \in SUBSET Versions
  <2>1. \A t \in dead : {task[t].version} \cup task[t].todo \in SUBSET Versions
    BY <1>3, WorkFields
  <2> HIDE DEF dead
  <2> QED  BY <2>1
<1>5. \A t \in dead : task[t].version \in lost /\ task[t].todo \subseteq lost
  <2> HIDE DEF dead
  <2> QED  OBVIOUS
<1>6. \A t \in Tasks : t \notin dead => task'[t] = task[t]  BY <1>1
<1>7. \A t \in Tasks : task'[t] # Idle =>
         task'[t] = task[t] /\ task[t].op \notin {"validate", "purge"}
  BY <1>1
<1>8. cut \subseteq cut' /\ cut' \in SUBSET Versions
  <2> HIDE DEF lost
  <2> QED  BY <1>1, <1>2, <1>4 DEF TypeOK
<1>9. graph' \in Graphs /\ WellKept(backend, graph')
  BY <1>1, <1>2, EmptyIsKept DEF IInv, TypeOK
<1>10. task' \in [Tasks -> {Idle} \cup Works]
  BY <1>1, <1>2 DEF TypeOK
<1>11. TypeOK'
  <2>1. tracker' \in [Versions -> Terminal \cup {"IN_PROGRESS", None}]  BY <1>1
  <2>2. /\ backend' \in Backends /\ status' \in [Versions -> Statuses]
        /\ archived' \in SUBSET Documents
    BY <1>1, <1>2 DEF TypeOK
  <2> QED  BY <1>8, <1>9, <1>10, <2>1, <2>2 DEF TypeOK
<1>12. TaskInv'
  BY <1>1, <1>7 DEF IInv, TaskInv
<1>13. FlightInv'
  <2> SUFFICES ASSUME NEW u \in Versions, DocumentOf[u] \in archived, u \notin cut',
                      NEW x \in Tasks, task'[x].op \in Projections,
                      task'[x].version = u, task'[x].step \in Writing
               PROVE  FALSE
    BY <1>1 DEF FlightInv, InFlight
  <2>1. task'[x] = task[x]
    <3>1. task'[x] # Idle  BY IdleFields DEF Projections
    <3> QED  BY <1>7, <3>1
  <2>2. InFlight(u)  BY <2>1 DEF InFlight
  <2> QED  BY <1>8, <2>2 DEF IInv, FlightInv
<1>14. PurgeInv' /\ CopyInv'
  <2>1. CASE backend = "in-memory"
    <3>1. cut' = Versions  BY <1>1, <2>1
    <3> QED  BY <3>1 DEF PurgeInv, CopyInv
  <2>2. CASE backend # "in-memory"
    <3>1. graph' = graph /\ cut' = cut \cup lost  BY <1>1, <2>2
    <3>2. PurgeInv'
      <4> SUFFICES ASSUME NEW u \in Versions, status[u] = "PURGED", u \notin cut'
                   PROVE  DocumentOf[u] \in archived /\ Gone(graph, u)
        BY <1>1, <3>1 DEF PurgeInv
      <4>1. /\ DocumentOf[u] \in archived
            /\ Gone(graph, u) \/ \E x \in Tasks : Cleaning(x, u)
        BY <1>8 DEF IInv, PurgeInv
      <4>2. ASSUME NEW x \in Tasks, Cleaning(x, u)  PROVE FALSE
        <5>1. x \in dead  BY <4>2 DEF Cleaning
        <5>2. u \in lost  BY <1>5, <4>2, <5>1 DEF Cleaning
        <5> QED  BY <3>1, <5>2
      <4> QED  BY <4>1, <4>2
    <3>3. CopyInv'
      <4> SUFFICES ASSUME NEW u \in Versions, status[u] = "VALIDATED",
                          DocumentOf[u] \notin archived, u \notin cut'
                   PROVE  \/ \E x \in Tasks : Projecting(x, u, BeforeNodes)'
                          \/ /\ NodesHeld(backend, graph, u)
                             /\ EdgesHeld(graph, u)
                                   \/ \E x \in Tasks : Projecting(x, u, {"edges"})'
        BY <1>1, <3>1 DEF CopyInv
      <4>1. \/ \E x \in Tasks : Projecting(x, u, BeforeNodes)
            \/ /\ NodesHeld(backend, graph, u)
               /\ EdgesHeld(graph, u) \/ \E x \in Tasks : Projecting(x, u, {"edges"})
        BY <1>8 DEF IInv, CopyInv
      <4>2. ASSUME NEW x \in Tasks, NEW steps, Projecting(x, u, steps)
            PROVE  Projecting(x, u, steps)'
        <5>1. x \notin dead  BY <1>5, <3>1, <4>2 DEF Projecting
        <5>2. task'[x] = task[x]  BY <1>6, <5>1
        <5> QED  BY <4>2, <5>2 DEF Projecting
      <4> QED  BY <4>1, <4>2
    <3> QED  BY <3>2, <3>3
  <2> QED  BY <2>1, <2>2
<1>15. InProgressIsRunning'
  BY <1>1, ProjectionAssumption DEF InProgressIsRunning
<1>16. WellKept(backend, graph)'  BY <1>1, <1>9
<1> HIDE DEF dead, lost
<1> QED  BY <1>11, <1>12, <1>13, <1>14, <1>15, <1>16 DEF IInv

-----------------------------------------------------------------------------
LEMMA InitIInv == Init => IInv
<1> SUFFICES ASSUME Init  PROVE IInv
  OBVIOUS
<1>1. /\ \A t \in Tasks : task[t] = Idle
      /\ \A v \in Versions : status[v] = "NEEDS_REVIEW" /\ tracker[v] = None
      /\ graph = EmptyGraph
  BY DEF Init
<1>2. TypeOK  BY EmptyIsKept, Table DEF Init, TypeOK
<1>3. WellKept(backend, graph)  BY <1>1, EmptyIsKept
<1>4. TaskInv  BY <1>1 DEF TaskInv
<1>5. FlightInv
  BY <1>1, IdleFields DEF FlightInv, InFlight, Projections
<1>6. PurgeInv /\ CopyInv  BY <1>1 DEF PurgeInv, CopyInv
<1>7. InProgressIsRunning
  BY <1>1, ProjectionAssumption DEF InProgressIsRunning
<1> QED  BY <1>2, <1>3, <1>4, <1>5, <1>6, <1>7 DEF IInv

LEMMA NextIInv == IInv /\ [Next]_vars => IInv'
<1> SUFFICES ASSUME IInv, [Next]_vars  PROVE IInv'
  OBVIOUS
<1>1. ASSUME NEW t \in Tasks, Step(t)  PROVE IInv'
  BY <1>1, StepMarkStarted, StepReadDocument, StepClear, StepDetachNodes, StepCollect,
     StepPutNodes, StepPutEdges, StepExtract, StepPutEntities, StepCite, StepFail,
     StepReport, StepTombstone DEF Step
<1>2. ASSUME NEW t \in Tasks, NEW v \in Versions, Validate(t, v) \/ StartReconcile(t, v)
      PROVE  IInv'
  BY <1>2, StepValidate, StepStartReconcile
<1>3. ASSUME NEW t \in Tasks, NEW d \in Documents, StartPurge(t, d)  PROVE IInv'
  BY <1>3, StepStartPurge
<1>4. ASSUME NEW v \in Versions, Demote(v)  PROVE IInv'
  BY <1>4, StepDemote
<1>5. CASE Crash
  BY <1>5, StepCrash
<1>6. CASE UNCHANGED vars
  <2>1. UNCHANGED <<backend, status, archived, graph, tracker, task, cut>>
    BY <1>6 DEF vars
  <2>2. TypeOK' /\ TaskInv' /\ FlightInv' /\ WellKept(backend, graph)'
    BY <2>1 DEF IInv, TypeOK, TaskInv, FlightInv, InFlight
  <2>3. PurgeInv' /\ CopyInv' /\ InProgressIsRunning'
    BY <2>1 DEF IInv, PurgeInv, Cleaning, CopyInv, Projecting, InProgressIsRunning
  <2> QED  BY <2>2, <2>3 DEF IInv
<1> QED  BY <1>1, <1>2, <1>3, <1>4, <1>5, <1>6 DEF Next

LEMMA Inductive == Spec => []IInv
  BY InitIInv, NextIInv, PTL DEF Spec

-----------------------------------------------------------------------------
(* Every variable keeps its type: the graph is a graph of the known ids,    *)
(* and a working thread's record names a version.                          *)
THEOREM ProjectionIsTyped == Spec => []TypeOK
<1>1. IInv => TypeOK  BY DEF IInv
<1> QED  BY <1>1, Inductive, PTL

(* A node of the in-memory store that some version still claims is there,   *)
(* whatever projections and purges of other versions deleted meanwhile:    *)
(* delete_subgraph_for_version drops a node with its last claim.           *)
THEOREM ClaimedNodesAlwaysStand == Spec => []ClaimedNodesStand
<1>1. IInv => ClaimedNodesStand  BY DEF IInv, WellKept, ClaimedNodesStand
<1> QED  BY <1>1, Inductive, PTL

(* The reviewer's indicator says IN_PROGRESS only while a tracked projection *)
(* of that version runs, whichever statement fails and whenever the        *)
(* process dies.                                                           *)
THEOREM InProgressAlwaysRuns == Spec => []InProgressIsRunning
<1>1. IInv => InProgressIsRunning  BY DEF IInv
<1> QED  BY <1>1, Inductive, PTL

(* A thread at rest neither projects nor purges. *)
LEMMA QuietIsIdle ==
    ASSUME Quiet, NEW t \in Tasks
    PROVE  task[t].op = "none" /\ task[t].op \notin Projections \cup {"purge"}
  BY IdleFields DEF Quiet, Projections

(* When nothing runs, a validated version of a visible document none of     *)
(* whose projections was cut short has all its nodes and edges in the      *)
(* graph, in either store, however projections, reconciliations and purges *)
(* overlapped.                                                             *)
THEOREM ValidatedAlwaysInGraph == Spec => []ValidatedIsInGraph
<1>1. IInv => ValidatedIsInGraph
  <2> SUFFICES ASSUME IInv, Quiet, NEW v \in Versions, status[v] = "VALIDATED",
                      DocumentOf[v] \notin archived, v \notin cut
               PROVE  Complete(v)
    BY DEF ValidatedIsInGraph
  <2>1. \A t \in Tasks : \A steps : ~Projecting(t, v, steps)
    BY QuietIsIdle DEF Projecting
  <2>2. NodesHeld(backend, graph, v) /\ EdgesHeld(graph, v)
    BY <2>1 DEF IInv, CopyInv
  <2> QED  BY <2>2 DEF Complete, NodesHeld, EdgesHeld
<1> QED  BY <1>1, Inductive, PTL

(* When nothing runs, a purged version that no fault and no projection met  *)
(* has neither its node nor an edge in the graph: archiving comes first    *)
(* and turns later projections away.                                       *)
THEOREM PurgedAlwaysLeavesGraph == Spec => []PurgedLeavesGraph
<1>1. IInv => PurgedLeavesGraph
  <2> SUFFICES ASSUME IInv, Quiet, NEW v \in Versions, status[v] = "PURGED", v \notin cut
               PROVE  Gone(graph, v)
    BY DEF PurgedLeavesGraph, Absent, Gone, EdgesGone
  <2>1. \A t \in Tasks : ~Cleaning(t, v)
    BY QuietIsIdle DEF Cleaning
  <2> QED  BY <2>1 DEF IInv, PurgeInv
<1> QED  BY <1>1, Inductive, PTL

-----------------------------------------------------------------------------
(* The projection implements the copy: what is needed besides the           *)
(* invariant.                                                              *)

(* Of a version's nodes the graph has all or not its own. *)
Together(b, g) == \A u \in Versions : g.node[u] # None => NodesHeld(b, g, u)

(* Only a purge has further versions to do. *)
TodoInv == \A t \in Tasks : task[t].op \in Projections => task[t].todo = {}

CInv == IInv /\ Together(backend, graph) /\ TodoInv

(* A statement that leaves u's own node and structure as they were. *)
Undisturbed(g, h, u) ==
    /\ h.node[u] = g.node[u]
    /\ EdgesHeld(h, u) <=> EdgesHeld(g, u)
    /\ EdgesGone(g, u) => EdgesGone(h, u)

(* A statement on v's behalf, that disturbs no other version. *)
Alone(b, g, h, v) ==
    /\ Together(b, g) => Together(b, h)
    /\ \A u \in Versions \ {v} : Undisturbed(g, h, u)

LEMMA SameGraphAlone ==
    ASSUME NEW b, NEW g, NEW v
    PROVE  Alone(b, g, g, v)
  BY DEF Alone, Undisturbed

(* A statement that takes edges away, and keeps the structures that were   *)
(* whole.                                                                  *)
LEMMA ShrunkAlone ==
    ASSUME NEW b, NEW g, NEW h, NEW v \in Versions, h.edges \subseteq g.edges,
           \A u \in Versions \ {v} : h.node[u] = g.node[u] /\ Keeps(b, g, h, u),
           h.node[v] = None \/ (h.node[v] = g.node[v]
                                  /\ (NodesHeld(b, g, v) => NodesHeld(b, h, v)))
    PROVE  Alone(b, g, h, v)
<1>1. ASSUME NEW u \in Versions \ {v}  PROVE Undisturbed(g, h, u)
  BY DEF Undisturbed, Keeps, EdgesHeld
<1>2. ASSUME Together(b, g), NEW u \in Versions, h.node[u] # None
      PROVE  NodesHeld(b, h, u)
  BY <1>2 DEF Together, Keeps
<1> QED  BY <1>1, <1>2 DEF Alone, Together

LEMMA NodesWrittenAlone ==
    ASSUME NEW b \in Stores, NEW g \in Graphs, NEW h, WellKept(b, g),
           NEW v \in Versions, NEW ns \in SUBSET NodeIds,
           ns = StructureNodes(v) \/ ns \cap Versions = {},
           h = IF b = "neo4j" THEN MergeNodes(g, v, ns) ELSE UpsertNodes(g, v, ns)
    PROVE  Alone(b, g, h, v)
<1>1. ns \cap Versions \subseteq {v}  BY StructureOf
<1>2. /\ h.edges = g.edges
      /\ \A n \in NodeIds : n \notin ns => h.node[n] = g.node[n]
  <2>1. CASE b = "neo4j"
    BY <2>1, MergeNodesGives
  <2>2. CASE b # "neo4j"
    BY <2>2, UpsertNodesGives
  <2> QED  BY <2>1, <2>2
<1>3. /\ \A u \in Versions \ {v} : Keeps(b, g, h, u)
      /\ NodesHeld(b, g, v) => NodesHeld(b, h, v)
      /\ ns = StructureNodes(v) => NodesHeld(b, h, v)
  BY <1>1, NodesWritten
<1>4. ASSUME NEW u \in Versions, u \notin ns  PROVE h.node[u] = g.node[u]
  BY <1>2, <1>4, Ids
<1>5. ASSUME NEW u \in Versions \ {v}  PROVE Undisturbed(g, h, u)
  <2>1. u \notin ns  BY <1>1
  <2> QED  BY <1>2, <1>4, <2>1 DEF Undisturbed, EdgesHeld, EdgesGone
<1>6. ASSUME Together(b, g), NEW u \in Versions, h.node[u] # None
      PROVE  NodesHeld(b, h, u)
  <2>1. CASE u = v /\ ns = StructureNodes(v)
    BY <1>3, <2>1
  <2>2. CASE u # v \/ ns \cap Versions = {}
    <3>1. h.node[u] = g.node[u]  BY <1>1, <1>4, <2>2
    <3>2. NodesHeld(b, g, u)  BY <1>6, <3>1 DEF Together
    <3> QED  BY <1>3, <3>2 DEF Keeps
  <2> QED  BY <2>1, <2>2
<1> QED  BY <1>5, <1>6 DEF Alone, Together

LEMMA EdgesWrittenAlone ==
    ASSUME NEW b \in Stores, NEW g \in Graphs, NEW h, WellKept(b, g),
           NEW v \in Versions, NEW es \in SUBSET Edges, \A e \in es : e.version = v,
           h = IF b = "neo4j" THEN MergeEdges(g, es) ELSE UpsertEdges(g, es)
    PROVE  Alone(b, g, h, v)
<1> DEFINE linked == {e \in es : g.node[e.from] # None /\ g.node[e.to] # None}
<1>1. PICK new \in SUBSET es : h.node = g.node /\ h.edges = g.edges \cup new
  <2>1. CASE b = "neo4j"
    <3>1. h = UpsertEdges(g, linked)  BY <2>1, Zenon DEF MergeEdges
    <3>2. linked \in SUBSET Edges /\ linked \in SUBSET es  OBVIOUS
    <3> HIDE DEF linked
    <3> QED  BY <3>1, <3>2, UpsertEdgesGives
  <2>2. CASE b # "neo4j"
    BY <2>2, UpsertEdgesGives
  <2> QED  BY <2>1, <2>2
<1>2. /\ \A u \in Versions \ {v} : Keeps(b, g, h, u)
      /\ NodesHeld(b, g, v) => NodesHeld(b, h, v)
  BY EdgesWritten
<1>3. ASSUME NEW u \in Versions \ {v}  PROVE Undisturbed(g, h, u)
  <2>1. \A e \in new : e.version = v  OBVIOUS
  <2>2. EdgesHeld(h, u) => EdgesHeld(g, u)
    BY <1>1, <2>1, StructureOf DEF EdgesHeld
  <2>3. (EdgesHeld(g, u) => EdgesHeld(h, u)) /\ (EdgesGone(g, u) => EdgesGone(h, u))
    BY <1>2 DEF Keeps
  <2> QED  BY <1>1, <2>2, <2>3 DEF Undisturbed
<1>4. ASSUME Together(b, g), NEW u \in Versions, h.node[u] # None
      PROVE  NodesHeld(b, h, u)
  <2>1. NodesHeld(b, g, u)  BY <1>1, <1>4 DEF Together
  <2> QED  BY <1>2, <2>1 DEF Keeps
<1> QED  BY <1>3, <1>4 DEF Alone, Together

LEMMA VersionDeletedAlone ==
    ASSUME NEW g \in Graphs, WellKept("in-memory", g), NEW v \in Versions,
           NEW h, h = DeleteVersion(g, v)
    PROVE  Alone("in-memory", g, h, v)
<1>1. /\ \A u \in Versions \ {v} : Keeps("in-memory", g, h, u)
      /\ h.node[v] = None
  BY VersionDeleted DEF Gone
<1>2. /\ h.edges = {e \in g.edges : e.version # v}
      /\ \A n \in NodeIds : <<v, n>> \notin g.claims => h.node[n] = g.node[n]
  BY DeleteVersionGives
<1>3. ASSUME NEW u \in Versions \ {v}  PROVE h.node[u] = g.node[u]
  <2>1. <<v, u>> \notin g.claims  BY DEF WellKept
  <2> QED  BY <1>2, <2>1, Ids
<1>4. h.edges \subseteq g.edges  BY <1>2
<1> QED  BY <1>1, <1>3, <1>4, ShrunkAlone

LEMMA EdgesDeletedAlone ==
    ASSUME NEW g \in Graphs, WellKept("neo4j", g), NEW v \in Versions,
           NEW h, h = DeleteEdges(g, v)
    PROVE  Alone("neo4j", g, h, v)
<1>1. \A u \in Versions \ {v} : Keeps("neo4j", g, h, u)  BY EdgesDeleted
<1>2. h.node = g.node /\ h.edges = {e \in g.edges : e.version # v}
  BY DeleteEdgesGives
<1>3. NodesHeld("neo4j", g, v) => NodesHeld("neo4j", h, v)
  BY <1>2 DEF NodesHeld
<1>4. h.edges \subseteq g.edges  BY <1>2
<1> QED  BY <1>1, <1>2, <1>3, <1>4, ShrunkAlone

LEMMA VersionDetachedAlone ==
    ASSUME NEW g \in Graphs, WellKept("neo4j", g), NEW v \in Versions,
           NEW h, h = DetachVersion(g, v)
    PROVE  Alone("neo4j", g, h, v)
<1> DEFINE ns == {n \in Documents \cup Versions : g.node[n] = v}
<1>1. h = Detach(g, ns) /\ ns \in SUBSET NodeIds  BY Ids DEF DetachVersion
<1>2. ASSUME NEW u \in Versions
      PROVE  u \in NodeIds /\ g.node[u] \in {u, None} /\ u # None
  BY Ids DEF WellKept
<1>3. \A u \in Versions : u \in ns <=> g.node[u] = v  OBVIOUS
<1> HIDE DEF ns
<1>4. /\ \A n \in NodeIds : h.node[n] = IF n \in ns THEN None ELSE g.node[n]
      /\ h.edges \subseteq g.edges
  BY <1>1, DetachGives
<1>5. h.node[v] = None  BY <1>2, <1>3, <1>4
<1>6. \A u \in Versions \ {v} : h.node[u] = g.node[u]  BY <1>2, <1>3, <1>4
<1>7. \A u \in Versions \ {v} : Keeps("neo4j", g, h, u)  BY VersionDetached
<1> QED  BY <1>4, <1>5, <1>6, <1>7, ShrunkAlone

LEMMA EntitiesCollectedAlone ==
    ASSUME NEW g \in Graphs, WellKept("neo4j", g), NEW v \in Versions,
           NEW h, h = CollectEntities(g)
    PROVE  Alone("neo4j", g, h, v)
<1> DEFINE ns == {n \in Entities : \A e \in g.edges : e.to # n}
<1>1. h = Detach(g, ns) /\ ns \in SUBSET NodeIds  BY Ids DEF CollectEntities
<1>2. \A u \in Versions : u \in NodeIds /\ u \notin ns  BY Ids
<1> HIDE DEF ns
<1>3. /\ \A n \in NodeIds : h.node[n] = IF n \in ns THEN None ELSE g.node[n]
      /\ h.edges \subseteq g.edges
  BY <1>1, DetachGives
<1>4. \A u \in Versions : h.node[u] = g.node[u]  BY <1>2, <1>3
<1>5. \A u \in Versions : Keeps("neo4j", g, h, u)  BY EntitiesCollected
<1>6. NodesHeld("neo4j", g, v) => NodesHeld("neo4j", h, v)  BY <1>5 DEF Keeps
<1> QED  BY <1>3, <1>4, <1>5, <1>6, ShrunkAlone

-----------------------------------------------------------------------------
(* Each statement of a projection or a deletion is work on its version.    *)

(* What a thread's statement on behalf of v does to the copy. *)
Statement(t, v) ==
    /\ UNCHANGED <<backend, status, archived>>
    /\ cut' \in {cut, cut \cup {v}}
    /\ Moves(t)
    /\ \A u \in Versions \ {v} : HoldsVersion(t, u)' <=> HoldsVersion(t, u)
    /\ task'[t].op \in Projections => task'[t].todo = {}
    /\ Alone(backend, graph, graph', v)

LEMMA AtWork ==
    ASSUME CInv, NEW t \in Tasks, task[t].step # "idle"
    PROVE  /\ task[t] \in Works /\ task[t].version \in Versions
           /\ task[t].op \in Projections => task[t].todo = {}
           /\ TypeOK /\ graph \in Graphs /\ WellKept(backend, graph)
           /\ backend \in Stores
  BY Working, BackendKnown DEF CInv, TodoInv

LEMMA GoesStatement ==
    ASSUME CInv, NEW t \in Tasks, NEW v \in Versions, task[t] \in Works,
           task[t].version = v, NEW s \in Steps, Goto(t, s),
           UNCHANGED <<backend, status, archived, cut>>,
           Alone(backend, graph, graph', v)
    PROVE  Statement(t, v)
<1>1. Moves(t) /\ task'[t] = [task[t] EXCEPT !.step = s]
  BY Goes DEF Moves, CInv, IInv
<1>2. /\ task'[t].op = task[t].op /\ task'[t].version = task[t].version
      /\ task'[t].todo = task[t].todo
  BY <1>1 DEF Works
<1>3. task'[t].op \in Projections => task'[t].todo = {}
  BY <1>2 DEF CInv, TodoInv
<1> QED  BY <1>1, <1>2, <1>3 DEF Statement, HoldsVersion

LEMMA FinishesStatement ==
    ASSUME CInv, NEW t \in Tasks, NEW v \in Versions, task[t] \in Works,
           task[t].version = v, Finish(t), task[t].todo = {},
           UNCHANGED <<backend, status, archived>>, cut' \in {cut, cut \cup {v}},
           Alone(backend, graph, graph', v)
    PROVE  Statement(t, v)
<1>1. Moves(t) /\ task'[t] = Idle
  BY Finishes DEF Moves, CInv, IInv
<1>2. \A u \in Versions : ~HoldsVersion(t, u)'
  BY <1>1, IdleFields, Ids DEF HoldsVersion
<1> QED  BY <1>1, <1>2, IdleFields DEF Statement, HoldsVersion

LEMMA DeletedStatement ==
    ASSUME CInv, NEW t \in Tasks, NEW v \in Versions, task[t] \in Works,
           task[t].version = v, AfterDelete(t),
           UNCHANGED <<backend, status, archived>>, cut' \in {cut, cut \cup {v}},
           task[t].op = "purge" \/ cut' = cut,
           Alone(backend, graph, graph', v)
    PROVE  Statement(t, v)
<1>1. CASE task[t].op # "purge"
  <2>1. Goto(t, "nodes") /\ "nodes" \in Steps
    BY <1>1 DEF AfterDelete, Steps, Writing
  <2> QED  BY <1>1, <2>1, GoesStatement
<1>2. CASE task[t].op = "purge" /\ task[t].todo = {}
  BY <1>2, FinishesStatement DEF AfterDelete
<1>3. CASE task[t].op = "purge" /\ task[t].todo # {}
  <2>0. TypeOK  BY DEF CInv, IInv
  <2>1. PICK w \in task[t].todo :
           task'[t] = [task[t] EXCEPT !.version = w, !.step = "clear",
                                      !.todo = task[t].todo \ {w}]
    BY <1>3, <2>0, Deleted
  <2>2. Moves(t)  BY <2>0, Deleted DEF Moves
  <2>3. /\ task'[t].op = "purge" /\ task'[t].version = w
        /\ task'[t].todo = task[t].todo \ {w}
    BY <1>3, <2>1 DEF Works
  <2>4. "purge" \notin Projections  BY DEF Projections
  <2> QED  BY <2>2, <2>3, <2>4 DEF Statement, HoldsVersion
<1> QED  BY <1>1, <1>2, <1>3

LEMMA ConcludesStatement ==
    ASSUME CInv, NEW t \in Tasks, NEW v \in Versions, task[t] \in Works,
           task[t].op \in Projections, task[t].version = v, Conclude(t),
           UNCHANGED <<backend, status, archived, cut>>,
           Alone(backend, graph, graph', v)
    PROVE  Statement(t, v)
<1>1. CASE task[t].op = "validate"
  <2>1. Goto(t, "report") /\ "report" \in Steps  BY <1>1 DEF Conclude, Steps
  <2> QED  BY <1>1, <2>1, GoesStatement
<1>2. CASE task[t].op # "validate"
  <2>1. Finish(t) /\ task[t].todo = {}  BY <1>2 DEF Conclude, CInv, TodoInv
  <2> QED  BY <2>1, FinishesStatement
<1> QED  BY <1>1, <1>2

(* Those that leave the graph alone. *)
LEMMA LookStatement ==
    ASSUME CInv, NEW t \in Tasks, MarkStarted(t) \/ ReadDocument(t)
    PROVE  \E v \in Versions : task[t].version = v /\ Statement(t, v)
<1>1. task[t].step # "idle"  BY DEF MarkStarted, ReadDocument, At
<1>2. PICK v \in Versions : task[t].version = v  BY <1>1, AtWork
<1>3. task[t] \in Works  BY <1>1, AtWork
<1>4. {"read", "clear", "report"} \subseteq Steps  BY DEF Steps, Writing
<1>5. PICK s \in Steps : Goto(t, s)
  <2>1. CASE MarkStarted(t)
    BY <1>4, <2>1 DEF MarkStarted
  <2>2. CASE ReadDocument(t) /\ DocumentOf[task[t].version] \in archived
    <3>1. Goto(t, "report")  BY <2>2 DEF ReadDocument
    <3> QED  BY <1>4, <3>1
  <2>3. CASE ReadDocument(t) /\ DocumentOf[task[t].version] \notin archived
    <3>1. Goto(t, "clear")  BY <2>3 DEF ReadDocument
    <3> QED  BY <1>4, <3>1
  <2> QED  BY <2>1, <2>2, <2>3
<1>6. UNCHANGED <<backend, status, archived, cut, graph>>
  BY DEF MarkStarted, ReadDocument, catalog
<1>7. Alone(backend, graph, graph', v)  BY <1>6, SameGraphAlone
<1> QED  BY <1>2, <1>3, <1>5, <1>6, <1>7, GoesStatement

LEMMA ExtractStatement ==
    ASSUME CInv, NEW t \in Tasks, Extract(t)
    PROVE  \E v \in Versions : task[t].version = v /\ Statement(t, v)
<1>1. task[t].step # "idle" /\ task[t].op \in Projections  BY DEF Extract, At
<1>2. PICK v \in Versions : task[t].version = v  BY <1>1, AtWork
<1>3. task[t] \in Works /\ TypeOK /\ task[t].todo = {}  BY <1>1, AtWork
<1>4. UNCHANGED <<backend, status, archived, cut, graph>>
  BY DEF Extract, catalog
<1>5. Alone(backend, graph, graph', v)  BY <1>4, SameGraphAlone
<1>6. CASE Conclude(t)
  BY <1>1, <1>2, <1>3, <1>4, <1>5, <1>6, ConcludesStatement
<1>7. CASE ~Conclude(t)
  <2>1. PICK found \in SUBSET Triples :
           task' = [task EXCEPT ![t].triples = found, ![t].step = "entities"]
    BY <1>7 DEF Extract
  <2> DEFINE r == [task[t] EXCEPT !.triples = found, !.step = "entities"]
  <2>2. "entities" \in Steps  BY DEF Writing, Steps
  <2>3. r \in Works  BY <1>3, <2>2 DEF Works
  <2>4. r.op = task[t].op /\ r.version = v /\ r.todo = {}
    BY <1>2, <1>3 DEF Works
  <2>5. task' = [task EXCEPT ![t] = r]  BY <1>3, <2>1 DEF TypeOK
  <2> HIDE DEF r
  <2>6. Moves(t) /\ task'[t] = r  BY <1>3, <2>3, <2>5, TakesUp DEF Moves
  <2>7. \A u \in Versions \ {v} : ~HoldsVersion(t, u) /\ ~HoldsVersion(t, u)'
    BY <1>2, <1>3, <2>4, <2>6 DEF HoldsVersion
  <2> QED  BY <1>2, <1>4, <1>5, <2>4, <2>6, <2>7 DEF Statement
<1> QED  BY <1>6, <1>7

LEMMA FailStatement ==
    ASSUME CInv, NEW t \in Tasks, Fail(t)
    PROVE  \E v \in Versions : task[t].version = v /\ Statement(t, v)
<1>1. task[t].step \in Writing \cup {"read"}  BY DEF Fail
<1>2. task[t].step # "idle"  BY <1>1 DEF Writing
<1>3. PICK v \in Versions : task[t].version = v  BY <1>2, AtWork
<1>4. /\ task[t] \in Works /\ TypeOK
      /\ task[t].op \in Projections => task[t].todo = {}
  BY <1>2, AtWork
<1>5. UNCHANGED <<backend, status, archived, graph>> /\ cut' = cut \cup {v}
  BY <1>3 DEF Fail, catalog
<1>6. Alone(backend, graph, graph', v)  BY <1>5, SameGraphAlone
<1>7. CASE task[t].op = "purge"
  <2>1. AfterDelete(t)  BY <1>7 DEF Fail
  <2> QED  BY <1>3, <1>4, <1>5, <1>6, <1>7, <2>1, DeletedStatement
<1>8. CASE task[t].op = "reconcile"
  <2>1. Finish(t) /\ task[t].todo = {}  BY <1>4, <1>8 DEF Fail, Projections
  <2> QED  BY <1>3, <1>4, <1>5, <1>6, <2>1, FinishesStatement
<1>9. CASE task[t].op = "validate"
  <2> DEFINE next == IF task[t].step \in {"read", "extract", "entities", "cite"}
                     THEN "report" ELSE "extract"
             r == [task[t] EXCEPT !.failed = TRUE, !.step = next]
  <2>1. task' = [task EXCEPT ![t].failed = TRUE,
                             ![t].step = IF @ \in {"read", "extract", "entities", "cite"}
                                         THEN "report" ELSE "extract"]
    BY <1>9 DEF Fail
  <2>2. next \in Steps  BY DEF Steps, Writing
  <2>3. task' = [task EXCEPT ![t] = r]
    <3>1. [task[t] EXCEPT !.failed = TRUE].step = task[t].step  BY <1>4 DEF Works
    <3> QED  BY <1>4, <2>1, <3>1 DEF TypeOK
  <2> HIDE DEF next
  <2>4. r \in Works  BY <1>4, <2>2 DEF Works
  <2>5. r.op = task[t].op /\ r.version = v /\ r.todo = task[t].todo
    BY <1>3, <1>4 DEF Works
  <2> HIDE DEF r
  <2>6. Moves(t) /\ task'[t] = r  BY <1>4, <2>3, <2>4, TakesUp DEF Moves
  <2>7. task[t].todo = {}  BY <1>4, <1>9 DEF Projections
  <2>8. \A u \in Versions \ {v} : ~HoldsVersion(t, u) /\ ~HoldsVersion(t, u)'
    BY <1>3, <2>5, <2>6, <2>7 DEF HoldsVersion
  <2> QED  BY <1>3, <1>5, <1>6, <2>5, <2>6, <2>7, <2>8 DEF Statement
<1> QED
  <2>1. task[t].op \in Projections \cup {"purge"}  BY <1>4, WorkFields
  <2> QED  BY <1>7, <1>8, <1>9, <2>1 DEF Projections

LEMMA ReportStatement ==
    ASSUME CInv, NEW t \in Tasks, Report(t)
    PROVE  \E v \in Versions : task[t].version = v /\ Statement(t, v)
<1>1. task[t].op = "validate" /\ task[t].step # "idle"  BY DEF Report, At
<1>2. PICK v \in Versions : task[t].version = v  BY <1>1, AtWork
<1>3. task[t] \in Works /\ task[t].todo = {}  BY <1>1, AtWork DEF Projections
<1>4. UNCHANGED <<backend, status, archived, cut, graph>> /\ Finish(t)
  BY DEF Report, catalog
<1>5. Alone(backend, graph, graph', v)  BY <1>4, SameGraphAlone
<1> QED  BY <1>2, <1>3, <1>4, <1>5, FinishesStatement

(* Those that write. *)
LEMMA PutStatement ==
    ASSUME CInv, NEW t \in Tasks, PutNodes(t) \/ PutEntities(t)
    PROVE  \E v \in Versions : task[t].version = v /\ Statement(t, v)
<1>1. task[t].step # "idle"  BY DEF PutNodes, PutEntities, At
<1>2. PICK v \in Versions : task[t].version = v  BY <1>1, AtWork
<1>3. /\ task[t] \in Works /\ graph \in Graphs /\ WellKept(backend, graph)
      /\ backend \in Stores
  BY <1>1, AtWork
<1>4. UNCHANGED <<backend, status, archived, cut>>
  BY DEF PutNodes, PutEntities, catalog
<1>5. {"edges", "cite"} \subseteq Steps  BY DEF Steps, Writing
<1>6. PICK ns \in SUBSET NodeIds :
         /\ ns = StructureNodes(v) \/ ns \cap Versions = {}
         /\ graph' = IF backend = "neo4j" THEN MergeNodes(graph, v, ns)
                                          ELSE UpsertNodes(graph, v, ns)
  <2>1. CASE PutNodes(t)
    <3>1. StructureNodes(v) \in SUBSET NodeIds  BY StructureOf
    <3> QED  BY <1>2, <2>1, <3>1 DEF PutNodes, WriteNodes
  <2>2. CASE PutEntities(t)
    <3>1. /\ CitedNodes(task[t].triples) \in SUBSET NodeIds
          /\ CitedNodes(task[t].triples) \cap Versions = {}
      BY <1>3, WorkFields, Cited
    <3> QED  BY <1>2, <2>2, <3>1 DEF PutEntities, WriteNodes
  <2> QED  BY <2>1, <2>2
<1>7. Alone(backend, graph, graph', v)  BY <1>3, <1>6, NodesWrittenAlone
<1>8. PICK s \in Steps : Goto(t, s)  BY <1>5 DEF PutNodes, PutEntities
<1> QED  BY <1>2, <1>3, <1>4, <1>7, <1>8, GoesStatement

LEMMA PutEdgesStatement ==
    ASSUME CInv, NEW t \in Tasks, PutEdges(t)
    PROVE  \E v \in Versions : task[t].version = v /\ Statement(t, v)
<1>1. task[t].step # "idle"  BY DEF PutEdges, At
<1>2. PICK v \in Versions : task[t].version = v  BY <1>1, AtWork
<1>3. /\ task[t] \in Works /\ graph \in Graphs /\ WellKept(backend, graph)
      /\ backend \in Stores
  BY <1>1, AtWork
<1>4. UNCHANGED <<backend, status, archived, cut>> /\ Goto(t, "extract")
  BY DEF PutEdges, catalog
<1>5. "extract" \in Steps  BY DEF Steps, Writing
<1>6. /\ StructureEdges(v) \in SUBSET Edges
      /\ \A e \in StructureEdges(v) : e.version = v
  BY StructureOf
<1>7. graph' = IF backend = "neo4j" THEN MergeEdges(graph, StructureEdges(v))
                                    ELSE UpsertEdges(graph, StructureEdges(v))
  BY <1>2 DEF PutEdges, WriteEdges
<1>8. Alone(backend, graph, graph', v)  BY <1>3, <1>6, <1>7, EdgesWrittenAlone
<1> QED  BY <1>2, <1>3, <1>4, <1>5, <1>8, GoesStatement

LEMMA CiteStatement ==
    ASSUME CInv, NEW t \in Tasks, Cite(t)
    PROVE  \E v \in Versions : task[t].version = v /\ Statement(t, v)
<1>1. task[t].step # "idle" /\ task[t].op \in Projections  BY DEF Cite, At
<1>2. PICK v \in Versions : task[t].version = v  BY <1>1, AtWork
<1>3. /\ task[t] \in Works /\ graph \in Graphs /\ WellKept(backend, graph)
      /\ backend \in Stores
  BY <1>1, AtWork
<1>4. UNCHANGED <<backend, status, archived, cut>> /\ Conclude(t)
  BY DEF Cite, catalog
<1>5. PICK es \in SUBSET Edges :
         es = CitedEdges(v, task[t].triples) /\ \A e \in es : e.version = v
  BY <1>3, WorkFields, Cited
<1>6. graph' = IF backend = "neo4j" THEN MergeEdges(graph, es) ELSE UpsertEdges(graph, es)
  BY <1>2, <1>5 DEF Cite, WriteEdges
<1>7. Alone(backend, graph, graph', v)  BY <1>3, <1>5, <1>6, EdgesWrittenAlone
<1> QED  BY <1>1, <1>2, <1>3, <1>4, <1>7, ConcludesStatement

(* Those that delete. *)
LEMMA ClearStatement ==
    ASSUME CInv, NEW t \in Tasks, Clear(t)
    PROVE  \E v \in Versions : task[t].version = v /\ Statement(t, v)
<1>1. task[t].step # "idle"  BY DEF Clear, At
<1>2. PICK v \in Versions : task[t].version = v  BY <1>1, AtWork
<1>3. task[t] \in Works /\ graph \in Graphs /\ WellKept(backend, graph)
  BY <1>1, AtWork
<1>4. UNCHANGED <<backend, status, archived, cut>>  BY DEF Clear, catalog
<1>5. CASE backend = "in-memory"
  <2>1. graph' = DeleteVersion(graph, v) /\ AfterDelete(t)  BY <1>2, <1>5 DEF Clear
  <2>2. Alone(backend, graph, graph', v)  BY <1>3, <1>5, <2>1, VersionDeletedAlone
  <2> QED  BY <1>2, <1>3, <1>4, <2>1, <2>2, DeletedStatement
<1>6. CASE backend = "neo4j"
  <2>1. graph' = DeleteEdges(graph, v) /\ Goto(t, "detach") /\ "detach" \in Steps
    BY <1>2, <1>6 DEF Clear, Steps, Writing
  <2>2. Alone(backend, graph, graph', v)  BY <1>3, <1>6, <2>1, EdgesDeletedAlone
  <2> QED  BY <1>2, <1>3, <1>4, <2>1, <2>2, GoesStatement
<1> QED  BY <1>5, <1>6 DEF Clear

LEMMA DetachCollectStatement ==
    ASSUME CInv, NEW t \in Tasks, DetachNodes(t) \/ Collect(t)
    PROVE  \E v \in Versions : task[t].version = v /\ Statement(t, v)
<1>1. task[t].step \in {"detach", "collect"} /\ task[t].step # "idle"
  BY DEF DetachNodes, Collect, At
<1>2. PICK v \in Versions : task[t].version = v  BY <1>1, AtWork
<1>3. /\ task[t] \in Works /\ graph \in Graphs /\ WellKept(backend, graph)
      /\ task[t] # Idle
  BY <1>1, AtWork, WorkFields
<1>4. backend = "neo4j"  BY <1>1, <1>3 DEF CInv, IInv, TaskInv
<1>5. UNCHANGED <<backend, status, archived, cut>>
  BY DEF DetachNodes, Collect, catalog
<1>6. CASE DetachNodes(t)
  <2>1. graph' = DetachVersion(graph, v) /\ Goto(t, "collect") /\ "collect" \in Steps
    BY <1>2, <1>6 DEF DetachNodes, Steps, Writing
  <2>2. Alone(backend, graph, graph', v)  BY <1>3, <1>4, <2>1, VersionDetachedAlone
  <2> QED  BY <1>2, <1>3, <1>5, <2>1, <2>2, GoesStatement
<1>7. CASE Collect(t)
  <2>1. graph' = CollectEntities(graph) /\ AfterDelete(t)  BY <1>7 DEF Collect
  <2>2. Alone(backend, graph, graph', v)  BY <1>3, <1>4, <2>1, EntitiesCollectedAlone
  <2> QED  BY <1>2, <1>3, <1>5, <2>1, <2>2, DeletedStatement
<1> QED  BY <1>6, <1>7

LEMMA EveryStatement ==
    ASSUME CInv, NEW t \in Tasks, Step(t), ~Tombstone(t)
    PROVE  \E v \in Versions : task[t].version = v /\ Statement(t, v)
  BY LookStatement, ExtractStatement, FailStatement, ReportStatement, PutStatement,
     PutEdgesStatement, CiteStatement, ClearStatement, DetachCollectStatement DEF Step

(* What holds besides the invariant is kept, too. *)
LEMMA CInvInductive == Spec => []CInv
<1>1. Init => CInv
  <2> SUFFICES ASSUME Init  PROVE CInv
    OBVIOUS
  <2>1. IInv  BY InitIInv
  <2>2. \A n \in NodeIds : graph.node[n] = None  BY DEF Init, EmptyGraph
  <2>3. Together(backend, graph)  BY <2>2, Ids DEF Together
  <2>4. TodoInv  BY IdleFields DEF Init, TodoInv
  <2> QED  BY <2>1, <2>3, <2>4 DEF CInv
<1>2. CInv /\ [Next]_vars => CInv'
  <2> SUFFICES ASSUME CInv, [Next]_vars  PROVE CInv'
    OBVIOUS
  <2>1. IInv' /\ TypeOK  BY NextIInv DEF CInv, IInv
  <2>2. CASE UNCHANGED <<backend, graph>> /\ TodoInv'
    BY <2>1, <2>2 DEF CInv
  <2>3. ASSUME NEW t \in Tasks, Step(t), ~Tombstone(t)  PROVE CInv'
    <3>1. PICK v \in Versions : task[t].version = v /\ Statement(t, v)
      BY <2>3, EveryStatement
    <3>2. Together(backend, graph)'  BY <3>1 DEF Statement, Alone, CInv
    <3>3. TodoInv'  BY <3>1 DEF Statement, Moves, TodoInv, CInv
    <3> QED  BY <2>1, <3>2, <3>3 DEF CInv
  <2>4. ASSUME NEW t \in Tasks, Tombstone(t)  PROVE CInv'
    <3>1. task[t].op = "purge" /\ task[t].step # "idle"  BY <2>4 DEF Tombstone, At
    <3>2. task[t] \in Works  BY <3>1, AtWork
    <3>3. Goto(t, "clear") /\ "clear" \in Steps  BY <2>4 DEF Tombstone, Steps, Writing
    <3>4. /\ \A x \in Tasks \ {t} : task'[x] = task[x]
          /\ task'[t] = [task[t] EXCEPT !.step = "clear"]
      BY <2>1, <3>2, <3>3, Goes
    <3>5. task'[t].op = "purge"  BY <3>1, <3>2, <3>4 DEF Works
    <3>6. TodoInv'  BY <3>4, <3>5 DEF TodoInv, CInv, Projections
    <3> QED  BY <2>2, <2>4, <3>6 DEF Tombstone
  <2>5. ASSUME NEW t \in Tasks, NEW v \in Versions, Validate(t, v) \/ StartReconcile(t, v)
        PROVE  CInv'
    <3>1. \A x \in Tasks \ {t} : task'[x] = task[x]
      BY <2>1, <2>5 DEF Validate, StartReconcile, TypeOK
    <3>2. task'[t].todo = {}
      BY <2>1, <2>5 DEF Validate, StartReconcile, TypeOK, Idle
    <3>3. TodoInv'  BY <3>1, <3>2 DEF TodoInv, CInv
    <3> QED  BY <2>2, <2>5, <3>3 DEF Validate, StartReconcile, catalog
  <2>6. ASSUME NEW t \in Tasks, NEW d \in Documents, StartPurge(t, d)  PROVE CInv'
    <3>1. \A x \in Tasks \ {t} : task'[x] = task[x]
      BY <2>1, <2>6 DEF StartPurge, TypeOK
    <3>2. task'[t].op = "purge"
      BY <2>1, <2>6 DEF StartPurge, TypeOK, Idle
    <3>3. TodoInv'  BY <3>1, <3>2 DEF TodoInv, CInv, Projections
    <3> QED  BY <2>2, <2>6, <3>3 DEF StartPurge
  <2>7. ASSUME NEW v \in Versions, Demote(v)  PROVE CInv'
    <3>1. TodoInv'  BY <2>7 DEF Demote, TodoInv, CInv
    <3> QED  BY <2>2, <2>7, <3>1 DEF Demote
  <2>8. CASE Crash
    <3>1. \A x \in Tasks : task'[x] \in {Idle, task[x]}  BY <2>8 DEF Crash
    <3>2. TodoInv'  BY <3>1, IdleFields DEF TodoInv, CInv
    <3>3. graph' \in {EmptyGraph, graph} /\ backend' = backend
      BY <2>8 DEF Crash, catalog
    <3>4. \A u \in Versions : EmptyGraph.node[u] = None  BY Ids DEF EmptyGraph
    <3>5. Together(backend, graph)'  BY <3>3, <3>4 DEF Together, CInv
    <3> QED  BY <2>1, <3>2, <3>5 DEF CInv
  <2>9. CASE UNCHANGED vars
    <3>1. TodoInv'  BY <2>9 DEF vars, TodoInv, CInv
    <3> QED  BY <2>2, <2>9, <3>1 DEF vars
  <2> QED  BY <2>3, <2>4, <2>5, <2>6, <2>7, <2>8, <2>9 DEF Next
<1> QED  BY <1>1, <1>2, PTL DEF Spec

-----------------------------------------------------------------------------
(* The steps of the copy.                                                  *)

(* Whatever nothing is at work on, and nothing went wrong with, is as it    *)
(* should be: the two parts of the invariant on what the graph holds.      *)
LEMMA PromiseKept == IInv => Copies!CopyPromise
<1> SUFFICES ASSUME IInv, NEW v \in Versions, v \notin WorkedOn, v \notin cut
             PROVE  /\ v \in InCatalog => CopyOf[v] = "whole"
                    /\ v \in Purged => CopyOf[v] = "absent"
  BY DEF Copies!CopyPromise, Copies!Kept
<1>1. \A t \in Tasks : ~HoldsVersion(t, v)  BY DEF WorkedOn
<1>2. ASSUME v \in InCatalog  PROVE Complete(v)
  <2>1. \A t \in Tasks : \A steps : ~Projecting(t, v, steps)
    BY <1>1 DEF Projecting, HoldsVersion
  <2>2. NodesHeld(backend, graph, v) /\ EdgesHeld(graph, v)
    BY <1>2, <2>1 DEF IInv, CopyInv, InCatalog
  <2> QED  BY <2>2 DEF Complete, NodesHeld, EdgesHeld
<1>3. ASSUME v \in Purged  PROVE Absent(v) /\ ~Complete(v)
  <2>1. \A t \in Tasks : ~Cleaning(t, v)
    BY <1>1 DEF Cleaning, HoldsVersion
  <2>2. Absent(v)
    BY <1>3, <2>1 DEF IInv, PurgeInv, Gone, EdgesGone, Absent, Purged
  <2>3. v \in StructureNodes(v)  BY DEF StructureNodes
  <2> QED  BY <2>2, <2>3 DEF Absent, Complete
<1> QED  BY <1>2, <1>3 DEF CopyOf

(* The copy of a version whose own node and structure stand as they were. *)
LEMMA CopyStands ==
    ASSUME Together(backend, graph), Together(backend, graph)', NEW u \in Versions,
           Undisturbed(graph, graph', u)
    PROVE  CopyOf'[u] = CopyOf[u] \/ (CopyOf[u] = "part" /\ CopyOf'[u] = "absent")
<1>0. u \in StructureNodes(u)  BY DEF StructureNodes
<1>1. Complete(u) <=> graph.node[u] # None /\ EdgesHeld(graph, u)
  BY <1>0 DEF Complete, Together, NodesHeld, EdgesHeld
<1>2. Complete(u)' <=> graph'.node[u] # None /\ EdgesHeld(graph', u)
  BY <1>0 DEF Complete, Together, NodesHeld, EdgesHeld
<1>3. Complete(u)' <=> Complete(u)  BY <1>1, <1>2 DEF Undisturbed
<1>4. Absent(u) => Absent(u)'  BY DEF Absent, Undisturbed, EdgesGone
<1> QED  BY <1>3, <1>4 DEF CopyOf

LEMMA StatementIsWork ==
    ASSUME CInv, CInv', Copies!CopyPromise', NEW t \in Tasks, NEW v \in Versions,
           task[t].version = v, Statement(t, v)
    PROVE  Copies!Work(v)
<1>1. v \in WorkedOn  BY DEF WorkedOn, HoldsVersion
<1>2. ASSUME NEW u \in Versions \ {v}
      PROVE  CopyOf'[u] = CopyOf[u] \/ (CopyOf[u] = "part" /\ CopyOf'[u] = "absent")
  BY CopyStands DEF CInv, Statement, Alone
<1>3. WorkedOn' \in {WorkedOn, WorkedOn \ {v}}
  <2>1. ASSUME NEW u \in Versions \ {v}  PROVE u \in WorkedOn' <=> u \in WorkedOn
    <3>1. \A x \in Tasks : HoldsVersion(x, u)' <=> HoldsVersion(x, u)
      BY DEF Statement, Moves, HoldsVersion
    <3> QED  BY <3>1 DEF WorkedOn
  <2>2. WorkedOn' \subseteq Versions /\ WorkedOn \subseteq Versions  BY DEF WorkedOn
  <2>3. CASE v \in WorkedOn'
    BY <1>1, <2>1, <2>2, <2>3
  <2>4. CASE v \notin WorkedOn'
    BY <1>1, <2>1, <2>2, <2>4
  <2> QED  BY <2>3, <2>4
<1>4. cut' \in {cut, cut \cup {v}} /\ InCatalog' = InCatalog /\ Purged' = Purged
  BY DEF Statement, InCatalog, Purged
<1>5. v \notin WorkedOn' \cup cut' => Copies!Kept(v)'
  BY DEF Copies!CopyPromise
<1> QED  BY <1>1, <1>2, <1>3, <1>4, <1>5 DEF Copies!Work

LEMMA TombstoneRetires ==
    ASSUME CInv, NEW t \in Tasks, Tombstone(t)
    PROVE  Copies!Retire
<1>1. task[t].op = "purge" /\ task[t].step # "idle"  BY DEF Tombstone, At
<1>2. /\ task[t] \in Works /\ task[t] # Idle /\ TypeOK
      /\ task[t].version \in Versions
  BY <1>1, AtWork, WorkFields
<1>3. Goto(t, "clear") /\ "clear" \in Steps  BY DEF Tombstone, Steps, Writing
<1>4. /\ \A x \in Tasks \ {t} : task'[x] = task[x]
      /\ task'[t] = [task[t] EXCEPT !.step = "clear"]
  BY <1>2, <1>3, Goes
<1>5. task'[t].version = task[t].version /\ task'[t].todo = task[t].todo
  BY <1>2, <1>4 DEF Works
<1>6. \A x \in Tasks : \A u \in Versions : HoldsVersion(x, u)' <=> HoldsVersion(x, u)
  BY <1>4, <1>5 DEF HoldsVersion
<1>7. WorkedOn' = WorkedOn  BY <1>6 DEF WorkedOn
<1>8. UNCHANGED <<archived, graph, cut>>  BY DEF Tombstone
<1> DEFINE retired == {u \in Versions : HoldsVersion(t, u)}
<1>9. \A u \in retired : DocumentOf[u] \in archived
  BY <1>1, <1>2 DEF CInv, IInv, TaskInv, HoldsVersion
<1>10. \A u \in Versions : status'[u] = IF u \in retired THEN "PURGED" ELSE status[u]
  BY DEF Tombstone, HoldsVersion
<1>11. retired \in SUBSET (WorkedOn \ InCatalog)  BY <1>9 DEF WorkedOn, InCatalog
<1>12. retired \subseteq Versions  OBVIOUS
<1> HIDE DEF retired
<1>13. InCatalog' = InCatalog  BY <1>8, <1>9, <1>10 DEF InCatalog
<1>14. Purged' = Purged \cup retired  BY <1>10, <1>12 DEF Purged
<1>15. CopyOf' = CopyOf  BY <1>8 DEF CopyOf, Complete, Absent
<1> QED  BY <1>7, <1>8, <1>11, <1>13, <1>14, <1>15 DEF Copies!Retire

(* A thread takes up versions and nothing else changes on the threads. *)
LEMMA TakesUpVersions ==
    ASSUME CInv, NEW t \in Tasks, task[t] = Idle, NEW F \in SUBSET Versions, NEW r,
           task' = [task EXCEPT ![t] = r],
           \A u \in Versions : u \in F <=> r.version = u \/ u \in r.todo
    PROVE  WorkedOn' = WorkedOn \cup F
<1>1. task'[t] = r /\ \A x \in Tasks \ {t} : task'[x] = task[x]
  BY DEF CInv, IInv, TypeOK
<1>2. ASSUME NEW u \in Versions
      PROVE  /\ ~HoldsVersion(t, u)
             /\ HoldsVersion(t, u)' <=> u \in F
             /\ \A x \in Tasks \ {t} : HoldsVersion(x, u)' <=> HoldsVersion(x, u)
  BY <1>1, IdleFields, Ids DEF HoldsVersion
<1>3. ASSUME NEW u \in Versions  PROVE u \in WorkedOn' <=> u \in WorkedOn \cup F
  <2>1. u \in WorkedOn' <=> \E x \in Tasks : HoldsVersion(x, u)'  BY DEF WorkedOn
  <2>2. u \in WorkedOn <=> \E x \in Tasks : HoldsVersion(x, u)  BY DEF WorkedOn
  <2> QED  BY <1>2, <2>1, <2>2
<1>4. WorkedOn' \subseteq Versions /\ WorkedOn \subseteq Versions  BY DEF WorkedOn
<1> QED  BY <1>3, <1>4

LEMMA ValidateWants ==
    ASSUME CInv, NEW t \in Tasks, NEW v \in Versions, Validate(t, v)
    PROVE  Copies!Want(v) \/ Copies!Begin(v)
<1> DEFINE r == [Idle EXCEPT !.op = "validate", !.version = v, !.step = "start"]
<1>1. r.version = v /\ r.todo = {}  BY DEF Idle
<1>2. task' = [task EXCEPT ![t] = r] /\ task[t] = Idle  BY DEF Validate
<1> HIDE DEF r
<1>3. WorkedOn' = WorkedOn \cup {v}  BY <1>1, <1>2, TakesUpVersions
<1>4. UNCHANGED <<archived, graph, cut>>  BY DEF Validate
<1>5. CopyOf' = CopyOf  BY <1>4 DEF CopyOf, Complete, Absent
<1>6. status[v] = "NEEDS_REVIEW" /\ status'[v] = "VALIDATED"  BY DEF Validate
<1>7. ASSUME NEW u \in Versions, u # v
      PROVE  status'[u] = IF DocumentOf[u] = DocumentOf[v] /\ status[u] = "VALIDATED"
                          THEN "SUPERSEDED" ELSE status[u]
  BY <1>7 DEF Validate
<1>8. Purged' = Purged /\ v \notin Purged  BY <1>6, <1>7 DEF Purged
<1>9. CASE DocumentOf[v] \in archived
  <2>1. InCatalog' = InCatalog  BY <1>4, <1>7, <1>9 DEF InCatalog
  <2>2. Copies!Begin(v)  BY <1>3, <1>4, <1>5, <1>8, <2>1 DEF Copies!Begin
  <2> QED  BY <2>2
<1>10. CASE DocumentOf[v] \notin archived
  <2>1. ASSUME NEW u \in Versions
        PROVE  u \in InCatalog' <=> u \in (InCatalog \ Copies!Family(v)) \cup {v}
    BY <1>4, <1>6, <1>7, <1>10 DEF InCatalog, Copies!Family
  <2>2. InCatalog' = (InCatalog \ Copies!Family(v)) \cup {v}
    <3>1. InCatalog' \subseteq Versions /\ InCatalog \subseteq Versions  BY DEF InCatalog
    <3> QED  BY <2>1, <3>1
  <2>3. v \notin InCatalog  BY <1>6 DEF InCatalog
  <2>4. Copies!Want(v)  BY <1>3, <1>4, <1>5, <1>8, <2>2, <2>3 DEF Copies!Want
  <2> QED  BY <2>4
<1> QED  BY <1>9, <1>10

LEMMA ReconcileBegins ==
    ASSUME CInv, NEW t \in Tasks, NEW v \in Versions, StartReconcile(t, v)
    PROVE  Copies!Begin(v)
<1> DEFINE r == [Idle EXCEPT !.op = "reconcile", !.version = v, !.step = "clear"]
<1>1. r.version = v /\ r.todo = {}  BY DEF Idle
<1>2. task' = [task EXCEPT ![t] = r] /\ task[t] = Idle  BY DEF StartReconcile
<1> HIDE DEF r
<1>3. WorkedOn' = WorkedOn \cup {v}  BY <1>1, <1>2, TakesUpVersions
<1>4. UNCHANGED <<status, archived, graph, cut>>  BY DEF StartReconcile, catalog
<1>5. CopyOf' = CopyOf  BY <1>4 DEF CopyOf, Complete, Absent
<1>6. InCatalog' = InCatalog /\ Purged' = Purged  BY <1>4 DEF InCatalog, Purged
<1>7. v \notin Purged  BY DEF StartReconcile, Purged
<1> QED  BY <1>3, <1>4, <1>5, <1>6, <1>7 DEF Copies!Begin

LEMMA PurgeWithdraws ==
    ASSUME CInv, NEW t \in Tasks, NEW d \in Documents, StartPurge(t, d)
    PROVE  \E v \in Versions : Copies!Withdraw(v)
<1>1. PICK v \in Versions :
         /\ DocumentOf[v] = d
         /\ task' = [task EXCEPT ![t] =
               [Idle EXCEPT !.op = "purge", !.version = v, !.step = "tombstone",
                            !.todo = {u \in Versions \ {v} : DocumentOf[u] = d}]]
  BY DEF StartPurge
<1> DEFINE todo == {u \in Versions \ {v} : DocumentOf[u] = d}
           r == [Idle EXCEPT !.op = "purge", !.version = v, !.step = "tombstone",
                             !.todo = todo]
<1>2. r.version = v /\ r.todo = todo  BY DEF Idle
<1>3. task' = [task EXCEPT ![t] = r] /\ task[t] = Idle  BY <1>1 DEF StartPurge
<1>4. \A u \in Versions : u \in Copies!Family(v) <=> u = v \/ u \in todo
  BY <1>1 DEF Copies!Family
<1>5. Copies!Family(v) \in SUBSET Versions  BY DEF Copies!Family
<1> HIDE DEF r, todo
<1>6. WorkedOn' = WorkedOn \cup Copies!Family(v)
  BY <1>2, <1>3, <1>4, <1>5, TakesUpVersions
<1> DEFINE crossed == {u \in Versions : DocumentOf[u] = d /\ InFlight(u)}
<1>7. /\ UNCHANGED <<status, graph>> /\ archived' = archived \cup {d}
      /\ cut' = cut \cup crossed
  BY DEF StartPurge
<1>8. \A u \in Versions : InFlight(u) => u \in WorkedOn
  BY DEF InFlight, WorkedOn, HoldsVersion
<1>9. crossed \in SUBSET (Copies!Family(v) \cap WorkedOn)
  BY <1>1, <1>8 DEF Copies!Family
<1> HIDE DEF crossed
<1>10. CopyOf' = CopyOf  BY <1>7 DEF CopyOf, Complete, Absent
<1>11. Purged' = Purged  BY <1>7 DEF Purged
<1>12. InCatalog' = InCatalog \ Copies!Family(v)
  BY <1>1, <1>7 DEF InCatalog, Copies!Family
<1>13. Copies!Withdraw(v)
  BY <1>6, <1>7, <1>9, <1>10, <1>11, <1>12 DEF Copies!Withdraw
<1> QED  BY <1>13

LEMMA DemoteForgets ==
    ASSUME CInv, NEW v \in Versions, Demote(v)
    PROVE  Copies!Forget(v) \/ UNCHANGED Copies!copyVars
<1>1. /\ UNCHANGED <<archived, graph, task, cut>>
      /\ status[v] = "VALIDATED" /\ status'[v] = "NEEDS_REVIEW"
      /\ \A u \in Versions \ {v} : status'[u] = status[u]
  BY DEF Demote, CInv, IInv, TypeOK
<1>2. CopyOf' = CopyOf  BY <1>1 DEF CopyOf, Complete, Absent
<1>3. Purged' = Purged  BY <1>1 DEF Purged
<1>4. WorkedOn' = WorkedOn  BY <1>1 DEF WorkedOn, HoldsVersion
<1>5. InCatalog' = InCatalog \ {v}  BY <1>1 DEF InCatalog
<1>6. CASE v \in InCatalog
  BY <1>1, <1>2, <1>3, <1>4, <1>5, <1>6 DEF Copies!Forget
<1>7. CASE v \notin InCatalog
  <2>1. InCatalog' = InCatalog  BY <1>5, <1>7
  <2> QED  BY <1>1, <1>2, <1>3, <1>4, <2>1 DEF Copies!copyVars
<1> QED  BY <1>6, <1>7

LEMMA CrashLoses ==
    ASSUME CInv, Crash
    PROVE  Copies!Lose
<1> DEFINE dead == {t \in Tasks : task[t].op \in {"validate", "purge"}}
           held == UNION {{task[t].version} \cup task[t].todo : t \in dead}
           lost == {v \in Versions : \E t \in dead : HoldsVersion(t, v)}
<1>1. /\ \A t \in dead : task'[t] = Idle
      /\ \A t \in Tasks \ dead : task'[t] = task[t]
  BY DEF Crash
<1>2. \A t \in dead : t \in Tasks  OBVIOUS
<1>3. \A t \in dead : {task[t].version} \cup task[t].todo \subseteq Versions
  BY IdleFields, WorkFields DEF CInv, IInv, TypeOK
<1>4. /\ UNCHANGED <<backend, status, archived>>
      /\ backend = "in-memory" => graph' = EmptyGraph /\ cut' = Versions
      /\ backend # "in-memory" => graph' = graph /\ cut' = cut \cup held
  BY DEF Crash, catalog
<1>5. held = lost
  <2> HIDE DEF dead
  <2>1. \A v : v \in held <=> \E t \in dead : v = task[t].version \/ v \in task[t].todo
    OBVIOUS
  <2> QED  BY <1>3, <2>1 DEF HoldsVersion
<1> HIDE DEF held
<1>6. ASSUME NEW u \in Versions, NEW t \in Tasks
      PROVE  /\ HoldsVersion(t, u)' => HoldsVersion(t, u)
             /\ HoldsVersion(t, u) /\ t \notin dead => HoldsVersion(t, u)'
  <2>1. CASE t \in dead
    BY <1>1, <2>1, IdleFields, Ids DEF HoldsVersion
  <2>2. CASE t \notin dead
    BY <1>1, <2>2 DEF HoldsVersion
  <2> QED  BY <2>1, <2>2
<1>7. lost \in SUBSET WorkedOn  BY <1>2 DEF WorkedOn
<1>8. WorkedOn' \subseteq WorkedOn  BY <1>6 DEF WorkedOn
<1>9. WorkedOn \ lost \subseteq WorkedOn'
  <2> SUFFICES ASSUME NEW u \in WorkedOn, u \notin lost  PROVE u \in WorkedOn'
    OBVIOUS
  <2>1. u \in Versions /\ \E t \in Tasks : HoldsVersion(t, u)  BY DEF WorkedOn
  <2>2. PICK t \in Tasks : HoldsVersion(t, u)  BY <2>1
  <2>3. t \notin dead  BY <2>1, <2>2
  <2>4. HoldsVersion(t, u)'  BY <1>6, <2>1, <2>2, <2>3
  <2> QED  BY <2>1, <2>4 DEF WorkedOn
<1> HIDE DEF dead, lost
<1>10. InCatalog' = InCatalog /\ Purged' = Purged  BY <1>4 DEF InCatalog, Purged
<1>11. CASE backend = "in-memory"
  <2>1. graph' = EmptyGraph /\ cut' = Versions  BY <1>4, <1>11
  <2>2. ASSUME NEW v \in Versions  PROVE ~Complete(v)' /\ Absent(v)'
    <3>1. v \in StructureNodes(v) /\ v \in NodeIds  BY Ids DEF StructureNodes
    <3> QED  BY <2>1, <3>1 DEF Complete, Absent, EmptyGraph
  <2>3. CopyOf' = [v \in Versions |-> "absent"]  BY <2>2 DEF CopyOf
  <2> QED  BY <1>8, <1>10, <2>1, <2>3 DEF Copies!Lose
<1>12. CASE backend # "in-memory"
  <2>1. graph' = graph /\ cut' = cut \cup lost  BY <1>4, <1>5, <1>12
  <2>2. CopyOf' = CopyOf  BY <2>1 DEF CopyOf, Complete, Absent
  <2> QED  BY <1>7, <1>8, <1>9, <1>10, <2>1, <2>2 DEF Copies!Lose
<1> QED  BY <1>11, <1>12

-----------------------------------------------------------------------------
(* At every moment, whatever else is running, a version nothing is at work  *)
(* on, and whose projections and purges met no fault, is wholly in the     *)
(* graph if it is validated and its document visible, and has left it if   *)
(* it is purged.                                                           *)
THEOREM CopyAlwaysAsPromised == Spec => []Copies!CopyPromise
  BY PromiseKept, CInvInductive, PTL DEF CInv

(* The statements of projections, reconciliations and purges, in either     *)
(* store, with their faults and the end of the process between any two,    *)
(* are steps of a copy kept version by version: whatever ids versions      *)
(* share, a statement changes no other version's copy, but for clearing    *)
(* what is left of an incomplete one.                                      *)
THEOREM ProjectionImplementsCopy == Spec => ImplementsCopy
<1>1. Init => Copies!CopyInit
  <2> SUFFICES ASSUME Init  PROVE Copies!CopyInit
    OBVIOUS
  <2>1. InCatalog = {} /\ Purged = {} /\ cut = {}  BY DEF Init, InCatalog, Purged
  <2>2. \A t \in Tasks, v \in Versions : ~HoldsVersion(t, v)
    BY IdleFields, Ids DEF Init, HoldsVersion
  <2>3. WorkedOn = {}  BY <2>2 DEF WorkedOn
  <2>4. ASSUME NEW v \in Versions  PROVE ~Complete(v) /\ Absent(v)
    <3>1. v \in StructureNodes(v) /\ v \in NodeIds  BY Ids DEF StructureNodes
    <3> QED  BY <3>1 DEF Init, Complete, Absent, EmptyGraph
  <2>5. CopyOf = [v \in Versions |-> "absent"]  BY <2>4 DEF CopyOf
  <2> QED  BY <2>1, <2>3, <2>5 DEF Copies!CopyInit
<1>2. CInv /\ CInv' /\ Copies!CopyPromise' /\ [Next]_vars
         => [Copies!CopyNext]_(Copies!copyVars)
  <2> SUFFICES ASSUME CInv, CInv', Copies!CopyPromise', [Next]_vars
               PROVE  Copies!CopyNext \/ UNCHANGED Copies!copyVars
    OBVIOUS
  <2>1. ASSUME NEW t \in Tasks, Step(t), ~Tombstone(t)  PROVE Copies!CopyNext
    BY <2>1, EveryStatement, StatementIsWork DEF Copies!CopyNext
  <2>2. ASSUME NEW t \in Tasks, Tombstone(t)  PROVE Copies!CopyNext
    BY <2>2, TombstoneRetires DEF Copies!CopyNext
  <2>3. ASSUME NEW t \in Tasks, NEW v \in Versions, Validate(t, v) \/ StartReconcile(t, v)
        PROVE  Copies!CopyNext
    BY <2>3, ValidateWants, ReconcileBegins DEF Copies!CopyNext
  <2>4. ASSUME NEW t \in Tasks, NEW d \in Documents, StartPurge(t, d)
        PROVE  Copies!CopyNext
    BY <2>4, PurgeWithdraws DEF Copies!CopyNext
  <2>5. ASSUME NEW v \in Versions, Demote(v)
        PROVE  Copies!CopyNext \/ UNCHANGED Copies!copyVars
    BY <2>5, DemoteForgets DEF Copies!CopyNext
  <2>6. CASE Crash
    BY <2>6, CrashLoses DEF Copies!CopyNext
  <2>7. CASE UNCHANGED vars
    BY <2>7 DEF vars, Copies!copyVars, InCatalog, Purged, CopyOf, Complete, Absent,
                WorkedOn, HoldsVersion
  <2> QED  BY <2>1, <2>2, <2>3, <2>4, <2>5, <2>6, <2>7 DEF Next
<1> QED
  BY <1>1, <1>2, CInvInductive, CopyAlwaysAsPromised, PTL
     DEF Spec, ImplementsCopy, Copies!CopySpec

===============================================================================
