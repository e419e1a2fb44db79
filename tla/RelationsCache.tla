--------------------------- MODULE RelationsCache ---------------------------
(***************************************************************************)
(* How two documents are related, aggregated over the edges between their  *)
(* chunks, and kept in a table.  A read prefers the table and computes on  *)
(* a miss; a projection that has rewritten a document's part of the graph  *)
(* ends by computing every pair it is in again.                            *)
(*                                                                         *)
(* An edge is a number, its rank among the edges by score and id: 1 is the *)
(* strongest.  Left out: the arithmetic of scores, kinds that do not count *)
(* towards an aggregate, reasons and keywords.                             *)
(***************************************************************************)
EXTENDS Naturals, Sequences, FiniteSets, SequencesExt, OrderedRows

CONSTANTS
    Related,      \* documents with a subgraph
    EdgeRanks,    \* edges a pair of documents may have between them
    CacheTopN,    \* _CACHE_TOP_N
    Projecting,   \* threads projections run on
    Reading,      \* threads requests run on
    NoEvidence    \* no row, or RelationNotFound

ASSUME RelationsAssumption ==
    /\ EdgeRanks \subseteq Nat \ {0} /\ IsFiniteSet(EdgeRanks)
    /\ CacheTopN \in Nat \ {0}

VARIABLES
    bridges,  \* of each two documents, the edges between their chunks
    relationRows, \* document_relations: of each ordered pair, the evidence kept
    warming,  \* of each projecting thread, the warm-up under way
    reading,  \* of each reading thread, the request under way
    lapsed    \* ordered pairs nobody computes again: see CachedIsCurrent

relationVars == <<bridges, relationRows, warming, reading, lapsed>>

Pairs == {p \in Related \X Related : p[1] # p[2]}
Unordered == {{p[1], p[2]} : p \in Pairs}

-----------------------------------------------------------------------------
(* _rank_pairs: strongest first. *)
RankPairs(edges) == InOrder(edges, Ascending(edges))

(* The strongest edges, and how many there are in all. *)
AggregateOf(edges) ==
    [top |-> FirstFew(RankPairs(edges), CacheTopN), count |-> Cardinality(edges)]

ASSUME AggregateAssumption == \A edges \in SUBSET EdgeRanks : AggregateOf(edges) # NoEvidence

(* Faulty variant: no edges make an aggregate of none. *)
ExplainAggregateEmpty(p) == AggregateOf(bridges[{p[1], p[2]}])

(* explain_aggregate; find_edges_between_documents looks at both            *)
(* directions of an edge.                                                  *)
ExplainAggregate(p) ==
    LET edges == bridges[{p[1], p[2]}]
    IN  IF edges = {} THEN NoEvidence ELSE AggregateOf(edges)

Evidence ==
    [top : UNION {[1..n -> EdgeRanks] : n \in 1..CacheTopN}, count : 1..Cardinality(EdgeRanks)]

(* list_bridged_documents *)
BridgedDocuments(d) == {e \in Related \ {d} : bridges[{d, e}] # {}}

(* Faulty variant: the aggregate is taken to be the same both ways round. *)
PairsToWarmOneWay(d) == {<<d, e>> : e \in BridgedDocuments(d)}

(* Both directions have a row of their own. *)
PairsToWarm(d) == {<<d, e>> : e \in BridgedDocuments(d)} \cup {<<e, d>> : e \in BridgedDocuments(d)}

NotWarming == [stage |-> "none", of |-> NoEvidence, todo |-> {}, pair |-> <<>>, evidence |-> NoEvidence]
NotReading == [pair |-> <<>>, evidence |-> NoEvidence]

(* upsert: the row is overwritten whatever it holds.  Evidence computed     *)
(* from a graph that has changed since makes a row nobody will look at     *)
(* again, until the next computation of the pair.                          *)
Upsert(p, evidence) ==
    /\ relationRows' = [relationRows EXCEPT ![p] = evidence]
    /\ lapsed' = IF evidence = ExplainAggregate(p) THEN lapsed \ {p} ELSE lapsed \cup {p}

-----------------------------------------------------------------------------
(* A projection rewrites what the document has in the graph, edges to other *)
(* documents included, and goes on to the warm-up.                         *)
ProjectDocument(w, d) ==
    /\ warming[w] = NotWarming
    /\ \E new \in [Unordered -> SUBSET EdgeRanks] :
          /\ \A u \in Unordered : d \notin u => new[u] = bridges[u]
          /\ bridges' = new
    /\ warming' = [warming EXCEPT ![w] = [NotWarming EXCEPT !.stage = "list", !.of = d]]
    /\ UNCHANGED <<relationRows, reading, lapsed>>

(* A purge, or a version superseded, takes the document out of the graph;  *)
(* nothing warms the table.                                                *)
DropSubgraph(d) ==
    /\ \E u \in Unordered : d \in u /\ bridges[u] # {}
    /\ bridges' = [u \in Unordered |-> IF d \in u THEN {} ELSE bridges[u]]
    /\ UNCHANGED <<relationRows, warming, reading, lapsed>>

(* warm_for_document lists the documents bridged now.  A failure ends it.   *)
WarmList(w) ==
    /\ warming[w].stage = "list"
    /\ warming' = [warming EXCEPT ![w].stage = "pairs", ![w].todo = PairsToWarm(warming[w].of)]
    /\ UNCHANGED <<bridges, relationRows, reading, lapsed>>

WarmListFails(w) ==
    /\ warming[w].stage = "list"
    /\ warming' = [warming EXCEPT ![w] = NotWarming]
    /\ lapsed' = lapsed \cup {p \in Pairs : warming[w].of \in {p[1], p[2]}}
    /\ UNCHANGED <<bridges, relationRows, reading>>

(* refresh of one pair: computed, and written by a later step.  A pair with *)
(* no edge left is skipped.                                                *)
WarmCompute(w) ==
    /\ warming[w].stage = "pairs"
    /\ \E p \in warming[w].todo :
          IF ExplainAggregate(p) = NoEvidence
          THEN warming' = [warming EXCEPT ![w].todo = @ \ {p}]
          ELSE warming' = [warming EXCEPT ![w].stage = "write", ![w].pair = p,
                                          ![w].evidence = ExplainAggregate(p)]
    /\ UNCHANGED <<bridges, relationRows, reading, lapsed>>

WarmWrite(w) ==
    /\ warming[w].stage = "write"
    /\ Upsert(warming[w].pair, warming[w].evidence)
    /\ warming' = [warming EXCEPT ![w].stage = "pairs", ![w].todo = @ \ {warming[w].pair},
                                  ![w].pair = <<>>, ![w].evidence = NoEvidence]
    /\ UNCHANGED <<bridges, reading>>

(* An error on one pair is logged and the next pair taken. *)
WarmPairFails(w) ==
    /\ warming[w].stage = "write"
    /\ lapsed' = lapsed \cup {warming[w].pair}
    /\ warming' = [warming EXCEPT ![w].stage = "pairs", ![w].todo = @ \ {warming[w].pair},
                                  ![w].pair = <<>>, ![w].evidence = NoEvidence]
    /\ UNCHANGED <<bridges, relationRows, reading>>

WarmEnds(w) ==
    /\ warming[w].stage = "pairs" /\ warming[w].todo = {}
    /\ warming' = [warming EXCEPT ![w] = NotWarming]
    /\ UNCHANGED <<bridges, relationRows, reading, lapsed>>

-----------------------------------------------------------------------------
(* get_or_compute: a row that is there is the answer, and nothing changes.  *)
(* Without one, or when the caller asks for a refresh, the pair is computed *)
(* and the row written by a later step, at the table's ceiling whatever    *)
(* top_n the answer is cut to.  With no edge there is no row to write.     *)
Read(r, p, refresh) ==
    /\ reading[r] = NotReading
    /\ refresh \/ relationRows[p] = NoEvidence
    /\ ExplainAggregate(p) # NoEvidence
    /\ reading' = [reading EXCEPT ![r] = [pair |-> p, evidence |-> ExplainAggregate(p)]]
    /\ UNCHANGED <<bridges, relationRows, warming, lapsed>>

ReadWrites(r) ==
    /\ reading[r] # NotReading
    /\ Upsert(reading[r].pair, reading[r].evidence)
    /\ reading' = [reading EXCEPT ![r] = NotReading]
    /\ UNCHANGED <<bridges, warming>>

(* The process dies; the table stays. *)
RelationsCrash ==
    /\ \E w \in Projecting : warming[w] # NotWarming
    /\ lapsed' = lapsed \cup {p \in Pairs : \E w \in Projecting :
                                 \/ warming[w].stage = "list" /\ warming[w].of \in {p[1], p[2]}
                                 \/ p \in warming[w].todo}
    /\ warming' = [w \in Projecting |-> NotWarming]
    /\ reading' = [r \in Reading |-> NotReading]
    /\ UNCHANGED <<bridges, relationRows>>

RelationsInit ==
    /\ bridges = [u \in Unordered |-> {}]
    /\ relationRows = [p \in Pairs |-> NoEvidence]
    /\ warming = [w \in Projecting |-> NotWarming]
    /\ reading = [r \in Reading |-> NotReading]
    /\ lapsed = {}

RelationsNext ==
    \/ \E w \in Projecting, d \in Related : ProjectDocument(w, d)
    \/ \E d \in Related : DropSubgraph(d)
    \/ \E w \in Projecting :
          \/ WarmList(w) \/ WarmListFails(w) \/ WarmCompute(w)
          \/ WarmWrite(w) \/ WarmPairFails(w) \/ WarmEnds(w)
    \/ \E r \in Reading, p \in Pairs, refresh \in BOOLEAN : Read(r, p, refresh)
    \/ \E r \in Reading : ReadWrites(r)
    \/ RelationsCrash

RelationsSpec == RelationsInit /\ [][RelationsNext]_relationVars

RelationsTypeOK ==
    /\ bridges \in [Unordered -> SUBSET EdgeRanks]
    /\ relationRows \in [Pairs -> Evidence \cup {NoEvidence}]
    /\ \A w \in Projecting : warming[w].todo \subseteq Pairs
    /\ \A r \in Reading : reading[r] # NotReading => reading[r].evidence \in Evidence
    /\ lapsed \subseteq Pairs

-----------------------------------------------------------------------------
(* A row for two documents the graph still relates is what the graph says,  *)
(* or a projection has yet to come to it.  Lapsed are the pairs whose      *)
(* refresh failed or was cut off, and those overwritten by a computation   *)
(* that had read the graph before it changed: upsert does not ask which of *)
(* two answers is the newer (document_relations_cache.py:108).  A row whose *)
(* edges are gone stays as it was: no projection lists it again.           *)
CachedIsCurrent ==
    \A p \in Pairs :
        relationRows[p] # NoEvidence /\ bridges[{p[1], p[2]}] # {} =>
            \/ relationRows[p] = ExplainAggregate(p)
            \/ p \in lapsed
            \/ \E w \in Projecting :
                  \/ warming[w].stage = "list" /\ warming[w].of \in {p[1], p[2]}
                  \/ p \in warming[w].todo

=============================================================================
