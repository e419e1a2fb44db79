------------------------- MODULE ServiceStores_proofs -------------------------
(***************************************************************************)
(* Proofs about the tables the services keep beside the catalog's own: the *)
(* relations cache, the enrichment stores, the schema and its stamps, the   *)
(* counters of the router, the links that a deleted scope leaves to a       *)
(* cascade, and the versions of a taxonomy.                                *)
(***************************************************************************)
EXTENDS RelationsCache, EnrichmentStores, SchemaMigrations, HitlRouting,
        ScopeCascade, TaxonomyWorkflow, FiniteSetTheorems, WellFoundedInduction, TLAPS

-----------------------------------------------------------------------------
(* The relations cache.                                                    *)

(* What a computation of a pair may answer. *)
Answers == {AggregateOf(edges) : edges \in SUBSET EdgeRanks} \cup {NoEvidence}

Warmings ==
    [stage : {"none", "list", "pairs", "write"}, of : Related \cup {NoEvidence},
     todo : SUBSET Pairs, pair : Pairs \cup {<<>>}, evidence : Answers]

Readings == [pair : Pairs \cup {<<>>}, evidence : Answers]

(* Every variable has its shape; a warm-up that has still to list has no    *)
(* pairs yet, and the pair being written is still on its list.             *)
RelationsShape ==
    /\ bridges \in [Unordered -> SUBSET EdgeRanks]
    /\ relationRows \in [Pairs -> Answers]
    /\ warming \in [Projecting -> Warmings]
    /\ reading \in [Reading -> Readings]
    /\ lapsed \subseteq Pairs
    /\ \A w \in Projecting :
          /\ warming[w].stage = "list" => warming[w].of \in Related /\ warming[w].todo = {}
          /\ warming[w].stage = "write" => warming[w].pair \in warming[w].todo
    /\ \A r \in Reading : reading[r] # NotReading => reading[r].pair \in Pairs

(* The documents of a pair. *)
LEMMA PairFacts ==
    ASSUME NEW p \in Pairs
    PROVE  p[1] \in Related /\ p[2] \in Related /\ p[1] # p[2] /\ {p[1], p[2]} \in Unordered
  BY DEF Pairs, Unordered

(* A computation answers with an aggregate exactly when there are edges. *)
LEMMA ExplainFacts ==
    ASSUME RelationsShape, NEW p \in Pairs
    PROVE  /\ ExplainAggregate(p) \in Answers
           /\ ExplainAggregate(p) = NoEvidence <=> bridges[{p[1], p[2]}] = {}
<1>1. bridges[{p[1], p[2]}] \in SUBSET EdgeRanks
  BY PairFacts DEF RelationsShape
<1> QED
  BY <1>1, AggregateAssumption DEF ExplainAggregate, Answers

(* The pairs a warm-up lists: those of its document that have an edge. *)
LEMMA PairsToWarmFacts ==
    ASSUME RelationsShape, NEW d \in Related
    PROVE  /\ PairsToWarm(d) \subseteq Pairs
           /\ \A p \in Pairs :
                 d \in {p[1], p[2]} /\ bridges[{p[1], p[2]}] # {} => p \in PairsToWarm(d)
<1>1. BridgedDocuments(d) \subseteq Related \ {d}
  BY DEF BridgedDocuments
<1>2. \A e \in BridgedDocuments(d) : <<d, e>> \in Pairs /\ <<e, d>> \in Pairs
  BY <1>1 DEF Pairs
<1>3. ASSUME NEW p \in Pairs, d \in {p[1], p[2]}, bridges[{p[1], p[2]}] # {}
      PROVE  p \in PairsToWarm(d)
  <2>1. p = <<p[1], p[2]>>
    BY DEF Pairs
  <2>2. CASE d = p[1]
    <3>1. p[2] \in BridgedDocuments(d)
      BY <1>3, <2>2, PairFacts DEF BridgedDocuments
    <3> QED
      BY <2>1, <2>2, <3>1 DEF PairsToWarm
  <2>3. CASE d = p[2]
    <3>1. {d, p[1]} = {p[1], p[2]}
      BY <2>3
    <3>2. p[1] \in BridgedDocuments(d)
      BY <1>3, <2>3, <3>1, PairFacts DEF BridgedDocuments
    <3> QED
      BY <2>1, <2>3, <3>2 DEF PairsToWarm
  <2> QED
    BY <1>3, <2>2, <2>3
<1> QED
  BY <1>2, <1>3 DEF PairsToWarm

(* Whether a warm-up has still to come to a pair. *)
Owes(w, p) ==
    \/ warming[w].stage = "list" /\ warming[w].of \in {p[1], p[2]}
    \/ p \in warming[w].todo

Fresh(p) ==
    relationRows[p] # NoEvidence /\ bridges[{p[1], p[2]}] # {} =>
        \/ relationRows[p] = ExplainAggregate(p)
        \/ p \in lapsed
        \/ \E w \in Projecting : Owes(w, p)

(* A pair whose row and edges are left alone stays as fresh as it was. *)
LEMMA FreshFrame ==
    ASSUME NEW p \in Pairs, Fresh(p), relationRows'[p] = relationRows[p],
           bridges'[{p[1], p[2]}] = bridges[{p[1], p[2]}],
           bridges[{p[1], p[2]}] # {} /\ p \in lapsed => p \in lapsed' \/ \E w \in Projecting : Owes(w, p)',
           \A w \in Projecting :
              bridges[{p[1], p[2]}] # {} /\ Owes(w, p) => p \in lapsed' \/ \E x \in Projecting : Owes(x, p)'
    PROVE  Fresh(p)'
<1>1. ExplainAggregate(p)' = ExplainAggregate(p)
  BY DEF ExplainAggregate
<1> QED
  BY <1>1 DEF Fresh

(* A row that has just been written is current, or known to have lapsed. *)
LEMMA UpsertFresh ==
    ASSUME RelationsShape, NEW p \in Pairs, Fresh(p), NEW q \in Pairs, NEW e,
           Upsert(q, e), UNCHANGED bridges,
           \A w \in Projecting : Owes(w, p) /\ p # q => Owes(w, p)'
    PROVE  Fresh(p)'
<1>1. ExplainAggregate(p)' = ExplainAggregate(p)
  BY DEF ExplainAggregate
<1>2. CASE p = q
  <2>1. relationRows'[p] = e
    BY <1>2 DEF Upsert, RelationsShape
  <2>2. e = ExplainAggregate(p) \/ p \in lapsed'
    BY <1>2 DEF Upsert
  <2> QED
    BY <1>1, <2>1, <2>2 DEF Fresh
<1>3. CASE p # q
  <2>1. relationRows'[p] = relationRows[p]
    BY <1>3 DEF Upsert, RelationsShape
  <2>2. p \in lapsed => p \in lapsed'
    BY <1>3 DEF Upsert
  <2> QED
    BY <1>3, <2>1, <2>2, FreshFrame
<1> QED
  BY <1>2, <1>3

(* What a step of one warm-up leaves to the others. *)
LEMMA OneWarmingChanges ==
    ASSUME RelationsShape, NEW w \in Projecting, NEW new \in Warmings,
           warming' = [warming EXCEPT ![w] = new]
    PROVE  /\ warming' \in [Projecting -> Warmings]
           /\ warming'[w] = new
           /\ \A x \in Projecting : x # w => warming'[x] = warming[x]
           /\ \A x \in Projecting, p \in Pairs : x # w /\ Owes(x, p) => Owes(x, p)'
<1>1. warming \in [Projecting -> Warmings]
  BY DEF RelationsShape
<1>2. /\ warming' \in [Projecting -> Warmings]
      /\ warming'[w] = new
      /\ \A x \in Projecting : x # w => warming'[x] = warming[x]
  BY <1>1
<1> QED
  BY <1>2 DEF Owes

(* The steps of a warm-up, as the records they leave. *)
LEMMA WarmingRecords ==
    ASSUME RelationsShape, NEW w \in Projecting
    PROVE  /\ NotWarming \in Warmings
           /\ \A d \in Related : [NotWarming EXCEPT !.stage = "list", !.of = d] \in Warmings
           /\ \A T \in SUBSET Pairs :
                 [warming[w] EXCEPT !.stage = "pairs", !.todo = T] \in Warmings
           /\ \A T \in SUBSET Pairs : [warming[w] EXCEPT !.todo = T] \in Warmings
           /\ \A p \in Pairs, e \in Answers :
                 [warming[w] EXCEPT !.stage = "write", !.pair = p, !.evidence = e] \in Warmings
           /\ \A T \in SUBSET Pairs :
                 [warming[w] EXCEPT !.stage = "pairs", !.todo = T, !.pair = <<>>,
                                    !.evidence = NoEvidence] \in Warmings
<1>1. warming[w] \in Warmings /\ NoEvidence \in Answers
  BY DEF RelationsShape, Answers
<1> HIDE DEF Pairs, Answers
<1> QED
  BY <1>1 DEF Warmings, NotWarming

(* A projection owes every pair of its document. *)
LEMMA ProjectDocumentStep ==
    ASSUME RelationsShape, CachedIsCurrent, NEW w \in Projecting, NEW d \in Related,
           ProjectDocument(w, d)
    PROVE  RelationsShape' /\ CachedIsCurrent'
<1> DEFINE new == [NotWarming EXCEPT !.stage = "list", !.of = d]
<1>1. /\ warming[w] = NotWarming /\ warming' = [warming EXCEPT ![w] = new]
      /\ UNCHANGED <<relationRows, reading, lapsed>>
      /\ bridges' \in [Unordered -> SUBSET EdgeRanks]
      /\ \A u \in Unordered : d \notin u => bridges'[u] = bridges[u]
  BY DEF ProjectDocument
<1>2. new \in Warmings /\ new.stage = "list" /\ new.of = d /\ new.todo = {}
  BY WarmingRecords DEF NotWarming
<1> HIDE DEF new
<1>3. /\ warming' \in [Projecting -> Warmings] /\ warming'[w] = new
      /\ \A x \in Projecting : x # w => warming'[x] = warming[x]
      /\ \A x \in Projecting, p \in Pairs : x # w /\ Owes(x, p) => Owes(x, p)'
  BY <1>1, <1>2, OneWarmingChanges
<1>4. RelationsShape'
  BY <1>1, <1>2, <1>3 DEF RelationsShape
<1>5. ASSUME NEW p \in Pairs PROVE Fresh(p)'
  <2>1. CASE d \in {p[1], p[2]}
    BY <1>2, <1>3, <2>1 DEF Fresh, Owes
  <2>2. CASE d \notin {p[1], p[2]}
    <3>1. bridges'[{p[1], p[2]}] = bridges[{p[1], p[2]}]
      BY <1>1, <2>2, PairFacts
    <3>2. ~Owes(w, p)
      BY <1>1 DEF Owes, NotWarming
    <3>3. Fresh(p)
      BY DEF CachedIsCurrent, Fresh, Owes
    <3> QED
      BY <1>1, <1>3, <3>1, <3>2, <3>3, FreshFrame
  <2> QED
    BY <2>1, <2>2
<1> QED
  BY <1>4, <1>5 DEF CachedIsCurrent, Fresh, Owes

(* A document that leaves the graph takes its pairs' edges along. *)
LEMMA DropSubgraphStep ==
    ASSUME RelationsShape, CachedIsCurrent, NEW d \in Related, DropSubgraph(d)
    PROVE  RelationsShape' /\ CachedIsCurrent'
<1>1. /\ bridges' = [u \in Unordered |-> IF d \in u THEN {} ELSE bridges[u]]
      /\ UNCHANGED <<relationRows, warming, reading, lapsed>>
  BY DEF DropSubgraph
<1>2. RelationsShape'
  BY <1>1 DEF RelationsShape
<1>3. ASSUME NEW p \in Pairs PROVE Fresh(p)'
  <2>1. bridges'[{p[1], p[2]}] = {} \/ bridges'[{p[1], p[2]}] = bridges[{p[1], p[2]}]
    BY <1>1, PairFacts
  <2>2. Fresh(p)
    BY DEF CachedIsCurrent, Fresh, Owes
  <2>3. \A w \in Projecting : Owes(w, p) => Owes(w, p)'
    BY <1>1 DEF Owes
  <2>4. CASE bridges'[{p[1], p[2]}] = {}
    BY <2>4 DEF Fresh
  <2>5. CASE bridges'[{p[1], p[2]}] = bridges[{p[1], p[2]}]
    BY <1>1, <2>2, <2>3, <2>5, FreshFrame
  <2> QED
    BY <2>1, <2>4, <2>5
<1> QED
  BY <1>2, <1>3 DEF CachedIsCurrent, Fresh, Owes

(* A warm-up that computes nothing and writes no row still owes the pairs   *)
(* that have an edge, or lets them lapse.                                  *)
LEMMA WarmStep ==
    ASSUME RelationsShape, CachedIsCurrent, NEW w \in Projecting, NEW new \in Warmings,
           warming' = [warming EXCEPT ![w] = new], UNCHANGED <<bridges, relationRows, reading>>,
           new.stage # "list",
           new.stage = "write" => new.pair \in new.todo,
           lapsed \subseteq lapsed', lapsed' \subseteq Pairs,
           \A p \in Pairs : bridges[{p[1], p[2]}] # {} /\ Owes(w, p) => p \in lapsed' \/ p \in new.todo
    PROVE  RelationsShape' /\ CachedIsCurrent'
<1>1. /\ warming' \in [Projecting -> Warmings] /\ warming'[w] = new
      /\ \A x \in Projecting : x # w => warming'[x] = warming[x]
      /\ \A x \in Projecting, p \in Pairs : x # w /\ Owes(x, p) => Owes(x, p)'
  BY OneWarmingChanges
<1>2. RelationsShape'
  BY <1>1 DEF RelationsShape
<1>3. ASSUME NEW p \in Pairs PROVE Fresh(p)'
  <2>1. Fresh(p)
    BY DEF CachedIsCurrent, Fresh, Owes
  <2>2. p \in new.todo => Owes(w, p)'
    BY <1>1 DEF Owes
  <2> QED
    BY <1>1, <2>1, <2>2, FreshFrame
<1> QED
  BY <1>2, <1>3 DEF CachedIsCurrent, Fresh, Owes

(* Every step of a warm-up. *)
LEMMA WarmingSteps ==
    ASSUME RelationsShape, CachedIsCurrent, NEW w \in Projecting,
           \/ WarmList(w) \/ WarmListFails(w) \/ WarmCompute(w)
           \/ WarmWrite(w) \/ WarmPairFails(w) \/ WarmEnds(w)
    PROVE  RelationsShape' /\ CachedIsCurrent'
<1> DEFINE W == warming[w]
<1>1. W \in Warmings /\ W.todo \in SUBSET Pairs /\ warming \in [Projecting -> Warmings]
  BY DEF RelationsShape, Warmings
<1>2. NotWarming \in Warmings /\ NotWarming.stage = "none"
  BY WarmingRecords DEF NotWarming
<1>3. CASE WarmList(w)
  <2>1. W.of \in Related /\ W.todo = {} /\ W.stage = "list"
    BY <1>3 DEF WarmList, RelationsShape
  <2> DEFINE new == [W EXCEPT !.stage = "pairs", !.todo = PairsToWarm(W.of)]
  <2>2. PairsToWarm(W.of) \in SUBSET Pairs
    BY <2>1, PairsToWarmFacts
  <2>3. new \in Warmings
    BY <2>2, WarmingRecords
  <2>4. new.stage = "pairs" /\ new.todo = PairsToWarm(W.of)
    BY <1>1 DEF Warmings
  <2>5. warming' = [warming EXCEPT ![w] = new] /\ UNCHANGED <<bridges, relationRows, reading, lapsed>>
    BY <1>1, <1>3 DEF WarmList
  <2>6. \A p \in Pairs : bridges[{p[1], p[2]}] # {} /\ Owes(w, p) => p \in new.todo
    BY <2>1, <2>4, PairsToWarmFacts DEF Owes
  <2> HIDE DEF new
  <2> QED
    BY <2>3, <2>4, <2>5, <2>6, WarmStep DEF RelationsShape
<1>4. CASE WarmListFails(w)
  <2>1. W.stage = "list" /\ W.todo = {}
    BY <1>4 DEF WarmListFails, RelationsShape
  <2>2. \A p \in Pairs : Owes(w, p) => p \in lapsed'
    BY <1>4, <2>1 DEF WarmListFails, Owes
  <2>3. lapsed \subseteq lapsed' /\ lapsed' \subseteq Pairs
    BY <1>4 DEF WarmListFails, RelationsShape
  <2> QED
    BY <1>2, <1>4, <2>2, <2>3, WarmStep DEF WarmListFails
<1>5. CASE WarmCompute(w)
  <2>1. W.stage = "pairs" /\ UNCHANGED <<bridges, relationRows, reading, lapsed>>
    BY <1>5 DEF WarmCompute
  <2>2. PICK q \in W.todo :
          IF ExplainAggregate(q) = NoEvidence
          THEN warming' = [warming EXCEPT ![w].todo = @ \ {q}]
          ELSE warming' = [warming EXCEPT ![w].stage = "write", ![w].pair = q,
                                          ![w].evidence = ExplainAggregate(q)]
    BY <1>5 DEF WarmCompute
  <2>3. q \in Pairs
    BY <1>1
  <2>4. CASE ExplainAggregate(q) = NoEvidence
    <3> DEFINE new == [W EXCEPT !.todo = W.todo \ {q}]
    <3>1. new \in Warmings
      BY <1>1, WarmingRecords
    <3>2. new.stage = "pairs" /\ new.todo = W.todo \ {q}
      BY <1>1, <2>1 DEF Warmings
    <3>3. warming' = [warming EXCEPT ![w] = new]
      BY <1>1, <2>2, <2>4
    <3>4. \A p \in Pairs : bridges[{p[1], p[2]}] # {} /\ Owes(w, p) => p \in new.todo
      BY <2>1, <2>3, <2>4, <3>2, ExplainFacts DEF Owes
    <3> HIDE DEF new
    <3> QED
      BY <2>1, <3>1, <3>2, <3>3, <3>4, WarmStep DEF RelationsShape
  <2>5. CASE ExplainAggregate(q) # NoEvidence
    <3> DEFINE new == [W EXCEPT !.stage = "write", !.pair = q, !.evidence = ExplainAggregate(q)]
    <3>1. new \in Warmings
      BY <2>3, ExplainFacts, WarmingRecords
    <3>2. new.stage = "write" /\ new.pair = q /\ new.todo = W.todo
      BY <1>1 DEF Warmings
    <3>3. warming' = [warming EXCEPT ![w] = new]
      BY <1>1, <2>2, <2>5
    <3>4. \A p \in Pairs : Owes(w, p) => p \in new.todo
      BY <2>1, <3>2 DEF Owes
    <3> HIDE DEF new
    <3> QED
      BY <2>1, <3>1, <3>2, <3>3, <3>4, WarmStep DEF RelationsShape
  <2> QED
    BY <2>4, <2>5
<1>6. CASE WarmWrite(w) \/ WarmPairFails(w)
  <2>1. W.stage = "write" /\ W.pair \in W.todo /\ W.pair \in Pairs /\ UNCHANGED <<bridges, reading>>
    BY <1>1, <1>6 DEF WarmWrite, WarmPairFails, RelationsShape
  <2> DEFINE new == [W EXCEPT !.stage = "pairs", !.todo = W.todo \ {W.pair}, !.pair = <<>>,
                              !.evidence = NoEvidence]
  <2>2. new \in Warmings
    BY <1>1, WarmingRecords
  <2>3. new.stage = "pairs" /\ new.todo = W.todo \ {W.pair}
    BY <1>1 DEF Warmings
  <2>4. warming' = [warming EXCEPT ![w] = new]
    BY <1>1, <1>6 DEF WarmWrite, WarmPairFails
  <2>5. \A p \in Pairs : p # W.pair /\ Owes(w, p) => p \in new.todo
    BY <2>1, <2>3 DEF Owes
  <2> HIDE DEF new
  <2>6. CASE WarmPairFails(w)
    <3>1. lapsed' = lapsed \cup {W.pair} /\ UNCHANGED relationRows
      BY <2>6 DEF WarmPairFails
    <3> QED
      BY <2>1, <2>2, <2>3, <2>4, <2>5, <3>1, WarmStep DEF RelationsShape
  <2>7. CASE WarmWrite(w)
    <3>1. Upsert(W.pair, W.evidence)
      BY <2>7 DEF WarmWrite
    <3>2. /\ warming' \in [Projecting -> Warmings] /\ warming'[w] = new
          /\ \A x \in Projecting : x # w => warming'[x] = warming[x]
          /\ \A x \in Projecting, p \in Pairs : x # w /\ Owes(x, p) => Owes(x, p)'
      BY <2>2, <2>4, OneWarmingChanges
    <3>3. /\ W.evidence \in Answers
          /\ relationRows' \in [Pairs -> Answers] /\ lapsed' \subseteq Pairs
      BY <1>1, <2>1, <3>1 DEF Warmings, Upsert, RelationsShape
    <3>4. RelationsShape'
      BY <2>1, <2>3, <3>2, <3>3 DEF RelationsShape
    <3>5. ASSUME NEW p \in Pairs PROVE Fresh(p)'
      <4>1. Fresh(p)
        BY DEF CachedIsCurrent, Fresh, Owes
      <4>2. \A x \in Projecting : Owes(x, p) /\ p # W.pair => Owes(x, p)'
        BY <2>5, <3>2 DEF Owes
      <4> QED
        BY <2>1, <3>1, <4>1, <4>2, UpsertFresh
    <3> QED
      BY <3>4, <3>5 DEF CachedIsCurrent, Fresh, Owes
  <2> QED
    BY <1>6, <2>6, <2>7
<1>7. CASE WarmEnds(w)
  <2>1. \A p \in Pairs : ~Owes(w, p)
    BY <1>7 DEF WarmEnds, Owes
  <2> QED
    BY <1>2, <1>7, <2>1, WarmStep DEF WarmEnds, RelationsShape
<1> QED
  BY <1>3, <1>4, <1>5, <1>6, <1>7

(* A read computes a pair ... *)
LEMMA ReadComputesStep ==
    ASSUME RelationsShape, CachedIsCurrent, NEW r \in Reading, NEW p \in Pairs,
           NEW refresh \in BOOLEAN, Read(r, p, refresh)
    PROVE  RelationsShape' /\ CachedIsCurrent'
<1>1. UNCHANGED <<bridges, relationRows, warming, lapsed>>
  BY DEF Read
<1>2. [pair |-> p, evidence |-> ExplainAggregate(p)] \in Readings
  BY ExplainFacts DEF Readings
<1>3. RelationsShape'
  BY <1>1, <1>2 DEF Read, RelationsShape
<1>4. CachedIsCurrent'
  BY <1>1 DEF CachedIsCurrent, ExplainAggregate
<1> QED
  BY <1>3, <1>4

(* ... and writes its row later. *)
LEMMA ReadWritesStep ==
    ASSUME RelationsShape, CachedIsCurrent, NEW r \in Reading, ReadWrites(r)
    PROVE  RelationsShape' /\ CachedIsCurrent'
<1>1. /\ reading[r].pair \in Pairs /\ reading[r].evidence \in Answers
      /\ Upsert(reading[r].pair, reading[r].evidence)
      /\ reading' = [reading EXCEPT ![r] = NotReading] /\ UNCHANGED <<bridges, warming>>
  BY DEF ReadWrites, RelationsShape, Readings
<1>2. relationRows' \in [Pairs -> Answers] /\ lapsed' \subseteq Pairs
  BY <1>1 DEF Upsert, RelationsShape
<1>3. NotReading \in Readings
  BY DEF NotReading, Readings, Answers
<1>4. RelationsShape'
  BY <1>1, <1>2, <1>3 DEF RelationsShape
<1>5. ASSUME NEW p \in Pairs PROVE Fresh(p)'
  <2>1. Fresh(p)
    BY DEF CachedIsCurrent, Fresh, Owes
  <2>2. \A w \in Projecting : Owes(w, p) => Owes(w, p)'
    BY <1>1 DEF Owes
  <2> QED
    BY <1>1, <2>1, <2>2, UpsertFresh
<1> QED
  BY <1>4, <1>5 DEF CachedIsCurrent, Fresh, Owes

(* A crash lets lapse whatever was owed. *)
LEMMA RelationsCrashStep ==
    ASSUME RelationsShape, CachedIsCurrent, RelationsCrash
    PROVE  RelationsShape' /\ CachedIsCurrent'
<1>1. /\ UNCHANGED <<bridges, relationRows>>
      /\ warming' = [w \in Projecting |-> NotWarming]
      /\ reading' = [r \in Reading |-> NotReading]
      /\ lapsed \subseteq lapsed' /\ lapsed' \subseteq Pairs
  BY DEF RelationsCrash, RelationsShape
<1>2. \A p \in Pairs, w \in Projecting : Owes(w, p) => p \in lapsed'
  BY DEF RelationsCrash, Owes
<1>3. NotWarming \in Warmings /\ NotWarming.stage = "none" /\ NotReading \in Readings
  BY DEF NotWarming, NotReading, Warmings, Readings, Answers
<1>4. RelationsShape'
  BY <1>1, <1>3 DEF RelationsShape
<1>5. ASSUME NEW p \in Pairs PROVE Fresh(p)'
  <2>1. Fresh(p)
    BY DEF CachedIsCurrent, Fresh, Owes
  <2> QED
    BY <1>1, <1>2, <2>1, FreshFrame
<1> QED
  BY <1>4, <1>5 DEF CachedIsCurrent, Fresh, Owes

(* The table keeps its shape and stays current, step by step. *)
LEMMA CacheInductive == RelationsSpec => [](RelationsShape /\ CachedIsCurrent)
<1>1. RelationsInit => RelationsShape /\ CachedIsCurrent
  BY DEF RelationsInit, RelationsShape, CachedIsCurrent, NotWarming, NotReading, Warmings,
     Readings, Answers
<1>2. RelationsShape /\ CachedIsCurrent /\ [RelationsNext]_relationVars
        => RelationsShape' /\ CachedIsCurrent'
  <2> SUFFICES ASSUME RelationsShape, CachedIsCurrent, [RelationsNext]_relationVars
               PROVE  RelationsShape' /\ CachedIsCurrent'
    OBVIOUS
  <2>1. CASE UNCHANGED relationVars
    <3>1. RelationsShape'
      BY <2>1 DEF relationVars, RelationsShape
    <3>2. CachedIsCurrent'
      BY <2>1 DEF relationVars, CachedIsCurrent, ExplainAggregate
    <3> QED
      BY <3>1, <3>2
  <2> QED
    BY <2>1, ProjectDocumentStep, DropSubgraphStep, WarmingSteps, ReadComputesStep, ReadWritesStep,
       RelationsCrashStep DEF RelationsNext
<1> QED
  BY <1>1, <1>2, PTL DEF RelationsSpec

(* A row for two documents the graph relates is current, unless a warm-up   *)
(* has yet to come to it or its refresh is known to have been lost, however *)
(* projections, reads and crashes interleave.                              *)
THEOREM CacheIsCurrent == RelationsSpec => []CachedIsCurrent
  BY CacheInductive, PTL

-----------------------------------------------------------------------------
(* The enrichment stores.                                                  *)

Stages == [stage : Nat, step : {"waiting", "done", "extract", "save"}, layout : Layouts,
           batch : SUBSET Int]

(* Any two batches of claims share the number 0, and any two batches of     *)
(* allocations to sections of one layout share all of them: a batch is     *)
(* saved only where no other of its kind is.                               *)
ClaimsWhole == rows["claims"] # {} => \E r \in rows["claims"] : r.id = 0

AllocationsWhole ==
    \A l \in Layouts : \A r \in rows["chunk_taxonomy_allocations"] :
        r.id \in SectionsOf(l) =>
           \A i \in SectionsOf(l) : \E s \in rows["chunk_taxonomy_allocations"] : s.id = i

BatchesInv ==
    /\ {"claims", "chunk_taxonomy_allocations"} \subseteq DOMAIN rows
    /\ layout \in [raw : Layouts, semantic : Layouts]
    /\ projection \in [Projections -> Stages]
    /\ \A p \in Projections : projection[p].step = "save" =>
          projection[p].batch # {} /\ projection[p].batch \in BatchesFrom(Table(p), projection[p].layout)
    /\ ClaimsWhole /\ AllocationsWhole
    /\ BatchesNeverMix

(* A batch that is about to be saved. *)
LEMMA BatchFacts ==
    /\ \A b \in ClaimBatches : b \subseteq Int /\ (b # {} => 0 \in b)
    /\ \A l \in Layouts : \A b \in AllocationBatches(l) : b # {} => b = SectionsOf(l)
    /\ \A l, m \in Layouts : SectionsOf(l) \cap SectionsOf(m) # {} => l = m
    /\ \A t : \A l \in Layouts : BatchesFrom(t, l) \subseteq SUBSET Int
<1>1. MaxItems \in Nat \ {0}
  BY EnrichmentAssumption DEF EnrichmentAssumption
<1>2. \A b \in ClaimBatches : b \subseteq Int /\ (b # {} => 0 \in b)
  BY <1>1 DEF ClaimBatches
<1>3. \A l \in Layouts : \A b \in AllocationBatches(l) : b \subseteq Int /\ (b # {} => b = SectionsOf(l))
  BY DEF AllocationBatches, SectionsOf
<1>4. \A l, m \in Layouts : SectionsOf(l) \cap SectionsOf(m) # {} => l = m
  BY DEF SectionsOf, Layouts
<1>5. ProcessBatches \subseteq SUBSET Int
  BY DEF ProcessBatches
<1>6. TopicBatches \subseteq SUBSET Int
  BY <1>1 DEF TopicBatches
<1>7. \A t : \A l \in Layouts : BatchesFrom(t, l) \subseteq SUBSET Int
  BY <1>2, <1>3, <1>5, <1>6 DEF BatchesFrom
<1> QED
  BY <1>2, <1>3, <1>4, <1>7

(* The next stage has nothing to save yet. *)
LEMMA NextStageFacts ==
    ASSUME BatchesInv, NEW p \in Projections, NextStage(p)
    PROVE  /\ projection' \in [Projections -> Stages]
           /\ projection'[p].step # "save"
           /\ \A q \in Projections : q # p => projection'[q] = projection[q]
<1>1. projection \in [Projections -> Stages] /\ projection[p] \in Stages
  BY DEF BatchesInv
<1>2. Done \in Stages /\ Done.step = "done"
  BY DEF Done, Stages, Layouts
<1> DEFINE next == [projection[p] EXCEPT !.stage = projection[p].stage + 1, !.step = "extract", !.batch = {}]
<1>3. next \in Stages /\ next.step = "extract"
  <2>1. projection[p].stage + 1 \in Nat /\ {} \in SUBSET Int
    BY <1>1 DEF Stages
  <2> QED
    BY <1>1, <2>1 DEF Stages
<1>4. projection' = [projection EXCEPT ![p] = Done] \/ projection' = [projection EXCEPT ![p] = next]
  BY <1>1 DEF NextStage
<1> HIDE DEF next
<1> QED
  BY <1>1, <1>2, <1>3, <1>4

(* Steps that write no row keep what is whole; so does emptying a table. *)
LEMMA RowsFrame ==
    ASSUME BatchesInv, NEW t, rows' = rows \/ rows' = [rows EXCEPT ![t] = {}]
    PROVE  /\ {"claims", "chunk_taxonomy_allocations"} \subseteq DOMAIN rows'
           /\ ClaimsWhole' /\ AllocationsWhole' /\ BatchesNeverMix'
<1>1. /\ {"claims", "chunk_taxonomy_allocations"} \subseteq DOMAIN rows'
      /\ \A u \in {"claims", "chunk_taxonomy_allocations"} : rows'[u] = {} \/ rows'[u] = rows[u]
  BY DEF BatchesInv
<1>2. ClaimsWhole'
  BY <1>1 DEF BatchesInv, ClaimsWhole
<1>3. AllocationsWhole'
  BY <1>1 DEF BatchesInv, AllocationsWhole
<1>4. BatchesNeverMix'
  BY <1>1 DEF BatchesInv, BatchesNeverMix
<1> QED
  BY <1>1, <1>2, <1>3, <1>4

(* A save stores a whole batch where no row of another can be. *)
LEMMA SaveRowsStep ==
    ASSUME BatchesInv, NEW p \in Projections, SaveRows(p)
    PROVE  BatchesInv'
<1> DEFINE b == projection[p].batch
           t == Table(p)
           clash == {r \in rows[t] : r.id \in b}
<1>1. NextStage(p) /\ UNCHANGED <<wired, layout>> /\ projection[p].step = "save"
  BY DEF SaveRows
<1>2. /\ projection' \in [Projections -> Stages]
      /\ \A q \in Projections : projection'[q].step = "save" => q # p /\ projection'[q] = projection[q]
  BY <1>1, NextStageFacts
<1>3. \A q \in Projections : projection'[q].step = "save" =>
          projection'[q].batch # {} /\ projection'[q].batch \in BatchesFrom(Table(q)', projection'[q].layout)
  BY <1>1, <1>2 DEF BatchesInv, Table
<1>4. CASE UNCHANGED rows
  BY <1>1, <1>2, <1>3, <1>4, RowsFrame DEF BatchesInv
<1>5. CASE /\ clash = {} \/ t = "processes"
           /\ rows' = [rows EXCEPT ![t] = (@ \ clash) \cup RowsOf(p)]
  <2>1. /\ b # {} /\ b \in BatchesFrom(t, projection[p].layout)
        /\ projection[p].layout \in Layouts
    BY <1>1 DEF BatchesInv, Stages
  <2>2. PICK l \in Layouts : l = projection[p].layout
    BY <2>1
  <2>3. /\ \A r \in RowsOf(p) : r.id \in b /\ r.by = p
        /\ \A i \in b : \E r \in RowsOf(p) : r.id = i
    <3> DEFINE row(i) == [id |-> i, by |-> p, at |-> IF t = "document_topics" THEN clock ELSE 0]
    <3>1. \A i : row(i).id = i /\ row(i).by = p
      OBVIOUS
    <3>2. RowsOf(p) = {row(i) : i \in b}
      BY DEF RowsOf
    <3> HIDE DEF row
    <3> QED
      BY <3>1, <3>2
  <2>4. {"claims", "chunk_taxonomy_allocations"} \subseteq DOMAIN rows'
    BY <1>5 DEF BatchesInv
  <2>5. \A u \in {"claims", "chunk_taxonomy_allocations"} : u # t => rows'[u] = rows[u]
    BY <1>5 DEF BatchesInv
  <2>6. t \in {"claims", "chunk_taxonomy_allocations"} =>
           clash = {} /\ rows'[t] = rows[t] \cup RowsOf(p)
    BY <1>5 DEF BatchesInv
  <2> HIDE DEF b, t
  <2>7. t = "claims" => 0 \in b /\ rows[t] = {}
    <3>1. t = "claims" => b \in ClaimBatches
      BY <2>1 DEF BatchesFrom
    <3>2. t = "claims" => 0 \in b
      BY <2>1, <3>1, BatchFacts
    <3>3. ASSUME t = "claims", rows[t] # {} PROVE FALSE
      <4>1. PICK r \in rows[t] : r.id = 0
        BY <3>3 DEF BatchesInv, ClaimsWhole
      <4> QED
        BY <2>6, <3>2, <3>3, <4>1
    <3> QED
      BY <3>2, <3>3
  <2>8. t = "chunk_taxonomy_allocations" =>
           b = SectionsOf(l) /\ \A r \in rows[t] : r.id \notin SectionsOf(l)
    <3>1. t = "chunk_taxonomy_allocations" => b \in AllocationBatches(l)
      BY <2>1, <2>2 DEF BatchesFrom
    <3>2. t = "chunk_taxonomy_allocations" => b = SectionsOf(l)
      BY <2>1, <3>1, BatchFacts
    <3> QED
      BY <2>6, <3>2
  <2>9. ClaimsWhole'
    <3>1. CASE t = "claims"
      BY <2>3, <2>6, <2>7, <3>1 DEF ClaimsWhole
    <3>2. CASE t # "claims"
      BY <2>5, <3>2 DEF BatchesInv, ClaimsWhole
    <3> QED
      BY <3>1, <3>2
  <2>10. AllocationsWhole'
    <3>1. CASE t = "chunk_taxonomy_allocations"
      <4> SUFFICES ASSUME NEW m \in Layouts, NEW r \in rows'[t], r.id \in SectionsOf(m),
                          NEW i \in SectionsOf(m)
                   PROVE  \E s \in rows'[t] : s.id = i
        BY <3>1 DEF AllocationsWhole
      <4>1. CASE r \in RowsOf(p)
        <5>1. m = l
          BY <2>3, <2>8, <3>1, <4>1, BatchFacts
        <5> QED
          BY <2>3, <2>6, <2>8, <3>1, <5>1
      <4>2. CASE r \in rows[t]
        <5>1. \E s \in rows[t] : s.id = i
          BY <3>1, <4>2 DEF BatchesInv, AllocationsWhole
        <5> QED
          BY <2>6, <3>1, <5>1
      <4> QED
        BY <2>6, <3>1, <4>1, <4>2
    <3>2. CASE t # "chunk_taxonomy_allocations"
      BY <2>5, <3>2 DEF BatchesInv, AllocationsWhole
    <3> QED
      BY <3>1, <3>2
  <2>11. \A r, s \in rows'["claims"] : r.by = s.by
    <3>1. CASE t = "claims"
      BY <2>3, <2>6, <2>7, <3>1
    <3>2. CASE t # "claims"
      BY <2>5, <3>2 DEF BatchesInv, BatchesNeverMix
    <3> QED
      BY <3>1, <3>2
  <2>12. ASSUME NEW r \in rows'["chunk_taxonomy_allocations"],
                NEW s \in rows'["chunk_taxonomy_allocations"],
                NEW m \in Layouts, {r.id, s.id} \subseteq SectionsOf(m)
         PROVE  r.by = s.by
    <3>1. CASE t = "chunk_taxonomy_allocations"
      <4>1. CASE m = l
        BY <2>3, <2>6, <2>8, <2>12, <3>1, <4>1
      <4>2. CASE m # l
        <5>1. r.id \notin b /\ s.id \notin b
          BY <2>8, <2>12, <3>1, <4>2, BatchFacts
        <5>2. r \in rows[t] /\ s \in rows[t]
          BY <2>3, <2>6, <3>1, <5>1
        <5> QED
          BY <2>12, <3>1, <5>2 DEF BatchesInv, BatchesNeverMix
      <4> QED
        BY <4>1, <4>2
    <3>2. CASE t # "chunk_taxonomy_allocations"
      BY <2>5, <2>12, <3>2 DEF BatchesInv, BatchesNeverMix
    <3> QED
      BY <3>1, <3>2
  <2>13. BatchesNeverMix'
    BY <2>11, <2>12 DEF BatchesNeverMix
  <2> QED
    BY <1>1, <1>2, <1>3, <2>4, <2>9, <2>10, <2>13 DEF BatchesInv
<1> QED
  BY <1>4, <1>5 DEF SaveRows

(* Before its save, a stage has a batch of its table's kind. *)
LEMMA ExtractAndDeleteStep ==
    ASSUME BatchesInv, NEW p \in Projections, ExtractAndDelete(p)
    PROVE  BatchesInv'
<1>1. UNCHANGED <<wired, layout>>
  BY DEF ExtractAndDelete
<1>2. /\ {"claims", "chunk_taxonomy_allocations"} \subseteq DOMAIN rows'
      /\ ClaimsWhole' /\ AllocationsWhole' /\ BatchesNeverMix'
  BY RowsFrame DEF ExtractAndDelete
<1>3. CASE NextStage(p)
  BY <1>1, <1>2, <1>3, NextStageFacts DEF BatchesInv, Table
<1>4. CASE ~NextStage(p)
  <2>1. PICK b \in BatchesFrom(Table(p), projection[p].layout) :
          b # {} /\ projection' = [projection EXCEPT ![p].step = "save", ![p].batch = b]
    BY <1>4 DEF ExtractAndDelete
  <2>2. projection \in [Projections -> Stages] /\ projection[p] \in Stages
    BY DEF BatchesInv
  <2>3. projection[p].layout \in Layouts
    BY <2>2 DEF Stages
  <2>4. b \in SUBSET Int
    BY <2>1, <2>3, BatchFacts
  <2> DEFINE new == [projection[p] EXCEPT !.step = "save", !.batch = b]
  <2>5. /\ new \in Stages /\ new.step = "save" /\ new.batch = b
        /\ new.stage = projection[p].stage /\ new.layout = projection[p].layout
    BY <2>2, <2>4 DEF Stages
  <2>6. projection' = [projection EXCEPT ![p] = new]
    BY <2>1, <2>2
  <2> HIDE DEF new
  <2>7. /\ projection' \in [Projections -> Stages] /\ projection'[p] = new
        /\ \A q \in Projections : q # p => projection'[q] = projection[q]
    BY <2>2, <2>5, <2>6
  <2>8. Table(p)' = Table(p)
    BY <1>1, <2>5, <2>7 DEF Table
  <2>9. \A q \in Projections : q # p => Table(q)' = Table(q)
    BY <1>1, <2>7 DEF Table
  <2>10. ASSUME NEW q \in Projections, projection'[q].step = "save"
         PROVE  projection'[q].batch # {} /\ projection'[q].batch \in BatchesFrom(Table(q)', projection'[q].layout)
    BY <2>1, <2>5, <2>7, <2>8, <2>9, <2>10 DEF BatchesInv
  <2> QED
    BY <1>1, <1>2, <2>7, <2>10 DEF BatchesInv
<1> QED
  BY <1>3, <1>4

(* What keeps batches apart is kept by every step. *)
LEMMA BatchesInductive == EnrichmentSpec => []BatchesInv
<1>1. EnrichmentInit => BatchesInv
  BY DEF EnrichmentInit, BatchesInv, ClaimsWhole, AllocationsWhole, BatchesNeverMix, Tables,
     Waiting, Stages, Layouts
<1>2. BatchesInv /\ [EnrichmentNext]_enrichmentVars => BatchesInv'
  <2> SUFFICES ASSUME BatchesInv, [EnrichmentNext]_enrichmentVars PROVE BatchesInv'
    OBVIOUS
  <2>1. ASSUME NEW p \in Projections, StartProjection(p) PROVE BatchesInv'
    <3> DEFINE new == [stage |-> 1, step |-> "extract", layout |-> layout.semantic, batch |-> {}]
    <3>1. projection' = [projection EXCEPT ![p] = new] /\ UNCHANGED <<rows, wired, layout>>
      BY <2>1 DEF StartProjection
    <3>2. new \in Stages /\ new.step = "extract"
      BY DEF BatchesInv, Stages
    <3> HIDE DEF new
    <3>3. /\ projection' \in [Projections -> Stages] /\ projection'[p] = new
          /\ \A q \in Projections : q # p => projection'[q] = projection[q]
      BY <3>1, <3>2 DEF BatchesInv
    <3> QED
      BY <3>1, <3>2, <3>3, RowsFrame DEF BatchesInv, Table
  <2>2. CASE \E p \in Projections : ExtractAndDelete(p) \/ SaveRows(p)
    BY <2>2, ExtractAndDeleteStep, SaveRowsStep
  <2>3. CASE BackfillRaw \/ BackfillSemantic \/ BackfillFails \/ StartWalk \/ FetchPage
    <3>1. UNCHANGED <<rows, wired, projection>>
      BY <2>3 DEF BackfillRaw, BackfillSemantic, BackfillFails, StartWalk, FetchPage
    <3>2. layout' \in [raw : Layouts, semantic : Layouts]
      BY <2>3 DEF BackfillRaw, BackfillSemantic, BackfillFails, StartWalk, FetchPage, BatchesInv,
                  Layouts
    <3> QED
      BY <3>1, <3>2, RowsFrame DEF BatchesInv, Table
  <2>4. CASE BackfillDelete
    <3>1. UNCHANGED <<wired, projection, layout>> /\ \E t : rows' = [rows EXCEPT ![t] = {}]
      BY <2>4 DEF BackfillDelete
    <3> QED
      BY <3>1, RowsFrame DEF BatchesInv, Table
  <2>5. CASE EnrichmentRestart
    <3>1. UNCHANGED <<rows, wired, layout>>
      BY <2>5 DEF EnrichmentRestart
    <3>2. Waiting \in Stages /\ Done \in Stages /\ Waiting.step # "save" /\ Done.step # "save"
      BY DEF Waiting, Done, Stages, Layouts
    <3>3. projection' = [p \in Projections |-> IF projection[p] = Waiting THEN Waiting ELSE Done]
      BY <2>5 DEF EnrichmentRestart
    <3>4. projection' \in [Projections -> Stages] /\ \A p \in Projections : projection'[p].step # "save"
      BY <3>2, <3>3
    <3> QED
      BY <3>1, <3>4, RowsFrame DEF BatchesInv
  <2>6. CASE UNCHANGED enrichmentVars
    BY <2>6, RowsFrame DEF BatchesInv, enrichmentVars, Table
  <2> QED
    BY <2>1, <2>2, <2>3, <2>4, <2>5, <2>6 DEF EnrichmentNext
<1> QED
  BY <1>1, <1>2, PTL DEF EnrichmentSpec

(* However projections of a version interleave, fail or die, and whatever   *)
(* kw-rebackfill deletes, claims and allocations are never a mixture.      *)
THEOREM BatchesStaySeparate == EnrichmentSpec => []BatchesNeverMix
<1>1. BatchesInv => BatchesNeverMix
  BY DEF BatchesInv
<1> QED
  BY <1>1, BatchesInductive, PTL

-----------------------------------------------------------------------------
(* The schema and its stamps.                                              *)

(* A set of numbers has a least one. *)
LEMMA LeastNumber ==
    ASSUME NEW T \in SUBSET Nat, T # {}
    PROVE  \E x \in T : \A y \in T : x <= y
<1> DEFINE R == {ss \in Nat \X Nat : ss[1] < ss[2]}
<1>1. IsWellFoundedOn(R, Nat)
  BY NatLessThanWellFounded DEF OpToRel
<1>2. \E x \in T : \A y \in T : ~ (<<y, x>> \in R)
  BY <1>1, WFMin
<1>3. \A x, y \in Nat : <<y, x>> \in R <=> y < x
  OBVIOUS
<1>4. \A x, y \in Nat : ~(y < x) => x <= y
  OBVIOUS
<1> HIDE DEF R
<1> QED
  BY <1>2, <1>3, <1>4

LegacyNames == {"documents", "document_versions"}

(* Only the first migration makes the legacy tables, and every other table  *)
(* is made without columns that a later statement of its own could miss.   *)
PlainStatement(s) ==
    AsTable(s.parts) => s.on \notin LegacyNames /\ s.parts = {""}

(* A table made without columns of its own. *)
LEMMA PlainTable == \A name : name \notin LegacyNames => PlainStatement(NewTable(name, {}))
  BY DEF PlainStatement, NewTable, AsTable

(* A column or an index. *)
LEMMA PlainPart == \A name, part : part # "" => PlainStatement(PartOf(name, part))
  BY DEF PlainStatement, PartOf, AsTable

(* There are fifteen migrations. *)
LEMMA MigrationCount == MigrationIds = 1..15
  BY DEF MIGRATIONS, MigrationIds

(* Every migration after the first is made of plain statements. *)
LEMMA LaterMigrations ==
    ASSUME NEW i \in MigrationIds, i # 1, NEW s \in MigrationStatements(i)
    PROVE  PlainStatement(s)
<1>1. \A t \in MigrationStatements(2) : PlainStatement(t)
  <2>1. MigrationStatements(2) =
             {PartOf("document_versions", "reviewer_note"), PartOf("document_versions", "reviewed_at")}
    BY DEF MigrationStatements, MIGRATIONS, migrate_0002_add_review_columns
  <2> QED
    BY <2>1, PlainTable, PlainPart DEF LegacyNames
<1>2. \A t \in MigrationStatements(3) : PlainStatement(t)
  <2>1. MigrationStatements(3) =
             {PartOf("document_versions", "idx_document_id"), PartOf("documents", "idx_created_at_id")}
    BY DEF MigrationStatements, MIGRATIONS, migrate_0003_perf_indexes
  <2> QED
    BY <2>1, PlainTable, PlainPart DEF LegacyNames
<1>3. \A t \in MigrationStatements(4) : PlainStatement(t)
  <2>1. MigrationStatements(4) =
             {NewTable("document_scopes", {}), PartOf("document_scopes", "idx_lookup")}
    BY DEF MigrationStatements, MIGRATIONS, migrate_0004_document_scopes
  <2> QED
    BY <2>1, PlainTable, PlainPart DEF LegacyNames
<1>4. \A t \in MigrationStatements(5) : PlainStatement(t)
  <2>1. MigrationStatements(5) =
             {PartOf("document_scopes", "removed_at")}
    BY DEF MigrationStatements, MIGRATIONS, migrate_0005_document_scopes_removed_at
  <2> QED
    BY <2>1, PlainTable, PlainPart DEF LegacyNames
<1>5. \A t \in MigrationStatements(6) : PlainStatement(t)
  <2>1. MigrationStatements(6) =
             {PartOf("documents", "archived_at")}
    BY DEF MigrationStatements, MIGRATIONS, migrate_0006_documents_archived_at
  <2> QED
    BY <2>1, PlainTable, PlainPart DEF LegacyNames
<1>6. \A t \in MigrationStatements(7) : PlainStatement(t)
  <2>1. MigrationStatements(7) =
             {NewTable("validation_metadata", {})}
    BY DEF MigrationStatements, MIGRATIONS, migrate_0007_validation_metadata
  <2> QED
    BY <2>1, PlainTable, PlainPart DEF LegacyNames
<1>7. \A t \in MigrationStatements(8) : PlainStatement(t)
  <2>1. MigrationStatements(8) =
             {NewTable("corpus_norms", {})}
    BY DEF MigrationStatements, MIGRATIONS, migrate_0008_corpus_norms
  <2> QED
    BY <2>1, PlainTable, PlainPart DEF LegacyNames
<1>8. \A t \in MigrationStatements(9) : PlainStatement(t)
  <2>1. MigrationStatements(9) =
             {NewTable("sampling_state", {})}
    BY DEF MigrationStatements, MIGRATIONS, migrate_0009_sampling_state
  <2> QED
    BY <2>1, PlainTable, PlainPart DEF LegacyNames
<1>9. \A t \in MigrationStatements(10) : PlainStatement(t)
  <2>1. MigrationStatements(10) =
             {NewTable("taxonomies", {}), NewTable("taxonomy_categories", {}),
              PartOf("taxonomies", "idx_active"), PartOf("taxonomy_categories", "idx_parent")}
    BY DEF MigrationStatements, MIGRATIONS, migrate_0010_taxonomy
  <2> QED
    BY <2>1, PlainTable, PlainPart DEF LegacyNames
<1>10. \A t \in MigrationStatements(11) : PlainStatement(t)
  <2>1. MigrationStatements(11) =
             {NewTable("document_relations", {}), PartOf("document_relations", "idx_source"),
              PartOf("document_relations", "idx_target"), PartOf("document_relations", "idx_computed_at")}
    BY DEF MigrationStatements, MIGRATIONS, migrate_0011_document_relations
  <2> QED
    BY <2>1, PlainTable, PlainPart DEF LegacyNames
<1>11. \A t \in MigrationStatements(12) : PlainStatement(t)
  <2>1. MigrationStatements(12) =
             {NewTable("claims", {}), PartOf("claims", "idx_subject_entity_id"),
              PartOf("claims", "idx_version_id"), PartOf("claims", "idx_predicate")}
    BY DEF MigrationStatements, MIGRATIONS, migrate_0012_claims
  <2> QED
    BY <2>1, PlainTable, PlainPart DEF LegacyNames
<1>12. \A t \in MigrationStatements(13) : PlainStatement(t)
  <2>1. MigrationStatements(13) =
             {NewTable("processes", {}), NewTable("process_steps", {}),
              PartOf("processes", "idx_document_id"), PartOf("processes", "idx_version_id")}
    BY DEF MigrationStatements, MIGRATIONS, migrate_0013_processes
  <2> QED
    BY <2>1, PlainTable, PlainPart DEF LegacyNames
<1>13. \A t \in MigrationStatements(14) : PlainStatement(t)
  <2>1. MigrationStatements(14) =
             {NewTable("document_topics", {}), PartOf("document_topics", "idx_document_id"),
              PartOf("document_topics", "idx_version_id")}
    BY DEF MigrationStatements, MIGRATIONS, migrate_0014_document_topics
  <2> QED
    BY <2>1, PlainTable, PlainPart DEF LegacyNames
<1>14. \A t \in MigrationStatements(15) : PlainStatement(t)
  <2>1. MigrationStatements(15) =
             {NewTable("chunk_taxonomy_allocations", {}),
              PartOf("chunk_taxonomy_allocations", "idx_document_id"),
              PartOf("chunk_taxonomy_allocations", "idx_chunk_id"),
              PartOf("chunk_taxonomy_allocations", "idx_version_id")}
    BY DEF MigrationStatements, MIGRATIONS, migrate_0015_chunk_taxonomy_allocations
  <2> QED
    BY <2>1, PlainTable, PlainPart DEF LegacyNames
<1>15. i \in 1..15
  BY MigrationCount
<1> QED
  BY <1>1, <1>2, <1>3, <1>4, <1>5, <1>6, <1>7, <1>8, <1>9, <1>10, <1>11, <1>12, <1>13, <1>14, <1>15

(* What a statement makes is part of what its migration makes. *)
LEMMA StatementParts ==
    ASSUME NEW i \in MigrationIds, NEW s \in MigrationStatements(i), NEW part \in s.parts
    PROVE  <<s.on, part>> \in PartsOf(i)
  BY DEF PartsOf

(* What the first two migrations leave. *)
LEMMA FirstMigrations ==
    /\ PartsOf(2) \subseteq PartsOf(1)
    /\ \A s \in MigrationStatements(1) : AsTable(s.parts) =>
          s.parts = {""} \/ s.on \in LegacyNames
<1> DEFINE versions == NewTable("document_versions", {"reviewer_note", "reviewed_at"})
<1>1. MigrationStatements(1) = {NewTable("documents", {}), versions,
                       PartOf("document_versions", "idx_sha256"),
                       NewTable("raw_extractions", {}), NewTable("semantic_documents", {})}
  BY DEF MigrationStatements, MIGRATIONS, migrate_0001_initial
<1>2. MigrationStatements(2) = {PartOf("document_versions", "reviewer_note"),
                       PartOf("document_versions", "reviewed_at")}
  BY DEF MigrationStatements, MIGRATIONS, migrate_0002_add_review_columns
<1>3. 1 \in MigrationIds
  BY MigrationCount
<1>4. versions.on = "document_versions" /\ versions.parts = {"", "reviewer_note", "reviewed_at"}
  BY DEF NewTable
<1>5. versions \in MigrationStatements(1)
  BY <1>1
<1> HIDE DEF versions
<1>6. /\ <<"document_versions", "reviewer_note">> \in PartsOf(1)
      /\ <<"document_versions", "reviewed_at">> \in PartsOf(1)
  <2>1. \A part \in versions.parts : <<versions.on, part>> \in PartsOf(1)
    BY <1>3, <1>5, StatementParts
  <2> QED
    BY <1>4, <2>1
<1>7. PartsOf(2) \subseteq PartsOf(1)
  <2> SUFFICES ASSUME NEW part \in PartsOf(2) PROVE part \in PartsOf(1)
    OBVIOUS
  <2>1. PICK s \in MigrationStatements(2) : part \in {s.on} \X s.parts
    BY DEF PartsOf
  <2>2. \E name \in {"reviewer_note", "reviewed_at"} : s = PartOf("document_versions", name)
    BY <1>2
  <2>3. part \in {<<"document_versions", "reviewer_note">>, <<"document_versions", "reviewed_at">>}
    BY <2>1, <2>2 DEF PartOf
  <2> QED
    BY <1>6, <2>3
<1>8. \A name : NewTable(name, {}).parts = {""}
  BY DEF NewTable
<1>9. ~AsTable(PartOf("document_versions", "idx_sha256").parts)
  BY DEF PartOf, AsTable
<1>10. ASSUME NEW s \in MigrationStatements(1), AsTable(s.parts)
       PROVE  s.parts = {""} \/ s.on \in LegacyNames
  BY <1>1, <1>4, <1>8, <1>9, <1>10 DEF LegacyNames
<1> QED
  BY <1>7, <1>10

(* A stamped migration, and all before it, left what they make, but for what *)
(* the file lacked at first.  A database that has one of the legacy tables   *)
(* has all else that the first migration makes.  A process takes for applied *)
(* only what is stamped.                                                     *)
SchemaInv ==
    /\ stamps \subseteq MigrationIds
    /\ \A i \in stamps : PartsOf(i) \ lacking \subseteq schema /\ 1..i \subseteq stamps
    /\ (\E name \in LegacyNames : <<name, "">> \in schema) => PartsOf(1) \ lacking \subseteq schema
    /\ opening \in [Openers -> [at : {"closed", "reading", "adopting", "stamping", "migrating", "open"},
                                applied : SUBSET MigrationIds]]
    /\ \A p \in Openers :
          /\ opening[p].applied \subseteq stamps
          /\ opening[p].at = "stamping" => PartsOf(1) \ lacking \subseteq schema
          /\ opening[p].at = "open" => stamps = MigrationIds

(* A migration that runs adds all it makes to what was there, and keeps the *)
(* legacy tables whole.                                                    *)
LEMMA MigratedFacts ==
    ASSUME SchemaInv, NEW i \in MigrationIds
    PROVE  /\ schema \subseteq Migrated(i) /\ PartsOf(i) \ lacking \subseteq Migrated(i)
           /\ (\E name \in LegacyNames : <<name, "">> \in Migrated(i)) => PartsOf(1) \ lacking \subseteq Migrated(i)
<1>1. schema \subseteq Migrated(i)
  BY DEF Migrated
<1>2. ASSUME NEW s \in MigrationStatements(i), NEW part \in s.parts,
             <<s.on, part>> \notin lacking
      PROVE  <<s.on, part>> \in Migrated(i)
  <2>1. CASE ~IsPassedOver(s)
    BY <2>1 DEF Migrated
  <2>2. CASE IsPassedOver(s)
    <3>1. AsTable(s.parts) /\ <<s.on, "">> \in schema
      BY <2>2 DEF IsPassedOver
    <3>2. CASE s.parts = {""}
      BY <1>1, <3>1, <3>2
    <3>3. CASE s.parts # {""}
      <4>1. i = 1 /\ s.on \in LegacyNames
        BY <3>1, <3>3, LaterMigrations, FirstMigrations DEF PlainStatement
      <4>2. PartsOf(1) \ lacking \subseteq schema
        BY <3>1, <4>1 DEF SchemaInv
      <4> QED
        BY <1>1, <1>2, <4>1, <4>2, StatementParts
    <3> QED
      BY <3>2, <3>3
  <2> QED
    BY <2>1, <2>2
<1>3. PartsOf(i) \ lacking \subseteq Migrated(i)
  BY <1>2 DEF PartsOf
<1>4. ASSUME NEW name \in LegacyNames, <<name, "">> \in Migrated(i)
      PROVE  PartsOf(1) \ lacking \subseteq Migrated(i)
  <2>1. CASE <<name, "">> \in schema
    BY <1>1, <2>1 DEF SchemaInv
  <2>2. CASE <<name, "">> \notin schema
    <3>1. PICK s \in MigrationStatements(i) : <<name, "">> \in {s.on} \X s.parts
      BY <1>4, <2>2 DEF Migrated
    <3>2. s.on = name /\ AsTable(s.parts)
      BY <3>1 DEF AsTable
    <3>3. i = 1
      BY <3>2, LaterMigrations DEF PlainStatement
    <3> QED
      BY <1>3, <3>3
  <2> QED
    BY <2>1, <2>2
<1> QED
  BY <1>1, <1>3, <1>4

(* The least of some migrations. *)
LEMMA LeastMigration ==
    ASSUME NEW rest \in SUBSET MigrationIds, rest # {}
    PROVE  LET i == CHOOSE i \in rest : \A j \in rest : i <= j
           IN  i \in rest /\ \A j \in rest : i <= j
<1>1. rest \subseteq Nat
  BY MigrationCount
<1> QED
  BY <1>1, LeastNumber

(* What one process's progress leaves to the others. *)
LEMMA OneOpeningChanges ==
    ASSUME SchemaInv, NEW p \in Openers, stamps \subseteq stamps', schema \subseteq schema',
           lacking' = lacking,
           stamps' \subseteq MigrationIds,
           NEW new \in [at : {"closed", "reading", "adopting", "stamping", "migrating", "open"},
                        applied : SUBSET MigrationIds],
           opening' = [opening EXCEPT ![p] = new],
           new.applied \subseteq stamps',
           new.at = "stamping" => PartsOf(1) \ lacking \subseteq schema',
           new.at = "open" => stamps' = MigrationIds,
           \A i \in stamps' : PartsOf(i) \ lacking \subseteq schema' /\ 1..i \subseteq stamps',
           (\E name \in LegacyNames : <<name, "">> \in schema') => PartsOf(1) \ lacking \subseteq schema'
    PROVE  SchemaInv'
<1>1. /\ opening'[p] = new /\ \A q \in Openers : q # p => opening'[q] = opening[q]
      /\ opening' \in [Openers -> [at : {"closed", "reading", "adopting", "stamping", "migrating", "open"},
                                   applied : SUBSET MigrationIds]]
  BY DEF SchemaInv
<1>2. ASSUME NEW q \in Openers
      PROVE  /\ opening'[q].applied \subseteq stamps'
             /\ opening'[q].at = "stamping" => PartsOf(1) \ lacking \subseteq schema'
             /\ opening'[q].at = "open" => stamps' = MigrationIds
  BY <1>1 DEF SchemaInv
<1> QED
  BY <1>1, <1>2 DEF SchemaInv

(* Every step of an opening keeps the schema behind its stamps. *)
LEMMA SchemaSteps ==
    ASSUME SchemaInv, NEW p \in Openers,
           \/ TrackStamps(p) \/ ReadApplied(p) \/ LookForLegacyTables(p) \/ StampBootstrap(p)
           \/ RunMigration(p) \/ Opened(p) \/ StopProcess(p),
           lacking' = lacking
    PROVE  SchemaInv'
<1> DEFINE Steps == [at : {"closed", "reading", "adopting", "stamping", "migrating", "open"},
                     applied : SUBSET MigrationIds]
           o == opening[p]
<1>1. /\ opening \in [Openers -> Steps] /\ o \in Steps /\ o.applied \subseteq stamps
      /\ o.applied \in SUBSET MigrationIds
      /\ \A i \in stamps : PartsOf(i) \ lacking \subseteq schema /\ 1..i \subseteq stamps
      /\ stamps \subseteq MigrationIds
      /\ (\E name \in LegacyNames : <<name, "">> \in schema) => PartsOf(1) \ lacking \subseteq schema
  BY DEF SchemaInv
<1>2. \A to \in {"closed", "reading", "adopting", "stamping", "migrating", "open"} :
          /\ [o EXCEPT !.at = to] \in Steps
          /\ [o EXCEPT !.at = to].at = to /\ [o EXCEPT !.at = to].applied = o.applied
  BY <1>1
<1>3. \A A \in SUBSET MigrationIds :
          /\ [o EXCEPT !.applied = A] \in Steps
          /\ [o EXCEPT !.applied = A].at = o.at /\ [o EXCEPT !.applied = A].applied = A
  BY <1>1
<1>4. CASE TrackStamps(p)
  <2>1. /\ opening' = [opening EXCEPT ![p] = [o EXCEPT !.at = "reading"]]
        /\ schema' = schema \cup {<<"schema_migrations", "">>} /\ UNCHANGED stamps
    BY <1>1, <1>4 DEF TrackStamps
  <2>2. \A name \in LegacyNames : <<name, "">> \in schema' => <<name, "">> \in schema
    BY <2>1 DEF LegacyNames
  <2> QED
    BY <1>1, <1>2, <2>1, <2>2, OneOpeningChanges
<1>5. CASE ReadApplied(p)
  <2> DEFINE new == [at |-> IF stamps = {} THEN "adopting" ELSE "migrating", applied |-> stamps]
  <2>1. /\ opening' = [opening EXCEPT ![p] = new] /\ UNCHANGED <<schema, stamps>>
        /\ new \in Steps /\ new.applied = stamps /\ new.at \notin {"stamping", "open"}
    BY <1>1, <1>5 DEF ReadApplied
  <2> HIDE DEF new
  <2> QED
    BY <1>1, <2>1, OneOpeningChanges
<1>6. CASE LookForLegacyTables(p)
  <2>1. UNCHANGED <<schema, stamps>>
    BY <1>6 DEF LookForLegacyTables
  <2>2. \E to \in {"stamping", "migrating"} :
           /\ opening' = [opening EXCEPT ![p] = [o EXCEPT !.at = to]]
           /\ to = "stamping" => LegacyTables \subseteq schema
    BY <1>1, <1>6 DEF LookForLegacyTables
  <2>3. LegacyTables \subseteq schema => PartsOf(1) \ lacking \subseteq schema
    BY <1>1 DEF LegacyTables, LegacyNames
  <2>4. PICK to \in {"stamping", "migrating"} :
           /\ opening' = [opening EXCEPT ![p] = [o EXCEPT !.at = to]]
           /\ to = "stamping" => LegacyTables \subseteq schema
    BY <2>2
  <2> DEFINE new == [o EXCEPT !.at = to]
  <2>5. new \in Steps /\ new.at = to /\ new.applied = o.applied
    BY <1>2
  <2>6. opening' = [opening EXCEPT ![p] = new]
    BY <2>4
  <2> HIDE DEF new
  <2> QED
    BY <1>1, <2>1, <2>3, <2>4, <2>5, <2>6, OneOpeningChanges
<1>7. CASE StampBootstrap(p)
  <2> DEFINE rest == BootstrapStamped \ o.applied
             least == CHOOSE i \in rest : \A j \in rest : i <= j
  <2>1. o.at = "stamping" /\ UNCHANGED schema /\ PartsOf(1) \ lacking \subseteq schema
    BY <1>7 DEF StampBootstrap, SchemaInv
  <2>2. CASE rest = {}
    <3>1. opening' = [opening EXCEPT ![p] = [o EXCEPT !.at = "migrating"]] /\ UNCHANGED stamps
      BY <1>1, <1>7, <2>2 DEF StampBootstrap
    <3> QED
      BY <1>1, <1>2, <2>1, <3>1, OneOpeningChanges
  <2>3. CASE rest # {}
    <3>1. rest \in SUBSET MigrationIds
      BY MigrationCount DEF BootstrapStamped
    <3>2. least \in rest /\ \A j \in rest : least <= j
      BY <2>3, <3>1, LeastMigration
    <3> HIDE DEF least
    <3>3. /\ opening' = [opening EXCEPT ![p] = [o EXCEPT !.applied = o.applied \cup {least}]]
          /\ stamps' = stamps \cup {least}
      BY <1>1, <1>7, <2>3 DEF StampBootstrap, least
    <3>4. PartsOf(least) \ lacking \subseteq schema
      BY <2>1, <3>2, FirstMigrations DEF BootstrapStamped
    <3>5. 1..least \subseteq stamps'
      <4>1. least = 1 \/ (least = 2 /\ 1 \notin rest)
        <5>1. least \in {1, 2}
          BY <3>2 DEF BootstrapStamped
        <5>2. ~(2 <= 1)
          OBVIOUS
        <5> HIDE DEF rest
        <5> QED
          BY <3>2, <5>1, <5>2
      <4>2. least = 2 => 1 \in stamps
        <5>1. 1 \notin rest => 1 \in o.applied
          BY DEF BootstrapStamped
        <5> HIDE DEF rest
        <5>2. ~(2 = 1)
          OBVIOUS
        <5> QED
          BY <1>1, <4>1, <5>1, <5>2
      <4>3. 1..1 = {1} /\ 1..2 = {1, 2}
        OBVIOUS
      <4> QED
        BY <3>3, <4>1, <4>2, <4>3
    <3> HIDE DEF rest
    <3>6. o.applied \cup {least} \in SUBSET MigrationIds
      BY <1>1, <3>1, <3>2
    <3>7. stamps' \subseteq MigrationIds
      BY <1>1, <3>1, <3>2, <3>3
    <3>8. \A i \in stamps' : PartsOf(i) \ lacking \subseteq schema' /\ 1..i \subseteq stamps'
      BY <1>1, <2>1, <3>3, <3>4, <3>5
    <3> DEFINE new == [o EXCEPT !.applied = o.applied \cup {least}]
    <3>9. /\ new \in Steps /\ new.at = "stamping" /\ new.applied \subseteq stamps'
          /\ opening' = [opening EXCEPT ![p] = new]
      BY <1>1, <1>3, <2>1, <3>3, <3>6
    <3> HIDE DEF new
    <3> QED
      BY <1>1, <2>1, <3>3, <3>7, <3>8, <3>9, OneOpeningChanges
  <2> QED
    BY <2>2, <2>3
<1>8. CASE RunMigration(p)
  <2> DEFINE rest == MigrationIds \ o.applied
             least == CHOOSE i \in rest : \A j \in rest : i <= j
  <2>1. o.at = "migrating" /\ rest # {} /\ rest \in SUBSET MigrationIds
    BY <1>8 DEF RunMigration
  <2>2. least \in rest /\ \A j \in rest : least <= j
    BY <2>1, LeastMigration
  <2>3. \/ opening' = [opening EXCEPT ![p] = Closed] /\ UNCHANGED <<schema, stamps>>
        \/ /\ opening' = [opening EXCEPT ![p] = [o EXCEPT !.applied = o.applied \cup {least}]]
           /\ schema' = Migrated(least) /\ stamps' = stamps \cup {least}
    BY <1>1, <1>8 DEF RunMigration
  <2>4. 1..least \subseteq stamps \cup {least}
    <3> SUFFICES ASSUME NEW j \in 1..least, j # least PROVE j \in o.applied
      BY <1>1
    <3>1. j \in MigrationIds /\ j < least
      BY <2>2, MigrationCount
    <3>2. least \in Nat /\ j \in Nat
      BY <2>2, MigrationCount
    <3> QED
      BY <2>2, <3>1, <3>2
  <2> HIDE DEF least, rest
  <2>5. least \in MigrationIds
    BY <2>1, <2>2
  <2>6. Closed \in Steps /\ Closed.applied = {} /\ Closed.at = "closed"
    BY DEF Closed
  <2>7. CASE opening' = [opening EXCEPT ![p] = Closed] /\ UNCHANGED <<schema, stamps>>
    BY <1>1, <2>6, <2>7, OneOpeningChanges
  <2>8. CASE /\ opening' = [opening EXCEPT ![p] = [o EXCEPT !.applied = o.applied \cup {least}]]
             /\ schema' = Migrated(least) /\ stamps' = stamps \cup {least}
    <3>1. /\ schema \subseteq schema' /\ PartsOf(least) \ lacking \subseteq schema'
          /\ (\E name \in LegacyNames : <<name, "">> \in schema') => PartsOf(1) \ lacking \subseteq schema'
      BY <2>5, <2>8, MigratedFacts
    <3>2. o.applied \cup {least} \in SUBSET MigrationIds
      BY <1>1, <2>5
    <3>3. \A i \in stamps' : PartsOf(i) \ lacking \subseteq schema' /\ 1..i \subseteq stamps'
      BY <1>1, <2>4, <2>8, <3>1
    <3> DEFINE new == [o EXCEPT !.applied = o.applied \cup {least}]
    <3>4. /\ new \in Steps /\ new.at = "migrating" /\ new.applied \subseteq stamps'
          /\ opening' = [opening EXCEPT ![p] = new]
      BY <1>1, <1>3, <2>1, <2>8, <3>2
    <3> HIDE DEF new
    <3>5. stamps' \subseteq MigrationIds /\ stamps \subseteq stamps'
      BY <1>1, <2>5, <2>8
    <3> QED
      BY <3>1, <3>3, <3>4, <3>5, OneOpeningChanges
  <2> QED
    BY <2>3, <2>7, <2>8
<1>9. CASE Opened(p)
  <2> DEFINE new == [at |-> "open", applied |-> {}]
  <2>1. /\ opening' = [opening EXCEPT ![p] = new] /\ UNCHANGED <<schema, stamps>>
        /\ new \in Steps /\ new.applied = {} /\ stamps = MigrationIds
    BY <1>1, <1>9 DEF Opened
  <2> HIDE DEF new
  <2>2. new.at # "stamping"
    BY DEF new
  <2> QED
    BY <1>1, <2>1, <2>2, OneOpeningChanges
<1>10. CASE StopProcess(p)
  <2>1. Closed \in Steps /\ Closed.applied = {} /\ Closed.at = "closed"
    BY DEF Closed
  <2> QED
    BY <1>1, <1>10, <2>1, OneOpeningChanges DEF StopProcess
<1> QED
  BY <1>4, <1>5, <1>6, <1>7, <1>8, <1>9, <1>10

(* Stamps, parts and openings stay in step. *)
LEMMA SchemaInductive == SchemaSpec => []SchemaInv
<1>1. SchemaInit => SchemaInv
  <2> SUFFICES ASSUME SchemaInit PROVE SchemaInv
    OBVIOUS
  <2>1. opening = [p \in Openers |-> Closed]
    BY DEF SchemaInit
  <2>2. PICK n \in Releases, old \in BOOLEAN :
          /\ stamps = 1..n
          /\ schema = IF old THEN (PartsOf(1) \ lacking)
                                     \cup UNION {PartsOf(i) : i \in 3..n}
                             ELSE UNION {PartsOf(i) : i \in 1..n}
    BY DEF SchemaInit
  <2>3. n \in 0..15
    BY ReleasesAssumption DEF ReleasesAssumption
  <2>4. /\ stamps \subseteq MigrationIds
        /\ \A i \in stamps : PartsOf(i) \ lacking \subseteq schema /\ 1..i \subseteq stamps
    <3>1. \A i \in 1..n : PartsOf(i) \ lacking \subseteq schema
      <4>1. CASE old
        <5>1. \A i \in 1..n : i = 1 \/ i = 2 \/ i \in 3..n
          BY <2>3
        <5> QED
          BY <2>2, <4>1, <5>1, FirstMigrations
      <4>2. CASE ~old
        BY <2>2, <4>2
      <4> QED
        BY <4>1, <4>2
    <3> QED
      BY <2>2, <2>3, <3>1, MigrationCount
  <2>5. (\E name \in LegacyNames : <<name, "">> \in schema) => PartsOf(1) \ lacking \subseteq schema
    <3>1. CASE old
      BY <2>2, <3>1
    <3>2. CASE ~old /\ n = 0
      BY <2>2, <3>2
    <3>3. CASE ~old /\ n # 0
      <4>1. 1 \in 1..n
        BY <2>3, <3>3
      <4> QED
        BY <2>2, <3>3, <4>1
    <3> QED
      BY <3>1, <3>2, <3>3
  <2> QED
    BY <2>1, <2>4, <2>5 DEF SchemaInv, Closed
<1>2. SchemaInv /\ [SchemaNext]_schemaVars => SchemaInv'
  BY SchemaSteps DEF SchemaNext, schemaVars, SchemaInv
<1> QED
  BY <1>1, <1>2, PTL DEF SchemaSpec

(* For any number of openers, wherever they overlap and stop, every stamp   *)
(* stands for what its migration makes, but for the parts that a file older *)
(* than the stamps lacked from the start, and for all migrations before it; *)
(* and a process that serves finds everything else of the schema.          *)
THEOREM StampsAreTrue == SchemaSpec => []SchemaFollowsStamps
<1>1. SchemaInv => SchemaFollowsStamps
  BY DEF SchemaInv, SchemaFollowsStamps
<1> QED
  BY <1>1, SchemaInductive, PTL

-----------------------------------------------------------------------------
(* The counters of the router.                                             *)

(* The versions of a bucket routed by a method, on record or about to be. *)
Counted(b, m) ==
    {v \in ScoredVersions : /\ ContentTypeOf[v] = b
                            /\ \/ routing[v] # Unscored /\ routing[v].method = m
                               \/ routingStep[v] = m}

(* The counters cover the decisions on record and those a request still     *)
(* holds; such a request found the row it scored, and no method in it; and  *)
(* what the promotion pass is at has its row.                              *)
CountersInv ==
    /\ samples \in [Buckets -> SampleCounters]
    /\ routing \in [ScoredVersions -> RoutingRows \cup {Unscored}]
    /\ routingStep \in [ScoredVersions -> RoutingSteps]
    /\ listed \subseteq ScoredVersions
    /\ \A v \in ScoredVersions :
          /\ routingStep[v] \in ScoreClasses \cup RoutingMethods =>
                routing[v] # Unscored /\ routing[v].method = "none"
          /\ v \in listed \/ routingStep[v] = "mark" => routing[v] # Unscored
    /\ \A b \in Buckets :
          /\ Cardinality(Counted(b, "auto")) <= samples[b].auto
          /\ Cardinality(Counted(b, "human")) <= samples[b].human
          /\ Cardinality(Counted(b, "external")) <= samples[b].taken - samples[b].auto - samples[b].human
          /\ samples[b].afterAuto > 0 => samples[b].auto > 0

(* The counted versions of a bucket are finitely many; fewer make no more. *)
LEMMA CountedFacts ==
    ASSUME NEW b, NEW m
    PROVE  /\ IsFiniteSet(Counted(b, m)) /\ Cardinality(Counted(b, m)) \in Nat
           /\ \A A \in SUBSET Counted(b, m) : IsFiniteSet(A) /\ Cardinality(A) <= Cardinality(Counted(b, m))
           /\ \A v : /\ Cardinality(Counted(b, m) \cup {v}) \in Nat
                     /\ IsFiniteSet(Counted(b, m) \cup {v})
                     /\ Cardinality(Counted(b, m) \cup {v}) <= Cardinality(Counted(b, m)) + 1
<1>1. IsFiniteSet(Counted(b, m))
  <2>1. IsFiniteSet(ScoredVersions)
    BY RoutingAssumption DEF RoutingAssumption
  <2>2. Counted(b, m) \in SUBSET ScoredVersions
    BY DEF Counted
  <2> QED
    BY <2>1, <2>2, FS_Subset
<1>2. Cardinality(Counted(b, m)) \in Nat
  BY <1>1, FS_CardinalityType
<1>3. \A A \in SUBSET Counted(b, m) : IsFiniteSet(A) /\ Cardinality(A) <= Cardinality(Counted(b, m))
  BY <1>1, FS_Subset
<1>4. ASSUME NEW v
      PROVE  /\ IsFiniteSet(Counted(b, m) \cup {v}) /\ Cardinality(Counted(b, m) \cup {v}) \in Nat
             /\ Cardinality(Counted(b, m) \cup {v}) <= Cardinality(Counted(b, m)) + 1
  <2>1. /\ IsFiniteSet(Counted(b, m) \cup {v})
        /\ Cardinality(Counted(b, m) \cup {v}) =
              IF v \in Counted(b, m) THEN Cardinality(Counted(b, m)) ELSE Cardinality(Counted(b, m)) + 1
    BY <1>1, FS_AddElement
  <2> QED
    BY <1>2, <2>1
<1> QED
  BY <1>1, <1>2, <1>3, <1>4

(* A step that leaves the counters alone, and counts no version anew. *)
LEMMA CountersFrame ==
    ASSUME CountersInv, UNCHANGED samples,
           routing' \in [ScoredVersions -> RoutingRows \cup {Unscored}],
           routingStep' \in [ScoredVersions -> RoutingSteps],
           listed' \subseteq ScoredVersions,
           \A v \in ScoredVersions :
              /\ routingStep'[v] \in ScoreClasses \cup RoutingMethods =>
                    routing'[v] # Unscored /\ routing'[v].method = "none"
              /\ v \in listed' \/ routingStep'[v] = "mark" => routing'[v] # Unscored,
           \A b, m : m \in RoutingMethods => Counted(b, m)' \subseteq Counted(b, m)
    PROVE  CountersInv'
<1> USE DEF RoutingMethods
<1>1. ASSUME NEW b \in Buckets, NEW m \in RoutingMethods
      PROVE  /\ Cardinality(Counted(b, m)') <= Cardinality(Counted(b, m))
             /\ Cardinality(Counted(b, m)') \in Nat /\ Cardinality(Counted(b, m)) \in Nat
  BY CountedFacts, FS_CardinalityType
<1>2. ASSUME NEW b \in Buckets
      PROVE  /\ Cardinality(Counted(b, "auto")') <= samples'[b].auto
             /\ Cardinality(Counted(b, "human")') <= samples'[b].human
             /\ Cardinality(Counted(b, "external")') <= samples'[b].taken - samples'[b].auto - samples'[b].human
             /\ samples'[b].afterAuto > 0 => samples'[b].auto > 0
  <2>1. samples[b] \in SampleCounters /\ samples'[b] = samples[b]
    BY DEF CountersInv
  <2>2. /\ Cardinality(Counted(b, "auto")) <= samples[b].auto
        /\ Cardinality(Counted(b, "human")) <= samples[b].human
        /\ Cardinality(Counted(b, "external")) <= samples[b].taken - samples[b].auto - samples[b].human
        /\ samples[b].afterAuto > 0 => samples[b].auto > 0
    BY DEF CountersInv
  <2>3. /\ samples[b].auto \in Nat /\ samples[b].human \in Nat /\ samples[b].taken \in Nat
    BY <2>1 DEF SampleCounters
  <2> QED
    BY <1>1, <2>1, <2>2, <2>3
<1>3. samples' \in [Buckets -> SampleCounters]
  BY DEF CountersInv
<1> QED
  BY <1>2, <1>3 DEF CountersInv

(* What recording a decision makes of the counters of its bucket. *)
LEMMA RecordedCounters ==
    ASSUME CountersInv, NEW b \in Buckets, NEW m \in RoutingMethods, RecordDecisionOf(b, m)
    PROVE  /\ samples' \in [Buckets -> SampleCounters]
           /\ \A c \in Buckets : c # b => samples'[c] = samples[c]
           /\ samples'[b].taken = samples[b].taken + 1
           /\ samples'[b].auto = samples[b].auto + (IF m = "auto" THEN 1 ELSE 0)
           /\ samples'[b].human = samples[b].human + (IF m = "human" THEN 1 ELSE 0)
           /\ samples'[b].afterAuto = samples[b].afterAuto
<1> DEFINE taken == samples[b].taken + 1
           auto == IF m = "auto" THEN samples[b].auto + 1 ELSE samples[b].auto
           human == IF m = "human" THEN samples[b].human + 1 ELSE samples[b].human
           new == [samples[b] EXCEPT !.taken = taken, !.auto = auto, !.human = human]
<1>1. samples \in [Buckets -> SampleCounters] /\ samples[b] \in SampleCounters
  BY DEF CountersInv
<1>2. samples' = [samples EXCEPT ![b] = new]
  BY <1>1 DEF RecordDecisionOf
<1>3. /\ samples[b].taken \in Nat /\ samples[b].auto \in Nat /\ samples[b].human \in Nat
      /\ samples[b].afterAuto \in Nat
  BY <1>1 DEF SampleCounters
<1>4. /\ taken \in Nat /\ taken = samples[b].taken + 1
      /\ auto \in Nat /\ auto = samples[b].auto + (IF m = "auto" THEN 1 ELSE 0)
      /\ human \in Nat /\ human = samples[b].human + (IF m = "human" THEN 1 ELSE 0)
  BY <1>3
<1> HIDE DEF taken, auto, human
<1>5. new \in SampleCounters
  BY <1>1, <1>4 DEF SampleCounters
<1>6. new.taken = taken /\ new.auto = auto /\ new.human = human
  BY <1>1, <1>4 DEF SampleCounters
<1>7. new.afterAuto = samples[b].afterAuto
  BY <1>1, <1>4 DEF SampleCounters
<1> HIDE DEF new
<1> QED
  BY <1>1, <1>2, <1>4, <1>5, <1>6, <1>7

(* A decision that is counted may be held, or put on record, of one version *)
(* of the bucket.                                                          *)
LEMMA CountersCount ==
    ASSUME CountersInv, NEW b \in Buckets, NEW m \in RoutingMethods, NEW u, RecordDecisionOf(b, m),
           routing' \in [ScoredVersions -> RoutingRows \cup {Unscored}],
           routingStep' \in [ScoredVersions -> RoutingSteps],
           listed' \subseteq ScoredVersions,
           \A v \in ScoredVersions :
              /\ routingStep'[v] \in ScoreClasses \cup RoutingMethods =>
                    routing'[v] # Unscored /\ routing'[v].method = "none"
              /\ v \in listed' \/ routingStep'[v] = "mark" => routing'[v] # Unscored,
           \A c, n : n \in RoutingMethods =>
              Counted(c, n)' \subseteq IF c = b /\ n = m THEN Counted(c, n) \cup {u} ELSE Counted(c, n)
    PROVE  CountersInv'
<1> USE DEF RoutingMethods
<1>1. ASSUME NEW c \in Buckets, NEW n \in RoutingMethods
      PROVE  /\ Cardinality(Counted(c, n)') <= Cardinality(Counted(c, n)) + (IF c = b /\ n = m THEN 1 ELSE 0)
             /\ Cardinality(Counted(c, n)') \in Nat /\ Cardinality(Counted(c, n)) \in Nat
  <2>1. CASE c = b /\ n = m
    <3>1. Counted(c, n)' \subseteq Counted(c, n) \cup {u}
      BY <2>1
    <3>2. /\ IsFiniteSet(Counted(c, n) \cup {u}) /\ Cardinality(Counted(c, n) \cup {u}) \in Nat
          /\ Cardinality(Counted(c, n) \cup {u}) <= Cardinality(Counted(c, n)) + 1
          /\ Cardinality(Counted(c, n)) \in Nat
      BY CountedFacts
    <3>3. /\ IsFiniteSet(Counted(c, n)')
          /\ Cardinality(Counted(c, n)') <= Cardinality(Counted(c, n) \cup {u})
      BY <3>1, <3>2, FS_Subset
    <3>4. Cardinality(Counted(c, n)') \in Nat
      BY <3>3, FS_CardinalityType
    <3> QED
      BY <2>1, <3>2, <3>3, <3>4
  <2>2. CASE ~(c = b /\ n = m)
    <3>1. Counted(c, n)' \in SUBSET Counted(c, n)
      BY <2>2
    <3>2. /\ IsFiniteSet(Counted(c, n)') /\ Cardinality(Counted(c, n)') <= Cardinality(Counted(c, n))
          /\ Cardinality(Counted(c, n)) \in Nat
      BY <3>1, CountedFacts
    <3>3. Cardinality(Counted(c, n)') \in Nat
      BY <3>2, FS_CardinalityType
    <3> QED
      BY <2>2, <3>2, <3>3
  <2> QED
    BY <2>1, <2>2
<1>2. ASSUME NEW c \in Buckets
      PROVE  /\ Cardinality(Counted(c, "auto")') <= samples'[c].auto
             /\ Cardinality(Counted(c, "human")') <= samples'[c].human
             /\ Cardinality(Counted(c, "external")') <= samples'[c].taken - samples'[c].auto - samples'[c].human
             /\ samples'[c].afterAuto > 0 => samples'[c].auto > 0
  <2> DEFINE one(n) == IF c = b /\ n = m THEN 1 ELSE 0
  <2>1. samples[c] \in SampleCounters
    BY DEF CountersInv
  <2>2. /\ Cardinality(Counted(c, "auto")) <= samples[c].auto
        /\ Cardinality(Counted(c, "human")) <= samples[c].human
        /\ Cardinality(Counted(c, "external")) <= samples[c].taken - samples[c].auto - samples[c].human
        /\ samples[c].afterAuto > 0 => samples[c].auto > 0
    BY DEF CountersInv
  <2>3. samples[c].auto \in Nat /\ samples[c].human \in Nat /\ samples[c].taken \in Nat
    BY <2>1 DEF SampleCounters
  <2>4. /\ samples'[c].auto = samples[c].auto + one("auto")
        /\ samples'[c].human = samples[c].human + one("human")
        /\ samples'[c].taken = samples[c].taken + one("auto") + one("human") + one("external")
        /\ samples'[c].afterAuto = samples[c].afterAuto
    <3>1. CASE c = b
      BY <2>3, <3>1, RecordedCounters
    <3>2. CASE c # b
      BY <2>3, <3>2, RecordedCounters
    <3> QED
      BY <3>1, <3>2
  <2>5. \A n \in RoutingMethods : one(n) \in {0, 1}
    OBVIOUS
  <2>6. \A n \in RoutingMethods :
           /\ Cardinality(Counted(c, n)') <= Cardinality(Counted(c, n)) + one(n)
           /\ Cardinality(Counted(c, n)') \in Nat /\ Cardinality(Counted(c, n)) \in Nat
    BY <1>1
  <2> HIDE DEF one
  <2> QED
    BY <2>2, <2>3, <2>4, <2>5, <2>6
<1>3. samples' \in [Buckets -> SampleCounters]
  BY RecordedCounters
<1> QED
  BY <1>2, <1>3 DEF CountersInv

(* Scoring, routing, reviewing and promoting keep the counters.  *)
LEMMA CountersSteps ==
    ASSUME CountersInv, NEW v \in ScoredVersions,
           \/ ScoreVersion(v) \/ Decide(v) \/ StoreRouting(v)
           \/ Reviewed(v) \/ RejectVersion(v) \/ RecordDrift(v)
           \/ PromoteListed(v) \/ MarkListed(v) \/ BumpPromoted(v)
    PROVE  CountersInv'
<1>1. /\ routing \in [ScoredVersions -> RoutingRows \cup {Unscored}]
      /\ routingStep \in [ScoredVersions -> RoutingSteps] /\ listed \subseteq ScoredVersions
  BY DEF CountersInv
<1>2. \A u \in ScoredVersions :
          /\ routingStep[u] \in ScoreClasses \cup RoutingMethods =>
                routing[u] # Unscored /\ routing[u].method = "none"
          /\ u \in listed \/ routingStep[u] = "mark" => routing[u] # Unscored
  BY DEF CountersInv
<1>3. ContentTypeOf[v] \in Buckets
  BY DEF Buckets
<1>4. CASE ScoreVersion(v)
  <2> DEFINE row == [method |-> "none", validation |-> "none"]
  <2>1. PICK class \in ScoreClasses : routingStep' = [routingStep EXCEPT ![v] = class]
    BY <1>4 DEF ScoreVersion
  <2>2. routing' = [routing EXCEPT ![v] = row] /\ UNCHANGED <<samples, listed>>
    BY <1>4 DEF ScoreVersion
  <2>3. row \in RoutingRows /\ row # Unscored /\ row.method = "none"
    BY UnscoredAssumption DEF UnscoredAssumption, RoutingRows
  <2> HIDE DEF row
  <2>4. /\ routing' \in [ScoredVersions -> RoutingRows \cup {Unscored}] /\ routing'[v] = row
        /\ \A u \in ScoredVersions : u # v => routing'[u] = routing[u]
        /\ routingStep' \in [ScoredVersions -> RoutingSteps] /\ routingStep'[v] = class
        /\ \A u \in ScoredVersions : u # v => routingStep'[u] = routingStep[u]
    BY <1>1, <2>1, <2>2, <2>3 DEF RoutingSteps
  <2>5. class # "mark" /\ \A m \in RoutingMethods : m # class /\ m # "none"
    BY <2>1 DEF ScoreClasses, RoutingMethods
  <2>6. \A b, m : m \in RoutingMethods => Counted(b, m)' \subseteq Counted(b, m)
    BY <2>3, <2>4, <2>5 DEF Counted
  <2> QED
    BY <1>1, <1>2, <2>2, <2>3, <2>4, <2>5, <2>6, CountersFrame
<1>5. CASE Decide(v)
  <2>1. UNCHANGED <<routing, listed>> /\ routingStep[v] \in ScoreClasses
    BY <1>5 DEF Decide
  <2>2. routing[v] # Unscored /\ routing[v].method = "none"
    BY <1>2, <2>1
  <2>3. CASE routingStep' = [routingStep EXCEPT ![v] = "idle"] /\ UNCHANGED samples
    <3>1. /\ routingStep' \in [ScoredVersions -> RoutingSteps] /\ routingStep'[v] = "idle"
          /\ \A u \in ScoredVersions : u # v => routingStep'[u] = routingStep[u]
      BY <1>1, <2>3 DEF RoutingSteps
    <3>2. \A b, m : m \in RoutingMethods => Counted(b, m)' \subseteq Counted(b, m)
      BY <2>1, <3>1 DEF Counted, RoutingMethods
    <3>3. "idle" \notin ScoreClasses \cup RoutingMethods
      BY DEF ScoreClasses, RoutingMethods
    <3> QED
      BY <1>1, <1>2, <2>1, <2>3, <3>1, <3>2, <3>3, CountersFrame
  <2>4. ASSUME NEW m \in DecisionsOn(routingStep[v], ContentTypeOf[v]),
               RecordDecisionOf(ContentTypeOf[v], m), routingStep' = [routingStep EXCEPT ![v] = m]
        PROVE  CountersInv'
    <3>1. m \in RoutingMethods
      BY DEF DecisionsOn, RoutingMethods
    <3>2. /\ routingStep' \in [ScoredVersions -> RoutingSteps] /\ routingStep'[v] = m
          /\ \A u \in ScoredVersions : u # v => routingStep'[u] = routingStep[u]
      BY <1>1, <2>4, <3>1 DEF RoutingSteps
    <3>3. \A c, n : n \in RoutingMethods =>
             Counted(c, n)' \subseteq IF c = ContentTypeOf[v] /\ n = m THEN Counted(c, n) \cup {v}
                                                                      ELSE Counted(c, n)
      BY <2>1, <3>2 DEF Counted
    <3>4. m # "mark"
      BY <3>1 DEF RoutingMethods
    <3> QED
      BY <1>1, <1>2, <1>3, <2>1, <2>2, <2>4, <3>1, <3>2, <3>3, <3>4, CountersCount
  <2> QED
    BY <1>5, <2>3, <2>4 DEF Decide
<1>6. CASE StoreRouting(v)
  <2> DEFINE m == routingStep[v]
             row == [routing[v] EXCEPT !.method = m, !.validation = "none"]
  <2>1. /\ m \in RoutingMethods /\ UNCHANGED <<samples, listed>>
        /\ routingStep' = [routingStep EXCEPT ![v] = "idle"]
        /\ routing' = [routing EXCEPT ![v] = row] \/ UNCHANGED routing
    BY <1>1, <1>6 DEF StoreRouting
  <2>2. routing[v] \in RoutingRows
    BY <1>1, <1>2, <2>1
  <2> HIDE DEF m
  <2>3. row \in RoutingRows
    BY <2>1, <2>2 DEF RoutingRows
  <2>4. row.method = m
    BY <2>1, <2>2 DEF RoutingRows
  <2>5. row # Unscored
    BY <2>3, UnscoredAssumption DEF UnscoredAssumption
  <2> HIDE DEF row
  <2>6. /\ routingStep' \in [ScoredVersions -> RoutingSteps] /\ routingStep'[v] = "idle"
        /\ \A u \in ScoredVersions : u # v => routingStep'[u] = routingStep[u]
    BY <1>1, <2>1 DEF RoutingSteps
  <2>7. /\ routing' \in [ScoredVersions -> RoutingRows \cup {Unscored}]
        /\ routing'[v] = row \/ routing'[v] = routing[v]
        /\ \A u \in ScoredVersions : u # v => routing'[u] = routing[u]
    BY <1>1, <2>1, <2>3
  <2>8. "idle" \notin ScoreClasses \cup RoutingMethods
    BY DEF ScoreClasses, RoutingMethods
  <2>9. \A b, n : n \in RoutingMethods => Counted(b, n)' \subseteq Counted(b, n)
    BY <2>4, <2>6, <2>7, <2>8 DEF Counted, m
  <2> QED
    BY <1>1, <1>2, <2>1, <2>2, <2>5, <2>6, <2>7, <2>8, <2>9, CountersFrame
<1>7. CASE Reviewed(v) \/ RejectVersion(v)
  <2>1. UNCHANGED <<samples, routing, routingStep, listed>>
    BY <1>7 DEF Reviewed, RejectVersion
  <2>2. \A b, m : Counted(b, m)' \subseteq Counted(b, m)
    BY <2>1 DEF Counted
  <2> QED
    BY <1>1, <1>2, <2>1, <2>2, CountersFrame
<1>8. CASE RecordDrift(v)
  <2> DEFINE b == ContentTypeOf[v]
             new == [samples[b] EXCEPT !.afterAuto = samples[b].afterAuto + 1]
  <2>1. UNCHANGED <<routing, routingStep, listed>>
    BY <1>8 DEF RecordDrift
  <2>2. \A c, m : Counted(c, m)' = Counted(c, m)
    BY <2>1 DEF Counted
  <2>3. CASE UNCHANGED samples
    BY <1>1, <1>2, <2>1, <2>2, <2>3, CountersFrame
  <2>4. CASE samples' # samples
    <3>1. /\ routing[v] # Unscored /\ routing[v].method = "auto"
          /\ samples \in [Buckets -> SampleCounters] /\ samples[b] \in SampleCounters
      BY <1>3, <1>8, <2>4 DEF RecordDrift, CountersInv
    <3>2. samples' = [samples EXCEPT ![b] = new]
      BY <1>3, <1>8, <2>4, <3>1 DEF RecordDrift
    <3>3. new \in SampleCounters
      BY <3>1 DEF SampleCounters
    <3>4. new.taken = samples[b].taken /\ new.auto = samples[b].auto /\ new.human = samples[b].human
      BY <3>1 DEF SampleCounters
    <3>5. samples[b].auto > 0
      <4>1. v \in Counted(b, "auto")
        BY <3>1 DEF Counted
      <4>2. /\ IsFiniteSet(Counted(b, "auto")) /\ Cardinality(Counted(b, "auto")) \in Nat
            /\ Cardinality(Counted(b, "auto")) # 0
        BY <4>1, CountedFacts, FS_EmptySet
      <4>3. Cardinality(Counted(b, "auto")) <= samples[b].auto /\ samples[b].auto \in Nat
        BY <1>3, <3>1 DEF CountersInv, SampleCounters
      <4> QED
        BY <4>2, <4>3
    <3> HIDE DEF new
    <3>6. /\ samples' \in [Buckets -> SampleCounters] /\ samples'[b] = new
          /\ \A c \in Buckets : c # b => samples'[c] = samples[c]
      BY <1>3, <3>1, <3>2, <3>3
    <3>7. ASSUME NEW c \in Buckets
          PROVE  /\ Cardinality(Counted(c, "auto")') <= samples'[c].auto
                 /\ Cardinality(Counted(c, "human")') <= samples'[c].human
                 /\ Cardinality(Counted(c, "external")') <= samples'[c].taken - samples'[c].auto - samples'[c].human
                 /\ samples'[c].afterAuto > 0 => samples'[c].auto > 0
      BY <2>2, <3>4, <3>5, <3>6 DEF CountersInv
    <3> QED
      BY <1>1, <1>2, <2>1, <3>6, <3>7 DEF CountersInv
  <2> QED
    BY <2>3, <2>4
<1>9. CASE PromoteListed(v)
  <2>1. /\ UNCHANGED <<samples, routing>> /\ v \in listed /\ listed' = listed \ {v}
        /\ \/ routingStep[v] = "idle" /\ routingStep' = [routingStep EXCEPT ![v] = "mark"]
           \/ UNCHANGED routingStep
    BY <1>9 DEF PromoteListed
  <2>2. "mark" \notin ScoreClasses \cup RoutingMethods
    BY DEF ScoreClasses, RoutingMethods
  <2>3. /\ routingStep' \in [ScoredVersions -> RoutingSteps]
        /\ routingStep'[v] = "mark" \/ routingStep'[v] = routingStep[v]
        /\ \A u \in ScoredVersions : u # v => routingStep'[u] = routingStep[u]
    BY <1>1, <2>1 DEF RoutingSteps
  <2>4. \A b, m : m \in RoutingMethods => Counted(b, m)' \subseteq Counted(b, m)
    BY <2>1, <2>2, <2>3 DEF Counted
  <2> QED
    BY <1>1, <1>2, <2>1, <2>2, <2>3, <2>4, CountersFrame
<1>10. CASE MarkListed(v)
  <2> DEFINE row == [routing[v] EXCEPT !.validation = "auto"]
  <2>1. /\ routingStep[v] = "mark" /\ UNCHANGED <<samples, listed>>
        /\ routingStep' = [routingStep EXCEPT ![v] = "bump"]
        /\ routing' = [routing EXCEPT ![v] = row] \/ UNCHANGED routing
    BY <1>1, <1>10 DEF MarkListed
  <2>2. routing[v] \in RoutingRows
    BY <1>1, <1>2, <2>1
  <2>3. row \in RoutingRows
    BY <2>2 DEF RoutingRows
  <2>4. row.method = routing[v].method
    BY <2>2 DEF RoutingRows
  <2>5. row # Unscored
    BY <2>3, UnscoredAssumption DEF UnscoredAssumption
  <2> HIDE DEF row
  <2>6. /\ routingStep' \in [ScoredVersions -> RoutingSteps] /\ routingStep'[v] = "bump"
        /\ \A u \in ScoredVersions : u # v => routingStep'[u] = routingStep[u]
    BY <1>1, <2>1 DEF RoutingSteps
  <2>7. /\ routing' \in [ScoredVersions -> RoutingRows \cup {Unscored}]
        /\ routing'[v] = row \/ routing'[v] = routing[v]
        /\ \A u \in ScoredVersions : u # v => routing'[u] = routing[u]
    BY <1>1, <2>1, <2>3
  <2>8. {"bump", "mark"} \cap (ScoreClasses \cup RoutingMethods) = {}
    BY DEF ScoreClasses, RoutingMethods
  <2>9. \A b, n : n \in RoutingMethods => Counted(b, n)' \subseteq Counted(b, n)
    BY <1>2, <2>1, <2>4, <2>6, <2>7, <2>8 DEF Counted
  <2> QED
    BY <1>1, <1>2, <2>1, <2>2, <2>5, <2>6, <2>7, <2>8, <2>9, CountersFrame
<1>11. CASE BumpPromoted(v)
  <2>1. /\ UNCHANGED <<routing, listed>> /\ routingStep' = [routingStep EXCEPT ![v] = "idle"]
        /\ RecordDecisionOf(ContentTypeOf[v], "auto") \/ UNCHANGED samples
    BY <1>11 DEF BumpPromoted
  <2>2. /\ routingStep' \in [ScoredVersions -> RoutingSteps] /\ routingStep'[v] = "idle"
        /\ \A u \in ScoredVersions : u # v => routingStep'[u] = routingStep[u]
    BY <1>1, <2>1 DEF RoutingSteps
  <2>3. "idle" \notin ScoreClasses \cup RoutingMethods /\ "auto" \in RoutingMethods
    BY DEF ScoreClasses, RoutingMethods
  <2>4. \A b, m : m \in RoutingMethods => Counted(b, m)' \subseteq Counted(b, m)
    BY <2>1, <2>2, <2>3 DEF Counted
  <2>5. \A b, m : m \in RoutingMethods =>
           Counted(b, m)' \subseteq IF b = ContentTypeOf[v] /\ m = "auto" THEN Counted(b, m) \cup {v}
                                                                         ELSE Counted(b, m)
    BY <2>4
  <2>6. CASE UNCHANGED samples
    BY <1>1, <1>2, <2>1, <2>2, <2>3, <2>4, <2>6, CountersFrame
  <2>7. CASE RecordDecisionOf(ContentTypeOf[v], "auto")
    BY <1>1, <1>2, <1>3, <2>1, <2>2, <2>3, <2>5, <2>7, CountersCount
  <2> QED
    BY <2>1, <2>6, <2>7
<1> QED
  BY <1>4, <1>5, <1>6, <1>7, <1>8, <1>9, <1>10, <1>11

(* The counters stay ahead of the decisions. *)
LEMMA CountersInductive == RoutingSpec => []CountersInv
<1>1. RoutingInit => CountersInv
  <2> SUFFICES ASSUME RoutingInit PROVE CountersInv
    OBVIOUS
  <2> DEFINE zero == [taken |-> 0, auto |-> 0, human |-> 0, afterAuto |-> 0]
  <2>1. /\ samples = [b \in Buckets |-> zero] /\ routing = [v \in ScoredVersions |-> Unscored]
        /\ routingStep = [v \in ScoredVersions |-> "idle"] /\ listed = {}
    BY DEF RoutingInit
  <2>2. zero \in SampleCounters
    BY DEF SampleCounters
  <2>3. zero.auto = 0 /\ zero.human = 0 /\ zero.taken = 0 /\ zero.afterAuto = 0
    OBVIOUS
  <2> HIDE DEF zero
  <2>4. "idle" \notin ScoreClasses \cup RoutingMethods /\ "idle" \in RoutingSteps /\ "idle" # "mark"
    BY DEF ScoreClasses, RoutingMethods, RoutingSteps
  <2>5. \A b, m : m \in RoutingMethods => Counted(b, m) = {}
    BY <2>1, <2>4 DEF Counted
  <2>6. \A b, m : m \in RoutingMethods => Cardinality(Counted(b, m)) = 0
    BY <2>5, FS_EmptySet
  <2>7. \A b \in Buckets : samples[b] = zero
    BY <2>1
  <2> QED
    BY <2>1, <2>2, <2>3, <2>4, <2>6, <2>7 DEF CountersInv, RoutingMethods
<1>2. CountersInv /\ [RoutingNext]_routingVars => CountersInv'
  <2> SUFFICES ASSUME CountersInv, [RoutingNext]_routingVars PROVE CountersInv'
    OBVIOUS
  <2>1. /\ routing \in [ScoredVersions -> RoutingRows \cup {Unscored}]
        /\ routingStep \in [ScoredVersions -> RoutingSteps] /\ listed \subseteq ScoredVersions
        /\ \A v \in ScoredVersions :
              /\ routingStep[v] \in ScoreClasses \cup RoutingMethods =>
                    routing[v] # Unscored /\ routing[v].method = "none"
              /\ v \in listed \/ routingStep[v] = "mark" => routing[v] # Unscored
    BY DEF CountersInv
  <2>2. CASE ListPending
    <3>1. /\ UNCHANGED <<samples, routing, routingStep>>
          /\ listed' \subseteq {v \in ScoredVersions : routing[v] # Unscored}
      BY <2>2 DEF ListPending
    <3>2. \A b, m : Counted(b, m)' \subseteq Counted(b, m)
      BY <3>1 DEF Counted
    <3> QED
      BY <2>1, <3>1, <3>2, CountersFrame
  <2>3. CASE RoutingRestart
    <3>1. /\ UNCHANGED <<samples, routing>> /\ listed' = {}
          /\ routingStep' = [v \in ScoredVersions |-> "idle"]
      BY <2>3 DEF RoutingRestart
    <3>2. "idle" \notin ScoreClasses \cup RoutingMethods /\ "idle" \in RoutingSteps /\ "idle" # "mark"
      BY DEF ScoreClasses, RoutingMethods, RoutingSteps
    <3>3. \A b, m : m \in RoutingMethods => Counted(b, m)' \subseteq Counted(b, m)
      BY <3>1, <3>2 DEF Counted
    <3> QED
      BY <2>1, <3>1, <3>2, <3>3, CountersFrame
  <2>4. CASE UNCHANGED routingVars
    <3>1. UNCHANGED <<samples, routing, routingStep, listed>>
      BY <2>4 DEF routingVars
    <3>2. \A b, m : Counted(b, m)' \subseteq Counted(b, m)
      BY <3>1 DEF Counted
    <3> QED
      BY <2>1, <3>1, <3>2, CountersFrame
  <2> QED
    BY <2>2, <2>3, <2>4, CountersSteps DEF RoutingNext
<1> QED
  BY <1>1, <1>2, PTL DEF RoutingSpec

(* Whatever the deployment's policy and rates, and whichever writes fail or *)
(* are cut off by a restart, the counters cover the routings on record.    *)
THEOREM DecisionsAreCounted == RoutingSpec => []RoutingsAreCounted
<1>1. CountersInv => RoutingsAreCounted
  <2> SUFFICES ASSUME CountersInv, NEW b \in Buckets
               PROVE  /\ RoutedAs(b, "auto") <= samples[b].auto
                      /\ RoutedAs(b, "human") <= samples[b].human
                      /\ RoutedAs(b, "external") <= samples[b].taken - samples[b].auto - samples[b].human
                      /\ samples[b].afterAuto > 0 => samples[b].auto > 0
    BY DEF RoutingsAreCounted
  <2>1. ASSUME NEW m
        PROVE  /\ RoutedAs(b, m) <= Cardinality(Counted(b, m)) /\ RoutedAs(b, m) \in Nat
               /\ Cardinality(Counted(b, m)) \in Nat
    <3> DEFINE A == {v \in ScoredVersions : /\ ContentTypeOf[v] = b
                                            /\ routing[v] # Unscored
                                            /\ routing[v].method = m}
    <3>1. A \in SUBSET Counted(b, m) /\ RoutedAs(b, m) = Cardinality(A)
      BY DEF Counted, RoutedAs
    <3> HIDE DEF A
    <3> QED
      BY <3>1, CountedFacts, FS_CardinalityType
  <2>2. /\ Cardinality(Counted(b, "auto")) <= samples[b].auto
        /\ Cardinality(Counted(b, "human")) <= samples[b].human
        /\ Cardinality(Counted(b, "external")) <= samples[b].taken - samples[b].auto - samples[b].human
        /\ samples[b].afterAuto > 0 => samples[b].auto > 0
        /\ samples[b] \in SampleCounters
    BY DEF CountersInv
  <2>3. samples[b].auto \in Nat /\ samples[b].human \in Nat /\ samples[b].taken \in Nat
    BY <2>2 DEF SampleCounters
  <2> QED
    BY <2>1, <2>2, <2>3
<1> QED
  BY <1>1, CountersInductive, PTL

-----------------------------------------------------------------------------
(* The cascade: type correctness, and the documents that lost every scope.   *)

(* What a cascade has still to unlink it has still to look at: the checks   *)
(* begin when the last link is removed.                                    *)
UnlinksBeforeChecks == \A c \in Cascades : cascade[c].toRemove \subseteq cascade[c].toCheck

CascadeInv == CascadeTypeOK /\ UnlinksBeforeChecks /\ OrphansAreArchived

-----------------------------------------------------------------------------
(* The cascade record of a thread that starts, and of one that is idle. *)
LEMMA IdleIsCascade ==
    Idle \in [scope : Scopes \cup {NoScope}, toRemove : SUBSET Documents,
              toCheck : SUBSET Documents, orphan : SUBSET Documents]
  BY DEF Idle

(* Adding a link leaves the links of a right form and the document with a   *)
(* scope; other documents keep theirs.                                     *)
LEMMA AddScopeLinks ==
    ASSUME CascadeTypeOK, NEW d \in Documents, NEW s \in Scopes, AddScope(d, s)
    PROVE  /\ link' \in [Documents -> [Scopes -> LinkStates]]
           /\ ActiveScopes(d)' # {}
           /\ \A e \in Documents : e # d => link'[e] = link[e]
  BY DEF CascadeTypeOK, AddScope, LinkStates, ActiveScopes

(* Removing a link leaves other documents as they were. *)
LEMMA RemoveScopeLinks ==
    ASSUME CascadeTypeOK, NEW d \in Documents, NEW s \in Scopes, RemoveScope(d, s)
    PROVE  /\ link' \in [Documents -> [Scopes -> LinkStates]]
           /\ \A e \in Documents : e # d => link'[e] = link[e]
  BY DEF CascadeTypeOK, RemoveScope, LinkStates

-----------------------------------------------------------------------------
(* Every step keeps the state well formed. *)
LEMMA TypeStep == CascadeTypeOK /\ [CascadeNext]_cascadeVars => CascadeTypeOK'
<1> SUFFICES ASSUME CascadeTypeOK, [CascadeNext]_cascadeVars PROVE CascadeTypeOK'
  OBVIOUS
<1> USE DEF CascadeTypeOK
<1>1. ASSUME NEW d \in Documents, NEW s \in Scopes, UploadStored(d, s) PROVE CascadeTypeOK'
  BY <1>1 DEF UploadStored
<1>2. ASSUME NEW d \in Documents, NEW s \in Scopes, UploadLinked(d, s) PROVE CascadeTypeOK'
  BY <1>2, AddScopeLinks DEF UploadLinked
<1>3. ASSUME NEW d \in Documents, NEW s \in Scopes, RelinkScope(d, s) PROVE CascadeTypeOK'
  BY <1>3, AddScopeLinks DEF RelinkScope
<1>4. ASSUME NEW d \in Documents, Unarchive(d) PROVE CascadeTypeOK'
  BY <1>4 DEF Unarchive
<1>5. ASSUME NEW c \in Cascades, NEW s \in Scopes, CascadeStart(c, s) PROVE CascadeTypeOK'
  BY <1>5, IdleIsCascade DEF CascadeStart, CandidateDocuments, Idle
<1>6. ASSUME NEW c \in Cascades, CascadeRemove(c) PROVE CascadeTypeOK'
  <2>1. PICK d \in cascade[c].toRemove :
           /\ RemoveScope(d, cascade[c].scope)
           /\ cascade' = [cascade EXCEPT ![c].toRemove = @ \ {d}]
    BY <1>6 DEF CascadeRemove
  <2>2. link' \in [Documents -> [Scopes -> LinkStates]]
    BY <2>1 DEF RemoveScope, LinkStates
  <2> QED BY <1>6, <2>1, <2>2 DEF CascadeRemove
<1>7. ASSUME NEW c \in Cascades, CascadeCheck(c) PROVE CascadeTypeOK'
  <2>1. PICK d \in cascade[c].toCheck :
           cascade' = [cascade EXCEPT ![c].toCheck = @ \ {d},
                                      ![c].orphan = IF RemainingScopes(d) = {} THEN {d} ELSE {}]
    BY <1>7 DEF CascadeCheck
  <2>2. PICK o \in SUBSET Documents :
           cascade' = [cascade EXCEPT ![c] = [cascade[c] EXCEPT !.toCheck = @ \ {d}, !.orphan = o]]
    <3>1. (IF RemainingScopes(d) = {} THEN {d} ELSE {}) \in SUBSET Documents
      BY <2>1
    <3> QED BY <2>1, <3>1
  <2>3. [cascade[c] EXCEPT !.toCheck = @ \ {d}, !.orphan = o]
           \in [scope : Scopes \cup {NoScope}, toRemove : SUBSET Documents,
               toCheck : SUBSET Documents, orphan : SUBSET Documents]
    OBVIOUS
  <2> QED BY <1>7, <2>2, <2>3 DEF CascadeCheck
<1>8. ASSUME NEW c \in Cascades, CascadeArchive(c) PROVE CascadeTypeOK'
  BY <1>8 DEF CascadeArchive
<1>9. ASSUME NEW c \in Cascades, CascadeArchiveFails(c) PROVE CascadeTypeOK'
  BY <1>9 DEF CascadeArchiveFails
<1>10. ASSUME NEW c \in Cascades, CascadeEnds(c) PROVE CascadeTypeOK'
  BY <1>10, IdleIsCascade DEF CascadeEnds
<1>11. ASSUME CascadeCrash PROVE CascadeTypeOK'
  BY <1>11, IdleIsCascade DEF CascadeCrash
<1>12. ASSUME UNCHANGED cascadeVars PROVE CascadeTypeOK'
  BY <1>12 DEF cascadeVars
<1> QED BY <1>1, <1>2, <1>3, <1>4, <1>5, <1>6, <1>7, <1>8, <1>9, <1>10, <1>11, <1>12
        DEF CascadeNext

-----------------------------------------------------------------------------
(* A document that has a scope left, or is archived, or will be looked at,  *)
(* is no orphan.                                                           *)
Settled(d) ==
    \/ ActiveScopes(d) # {}
    \/ \A s \in Scopes : link[d][s] # "removed"
    \/ d \in archived \cup excused
    \/ \E c \in Cascades : d \in cascade[c].toCheck \cup cascade[c].orphan

LEMMA SettledIsArchived == OrphansAreArchived <=> \A d \in Documents : Settled(d)
  BY DEF OrphansAreArchived, Settled

(* Every step keeps the checks behind the removals and every document       *)
(* settled.                                                                *)
LEMMA CascadeStep ==
    ASSUME CascadeInv, [CascadeNext]_cascadeVars PROVE UnlinksBeforeChecks' /\ OrphansAreArchived'
<1> SUFFICES UnlinksBeforeChecks' /\ \A d \in Documents : Settled(d)'
  BY DEF OrphansAreArchived, Settled
<1>0. CascadeTypeOK /\ UnlinksBeforeChecks /\ \A d \in Documents : Settled(d)
  BY SettledIsArchived DEF CascadeInv
<1>t. CascadeTypeOK'
  BY <1>0, TypeStep
<1>1. ASSUME NEW d \in Documents, NEW s \in Scopes, UploadStored(d, s)
      PROVE  UnlinksBeforeChecks' /\ \A e \in Documents : Settled(e)'
  BY <1>0, <1>1 DEF UploadStored, UnlinksBeforeChecks, Settled, ActiveScopes
<1>2. ASSUME NEW d \in Documents, NEW s \in Scopes, UploadLinked(d, s)
      PROVE  UnlinksBeforeChecks' /\ \A e \in Documents : Settled(e)'
  <2>1. UnlinksBeforeChecks'
    BY <1>0, <1>2 DEF UploadLinked, UnlinksBeforeChecks
  <2>2. Settled(d)'
    BY <1>0, <1>2, AddScopeLinks DEF UploadLinked, Settled
  <2>3. ASSUME NEW e \in Documents, e # d PROVE Settled(e)'
    <3>1. link'[e] = link[e]
      BY <1>0, <1>2, <2>3, AddScopeLinks DEF UploadLinked
    <3> QED BY <1>0, <1>2, <2>3, <3>1 DEF UploadLinked, Settled, ActiveScopes
  <2> QED BY <2>1, <2>2, <2>3
<1>3. ASSUME NEW d \in Documents, NEW s \in Scopes, RelinkScope(d, s)
      PROVE  UnlinksBeforeChecks' /\ \A e \in Documents : Settled(e)'
  <2>1. UnlinksBeforeChecks'
    BY <1>0, <1>3 DEF RelinkScope, UnlinksBeforeChecks
  <2>2. Settled(d)'
    BY <1>0, <1>3, AddScopeLinks DEF RelinkScope, Settled
  <2>3. ASSUME NEW e \in Documents, e # d PROVE Settled(e)'
    <3>1. link'[e] = link[e]
      BY <1>0, <1>3, <2>3, AddScopeLinks DEF RelinkScope
    <3> QED BY <1>0, <1>3, <2>3, <3>1 DEF RelinkScope, Settled, ActiveScopes
  <2> QED BY <2>1, <2>2, <2>3
<1>4. ASSUME NEW d \in Documents, Unarchive(d)
      PROVE  UnlinksBeforeChecks' /\ \A e \in Documents : Settled(e)'
  BY <1>0, <1>4 DEF Unarchive, UnlinksBeforeChecks, Settled, ActiveScopes
<1>5. ASSUME NEW c \in Cascades, NEW s \in Scopes, CascadeStart(c, s)
      PROVE  UnlinksBeforeChecks' /\ \A e \in Documents : Settled(e)'
  <2>1. \A b \in Cascades : cascade[b].toCheck \subseteq cascade'[b].toCheck /\
                             cascade'[b].orphan = cascade[b].orphan
    <3>1. cascade[c].toCheck = {} /\ cascade[c].orphan = {} /\ cascade'[c].orphan = {}
      BY <1>0, <1>5 DEF CascadeStart, CascadeTypeOK, Idle
    <3>2. \A b \in Cascades : b # c => cascade'[b] = cascade[b]
      BY <1>0, <1>5 DEF CascadeStart, CascadeTypeOK
    <3> QED BY <3>1, <3>2
  <2>2. UnlinksBeforeChecks'
    BY <1>0, <1>5 DEF CascadeStart, CascadeTypeOK, UnlinksBeforeChecks, Idle
  <2> QED BY <1>0, <1>5, <2>1, <2>2 DEF CascadeStart, Settled, ActiveScopes
<1>6. ASSUME NEW c \in Cascades, CascadeRemove(c)
      PROVE  UnlinksBeforeChecks' /\ \A e \in Documents : Settled(e)'
  <2>1. PICK d \in cascade[c].toRemove :
           /\ RemoveScope(d, cascade[c].scope)
           /\ cascade' = [cascade EXCEPT ![c].toRemove = @ \ {d}]
    BY <1>6 DEF CascadeRemove
  <2>2. /\ cascade'[c].toRemove \subseteq cascade[c].toRemove
        /\ \A b \in Cascades : b # c => cascade'[b].toRemove = cascade[b].toRemove
        /\ \A b \in Cascades : /\ cascade'[b].toCheck = cascade[b].toCheck
                                /\ cascade'[b].orphan = cascade[b].orphan
    BY <1>0, <2>1 DEF CascadeTypeOK
  <2>3. UnlinksBeforeChecks'
    BY <1>0, <2>2 DEF UnlinksBeforeChecks
  <2>4. d \in cascade'[c].toCheck
    BY <1>0, <2>1, <2>2 DEF UnlinksBeforeChecks
  <2>5. ASSUME NEW e \in Documents, e # d PROVE Settled(e)'
    <3>1. link'[e] = link[e]
      BY <1>0, <2>1, <2>5 DEF CascadeTypeOK, RemoveScope
    <3> QED BY <1>0, <1>6, <2>2, <3>1 DEF CascadeRemove, Settled, ActiveScopes
  <2> QED BY <2>3, <2>4, <2>5 DEF Settled
<1>7. ASSUME NEW c \in Cascades, CascadeCheck(c)
      PROVE  UnlinksBeforeChecks' /\ \A e \in Documents : Settled(e)'
  <2>1. PICK d \in cascade[c].toCheck :
           cascade' = [cascade EXCEPT ![c].toCheck = @ \ {d},
                                      ![c].orphan = IF RemainingScopes(d) = {} THEN {d} ELSE {}]
    BY <1>7 DEF CascadeCheck
  <2>2. /\ cascade'[c].toRemove = {} /\ cascade[c].orphan = {}
        /\ cascade'[c].toCheck = cascade[c].toCheck \ {d}
        /\ RemainingScopes(d) = {} => cascade'[c].orphan = {d}
        /\ \A b \in Cascades : b # c => cascade'[b] = cascade[b]
    BY <1>0, <1>7, <2>1 DEF CascadeCheck, CascadeTypeOK
  <2>3. UnlinksBeforeChecks'
    BY <1>0, <2>2 DEF UnlinksBeforeChecks
  <2>4. Settled(d)'
    BY <1>0, <1>7, <2>2 DEF CascadeCheck, Settled, RemainingScopes, ActiveScopes
  <2>5. ASSUME NEW e \in Documents, e # d PROVE Settled(e)'
    BY <1>0, <1>7, <2>2, <2>5 DEF CascadeCheck, Settled, ActiveScopes
  <2> QED BY <2>3, <2>4, <2>5
<1>8. ASSUME NEW c \in Cascades, CascadeArchive(c)
      PROVE  UnlinksBeforeChecks' /\ \A e \in Documents : Settled(e)'
  <2>1. /\ \A b \in Cascades : /\ cascade'[b].toCheck = cascade[b].toCheck
                                /\ cascade'[b].toRemove = cascade[b].toRemove
        /\ \A b \in Cascades : b # c => cascade'[b] = cascade[b]
        /\ archived' = archived \cup cascade[c].orphan
    BY <1>0, <1>8 DEF CascadeArchive, CascadeTypeOK
  <2> QED BY <1>0, <1>8, <2>1 DEF CascadeArchive, UnlinksBeforeChecks, Settled, ActiveScopes
<1>9. ASSUME NEW c \in Cascades, CascadeArchiveFails(c)
      PROVE  UnlinksBeforeChecks' /\ \A e \in Documents : Settled(e)'
  <2>1. /\ \A b \in Cascades : /\ cascade'[b].toCheck = cascade[b].toCheck
                                /\ cascade'[b].toRemove = cascade[b].toRemove
        /\ \A b \in Cascades : b # c => cascade'[b] = cascade[b]
        /\ excused' = excused \cup cascade[c].orphan
    BY <1>0, <1>9 DEF CascadeArchiveFails, CascadeTypeOK
  <2> QED BY <1>0, <1>9, <2>1 DEF CascadeArchiveFails, UnlinksBeforeChecks, Settled, ActiveScopes
<1>10. ASSUME NEW c \in Cascades, CascadeEnds(c)
       PROVE  UnlinksBeforeChecks' /\ \A e \in Documents : Settled(e)'
  <2>1. /\ cascade[c].toCheck = {} /\ cascade[c].orphan = {} /\ cascade'[c].toRemove = {}
        /\ \A b \in Cascades : b # c => cascade'[b] = cascade[b]
    BY <1>0, <1>10 DEF CascadeEnds, CascadeTypeOK, Idle
  <2> QED BY <1>0, <1>10, <2>1 DEF CascadeEnds, UnlinksBeforeChecks, Settled, ActiveScopes
<1>11. ASSUME CascadeCrash
       PROVE  UnlinksBeforeChecks' /\ \A e \in Documents : Settled(e)'
  BY <1>0, <1>11 DEF CascadeCrash, UnlinksBeforeChecks, Settled, ActiveScopes, Idle
<1>12. ASSUME UNCHANGED cascadeVars
       PROVE  UnlinksBeforeChecks' /\ \A e \in Documents : Settled(e)'
  BY <1>0, <1>12 DEF cascadeVars, UnlinksBeforeChecks, Settled, ActiveScopes
<1> QED BY <1>1, <1>2, <1>3, <1>4, <1>5, <1>6, <1>7, <1>8, <1>9, <1>10, <1>11, <1>12
        DEF CascadeNext

-----------------------------------------------------------------------------
LEMMA CascadeInitial == CascadeInit => CascadeInv
<1> SUFFICES ASSUME CascadeInit PROVE CascadeInv
  OBVIOUS
<1>1. CascadeTypeOK
  BY IdleIsCascade DEF CascadeInit, CascadeTypeOK, LinkStates
<1>2. UnlinksBeforeChecks
  BY DEF CascadeInit, UnlinksBeforeChecks, Idle
<1>3. OrphansAreArchived
  BY DEF CascadeInit, OrphansAreArchived
<1> QED BY <1>1, <1>2, <1>3 DEF CascadeInv

LEMMA CascadeInductive == CascadeSpec => []CascadeInv
<1>1. CascadeInv /\ [CascadeNext]_cascadeVars => CascadeInv'
  BY TypeStep, CascadeStep DEF CascadeInv
<1> QED BY <1>1, CascadeInitial, PTL DEF CascadeSpec

(* Links, cascades and archiving stay well formed. *)
THEOREM CascadeIsTyped == CascadeSpec => []CascadeTypeOK
  BY CascadeInductive, PTL DEF CascadeInv

(* However cascades overlap, fail or are cut off, and whatever is linked    *)
(* again meanwhile, a document without a scope is archived, has yet to be   *)
(* looked at, or is one of those excused.                                  *)
THEOREM OrphansAreAlwaysArchived == CascadeSpec => []OrphansAreArchived
  BY CascadeInductive, PTL DEF CascadeInv

-----------------------------------------------------------------------------
(* The versions of a taxonomy: the inductive invariant.                     *)

(* What one write may make of a version. *)
Legal(old, new) ==
    /\ old.state = new.state \/ <<old.state, new.state>> \in VersionMoves
    /\ old.tree # new.tree => old.state = "DRAFT" /\ new.state = "DRAFT"
    /\ \A c \in Concepts :
          \/ new.concepts[c] \in {old.concepts[c], "absent"}
          \/ <<old.concepts[c], new.concepts[c]>> \in ConceptMoves \cup {<<"absent", "NEW">>}

IsCandidate(version) == version # NoVersion /\ version.state = "CANDIDATE_V0"

(* Only a validation has more to do than to save its copy, and what it is   *)
(* about to archive is there.                                              *)
RequestInv ==
    \A a \in Administrators : editing[a] # NoRequest =>
       /\ editing[a].step # "save" => editing[a].copy.state = "VALIDATED_V1"
       /\ editing[a].step \in {"archive", "archived"} => editing[a].previous \in Known

(* The copy a request made is still a legal successor of what it copied,    *)
(* and what it has checked still stands.                                   *)
CopyInv ==
    \A a \in Administrators : editing[a] # NoRequest =>
       /\ \/ taxonomy[editing[a].number] = NoVersion
          \/ Legal(taxonomy[editing[a].number], editing[a].copy)
       /\ editing[a].copy.state = "VALIDATED_V1" => IsCandidate(taxonomy[editing[a].number])
       /\ editing[a].step = "archived" =>
             <<taxonomy[editing[a].previous].state, "ARCHIVED">> \in VersionMoves

(* At most one version is validated, none when a validation saves its own.  *)
ValidInv ==
    /\ \A m, n \in Validated : m = n
    /\ \A a \in Administrators : Validating(editing[a]) =>
          /\ editing[a].step = "save" => Validated = {}
          /\ editing[a].step \in {"archive", "archived"} => Validated \subseteq {editing[a].previous}

TaxonomyInv ==
    /\ TaxonomyTypeOK
    /\ RequestInv
    /\ ~clashed => CopyInv /\ ValidInv

(* Requests stand in each other's way. *)
Meeting ==
    \E a, b \in Administrators : a # b /\
       \/ Holds(editing[a]) \cap Holds(editing[b]) # {}
       \/ Validating(editing[a]) /\ Validating(editing[b])

(* A request begins, by copying a version or making a new one. *)
Begins(a) ==
    \E n \in VersionNumbers, copy \in TaxonomyVersions, step \in {"save", "previous"} :
       /\ EditBegin(a, step, n, copy)
       /\ UNCHANGED taxonomy
       /\ (step = "previous") = (copy.state = "VALIDATED_V1")
       /\ step = "previous" => IsCandidate(taxonomy[n])
       /\ taxonomy[n] = NoVersion \/ Legal(taxonomy[n], copy)

-----------------------------------------------------------------------------
(* What the ways of beginning a request have in common. *)

LEMMA DraftBegins ==
    ASSUME TaxonomyTypeOK, NEW a \in Administrators, StartDraft(a) PROVE Begins(a)
<1>1. PICK n \in VersionNumbers, source \in Known \cup {0} :
         /\ \A k \in Known : k < n
         /\ EditBegin(a, "save", n,
               [state |-> "DRAFT", concepts |-> NoConcepts,
                tree |-> IF source = 0 THEN {} ELSE taxonomy[source].tree])
         /\ UNCHANGED taxonomy
  BY DEF StartDraft
<1> DEFINE tree == IF source = 0 THEN {} ELSE taxonomy[source].tree
<1>2. tree \in SUBSET Concepts
  BY <1>1 DEF TaxonomyTypeOK, Known, TaxonomyVersions
<1>3. [state |-> "DRAFT", concepts |-> NoConcepts, tree |-> tree] \in TaxonomyVersions
  BY <1>2 DEF TaxonomyVersions, TaxonomyStates, NoConcepts
<1>4. taxonomy[n] = NoVersion
  BY <1>1, TaxonomyAssumption DEF Known, VersionNumbers
<1> HIDE DEF tree
<1> QED BY <1>1, <1>3, <1>4 DEF Begins, tree

LEMMA MoveBegins ==
    ASSUME TaxonomyTypeOK, NEW a \in Administrators, NEW n \in VersionNumbers,
           NEW to \in TaxonomyStates, StartMove(a, n, to)
    PROVE  Begins(a)
<1> DEFINE copy == [taxonomy[n] EXCEPT !.state = to, !.concepts = NoConcepts]
<1>1. taxonomy[n] \in TaxonomyVersions
  BY DEF TaxonomyTypeOK, StartMove
<1>2. copy \in TaxonomyVersions /\ copy.state = to
  BY <1>1 DEF TaxonomyVersions, NoConcepts
<1>3. Legal(taxonomy[n], copy)
  BY <1>1 DEF StartMove, Legal, TaxonomyVersions, NoConcepts
<1>4. EditBegin(a, "save", n, copy) /\ UNCHANGED taxonomy /\ to # "VALIDATED_V1"
  BY DEF StartMove
<1> HIDE DEF copy
<1> QED BY <1>2, <1>3, <1>4 DEF Begins

LEMMA ValidateBegins ==
    ASSUME TaxonomyTypeOK, NEW a \in Administrators, NEW n \in VersionNumbers, StartValidate(a, n)
    PROVE  Begins(a)
<1> DEFINE copy == [taxonomy[n] EXCEPT !.state = "VALIDATED_V1"]
<1>1. taxonomy[n] \in TaxonomyVersions
  BY DEF TaxonomyTypeOK, StartValidate
<1>2. copy \in TaxonomyVersions /\ copy.state = "VALIDATED_V1"
  BY <1>1 DEF TaxonomyVersions, TaxonomyStates
<1>3. Legal(taxonomy[n], copy)
  BY <1>1 DEF StartValidate, Legal, TaxonomyVersions
<1>4. EditBegin(a, "previous", n, copy) /\ UNCHANGED taxonomy /\ IsCandidate(taxonomy[n])
  BY DEF StartValidate, VersionMoves, IsCandidate
<1> HIDE DEF copy
<1> QED BY <1>2, <1>3, <1>4 DEF Begins

(* add_suggestions and transition_concept change one concept of a draft. *)
LEMMA ConceptBegins ==
    ASSUME TaxonomyTypeOK, NEW a \in Administrators, NEW n \in VersionNumbers, NEW c \in Concepts,
           NEW to \in ConceptStates,
           taxonomy[n] # NoVersion, taxonomy[n].state = "DRAFT",
           <<taxonomy[n].concepts[c], to>> \in ConceptMoves \cup {<<"absent", "NEW">>},
           EditBegin(a, "save", n, [taxonomy[n] EXCEPT !.concepts[c] = to]),
           UNCHANGED taxonomy
    PROVE  Begins(a)
<1> DEFINE copy == [taxonomy[n] EXCEPT !.concepts[c] = to]
<1>1. taxonomy[n] \in TaxonomyVersions
  BY DEF TaxonomyTypeOK
<1>2. /\ copy \in TaxonomyVersions /\ copy.state = "DRAFT" /\ copy.tree = taxonomy[n].tree
      /\ \A k \in Concepts : copy.concepts[k] = IF k = c THEN to ELSE taxonomy[n].concepts[k]
  BY <1>1 DEF TaxonomyVersions
<1> HIDE DEF copy
<1>3. Legal(taxonomy[n], copy)
  BY <1>2 DEF Legal
<1> QED BY <1>2, <1>3 DEF Begins, copy

LEMMA SynthesizeBegins ==
    ASSUME TaxonomyTypeOK, NEW a \in Administrators, NEW n \in VersionNumbers, StartSynthesize(a, n)
    PROVE  Begins(a)
<1>1. PICK tree \in {FeedsTree(taxonomy[n]), {}} :
         EditBegin(a, "save", n, [taxonomy[n] EXCEPT !.tree = tree])
  BY DEF StartSynthesize
<1> DEFINE copy == [taxonomy[n] EXCEPT !.tree = tree]
<1>2. taxonomy[n] \in TaxonomyVersions /\ taxonomy[n].state = "DRAFT"
  BY DEF TaxonomyTypeOK, StartSynthesize
<1>3. tree \in SUBSET Concepts
  BY <1>1 DEF FeedsTree
<1>4. copy \in TaxonomyVersions /\ copy.state = "DRAFT" /\ copy.concepts = taxonomy[n].concepts
  BY <1>2, <1>3 DEF TaxonomyVersions
<1>5. EditBegin(a, "save", n, copy) /\ UNCHANGED taxonomy
  BY <1>1 DEF StartSynthesize
<1> HIDE DEF copy
<1>6. Legal(taxonomy[n], copy)
  BY <1>2, <1>4 DEF Legal
<1> QED BY <1>4, <1>5, <1>6 DEF Begins

-----------------------------------------------------------------------------
(* Every step keeps the invariant.                                         *)

LEMMA IdleRequest ==
    /\ NoRequest \in Requests
    /\ NoRequest.step = "idle"
    /\ Holds(NoRequest) = {}
  BY DEF NoRequest, Requests, Holds

LEMMA BeginKeepsInv ==
    ASSUME TaxonomyInv, NEW a \in Administrators, Begins(a), NoteClash PROVE TaxonomyInv'
<1>1. PICK n \in VersionNumbers, copy \in TaxonomyVersions, step \in {"save", "previous"} :
         /\ EditBegin(a, step, n, copy)
         /\ UNCHANGED taxonomy
         /\ (step = "previous") = (copy.state = "VALIDATED_V1")
         /\ step = "previous" => IsCandidate(taxonomy[n])
         /\ taxonomy[n] = NoVersion \/ Legal(taxonomy[n], copy)
  BY DEF Begins
<1> DEFINE r == [step |-> step, number |-> n, copy |-> copy, previous |-> 0]
<1>2. /\ r \in Requests /\ r.step = step /\ r.number = n /\ r.copy = copy
  BY <1>1 DEF Requests
<1>3. editing' = [editing EXCEPT ![a] = r]
  BY <1>1 DEF EditBegin
<1> HIDE DEF r
<1>4. editing'[a] = r /\ \A b \in Administrators : b # a => editing'[b] = editing[b]
  BY <1>3 DEF TaxonomyInv, TaxonomyTypeOK
<1>5. clashed' \in BOOLEAN /\ (clashed => clashed')
  BY DEF NoteClash, TaxonomyInv, TaxonomyTypeOK
<1>6. TaxonomyTypeOK'
  BY <1>1, <1>2, <1>3, <1>4, <1>5 DEF TaxonomyInv, TaxonomyTypeOK
<1>7. Known' = Known /\ Validated' = Validated
  BY <1>1 DEF Known, Validated
<1>8. RequestInv'
  BY <1>1, <1>2, <1>4, <1>7 DEF TaxonomyInv, RequestInv
<1>9. ASSUME ~clashed' PROVE CopyInv'
  <2>1. CopyInv
    BY <1>5, <1>9 DEF TaxonomyInv
  <2>2. ASSUME NEW b \in Administrators, editing'[b] # NoRequest
        PROVE  /\ \/ taxonomy'[editing'[b].number] = NoVersion
                  \/ Legal(taxonomy'[editing'[b].number], editing'[b].copy)
               /\ editing'[b].copy.state = "VALIDATED_V1" =>
                     IsCandidate(taxonomy'[editing'[b].number])
               /\ editing'[b].step = "archived" =>
                     <<taxonomy'[editing'[b].previous].state, "ARCHIVED">> \in VersionMoves
    <3>1. CASE b = a
      BY <1>1, <1>2, <1>4, <3>1
    <3>2. CASE b # a
      BY <1>1, <1>4, <2>1, <2>2, <3>2 DEF CopyInv
    <3> QED BY <3>1, <3>2
  <2> QED BY <2>2 DEF CopyInv, Legal, IsCandidate
<1>10. ASSUME ~clashed' PROVE ValidInv'
  <2>1. ValidInv
    BY <1>5, <1>10 DEF TaxonomyInv
  <2> QED BY <1>1, <1>2, <1>4, <1>7, <2>1 DEF ValidInv, Validating
<1> QED BY <1>6, <1>8, <1>9, <1>10 DEF TaxonomyInv

LEMMA FindKeepsInv ==
    ASSUME TaxonomyInv, NEW a \in Administrators, FindPrevious(a), NoteClash PROVE TaxonomyInv'
<1> DEFINE q == editing[a]
<1>1. q \in Requests /\ q.step = "previous" /\ q # NoRequest /\ q.copy.state = "VALIDATED_V1"
  BY IdleRequest DEF FindPrevious, TaxonomyInv, TaxonomyTypeOK, RequestInv
<1>2. UNCHANGED taxonomy /\ Known' = Known /\ Validated' = Validated
  BY DEF FindPrevious, Known, Validated
<1>3. clashed' \in BOOLEAN /\ (clashed => clashed')
  BY DEF NoteClash, TaxonomyInv, TaxonomyTypeOK
<1>4. PICK r \in Requests :
         /\ editing' = [editing EXCEPT ![a] = r]
         /\ r.number = q.number /\ r.copy = q.copy
         /\ \/ r.step = "save" /\ Validated = {}
            \/ r.step = "archive" /\ r.previous \in Validated
  <2>1. CASE Validated = {} /\ editing' = [editing EXCEPT ![a].step = "save"]
    <3>1. [q EXCEPT !.step = "save"] \in Requests
      BY <1>1 DEF Requests
    <3> QED BY <1>1, <2>1, <3>1 DEF Requests
  <2>2. ASSUME NEW k \in Validated,
               editing' = [editing EXCEPT ![a].step = "archive", ![a].previous = k]
        PROVE  \E r \in Requests :
                  /\ editing' = [editing EXCEPT ![a] = r]
                  /\ r.number = q.number /\ r.copy = q.copy
                  /\ r.step = "archive" /\ r.previous \in Validated
    <3>1. [q EXCEPT !.step = "archive", !.previous = k] \in Requests
      BY <1>1, <2>2 DEF Requests, Validated, Known
    <3> QED BY <1>1, <2>2, <3>1 DEF Requests
  <2> QED BY <2>1, <2>2 DEF FindPrevious
<1>5. editing'[a] = r /\ \A b \in Administrators : b # a => editing'[b] = editing[b]
  BY <1>4 DEF TaxonomyInv, TaxonomyTypeOK
<1> HIDE DEF q
<1>6. TaxonomyTypeOK'
  <2>1. q.number \in VersionNumbers /\ q.copy \in TaxonomyVersions
    BY <1>1 DEF q, TaxonomyInv, TaxonomyTypeOK
  <2> QED BY <1>2, <1>3, <1>4, <1>5, <2>1 DEF TaxonomyInv, TaxonomyTypeOK
<1>7. RequestInv'
  BY <1>1, <1>2, <1>4, <1>5 DEF TaxonomyInv, RequestInv, Validated
<1>8. ASSUME ~clashed' PROVE CopyInv'
  <2>1. CopyInv
    BY <1>3, <1>8 DEF TaxonomyInv
  <2>2. ASSUME NEW b \in Administrators, editing'[b] # NoRequest
        PROVE  /\ \/ taxonomy'[editing'[b].number] = NoVersion
                  \/ Legal(taxonomy'[editing'[b].number], editing'[b].copy)
               /\ editing'[b].copy.state = "VALIDATED_V1" =>
                     IsCandidate(taxonomy'[editing'[b].number])
               /\ editing'[b].step = "archived" =>
                     <<taxonomy'[editing'[b].previous].state, "ARCHIVED">> \in VersionMoves
    <3>1. CASE b = a
      BY <1>1, <1>2, <1>4, <1>5, <2>1, <3>1 DEF q, CopyInv
    <3>2. CASE b # a
      BY <1>2, <1>5, <2>1, <2>2, <3>2 DEF CopyInv
    <3> QED BY <3>1, <3>2
  <2> QED BY <2>2 DEF CopyInv, Legal, IsCandidate
<1>9. ASSUME ~clashed' PROVE ValidInv'
  <2>1. ValidInv
    BY <1>3, <1>9 DEF TaxonomyInv
  <2> QED BY <1>1, <1>2, <1>4, <1>5, <2>1 DEF ValidInv, Validating
<1> QED BY <1>6, <1>7, <1>8, <1>9 DEF TaxonomyInv

(* Under ~clashed' nobody is in anybody's way. *)
LEMMA NobodyMeets ==
    ASSUME TaxonomyTypeOK, NoteClash, ~clashed',
           NEW a \in Administrators, NEW b \in Administrators, a # b
    PROVE  /\ ~clashed
           /\ Holds(editing[a]) \cap Holds(editing[b]) = {}
           /\ ~(Validating(editing[a]) /\ Validating(editing[b]))
  BY DEF NoteClash, TaxonomyTypeOK

LEMMA CheckKeepsInv ==
    ASSUME TaxonomyInv, NEW a \in Administrators, CheckPrevious(a), NoteClash PROVE TaxonomyInv'
<1> DEFINE q == editing[a]
<1>1. q \in Requests /\ q.step = "archive" /\ q # NoRequest /\ q.copy.state = "VALIDATED_V1"
  BY IdleRequest DEF CheckPrevious, TaxonomyInv, TaxonomyTypeOK, RequestInv
<1>2. UNCHANGED taxonomy /\ Known' = Known /\ Validated' = Validated
  BY DEF CheckPrevious, Known, Validated
<1>3. clashed' \in BOOLEAN /\ (clashed => clashed')
  BY DEF NoteClash, TaxonomyInv, TaxonomyTypeOK
<1>4. PICK r \in Requests :
         /\ editing' = [editing EXCEPT ![a] = r]
         /\ \/ r = NoRequest
            \/ /\ r.number = q.number /\ r.copy = q.copy /\ r.previous = q.previous
               /\ r.step = "archived"
               /\ <<taxonomy[q.previous].state, "ARCHIVED">> \in VersionMoves
  <2>1. CASE editing' = [editing EXCEPT ![a] = NoRequest]
    BY <2>1, IdleRequest
  <2>2. CASE /\ editing' = [editing EXCEPT ![a].step = "archived"]
             /\ <<taxonomy[q.previous].state, "ARCHIVED">> \in VersionMoves
    <3>1. [q EXCEPT !.step = "archived"] \in Requests
      BY <1>1 DEF Requests
    <3> QED BY <1>1, <2>2, <3>1 DEF Requests
  <2> QED BY <2>1, <2>2 DEF CheckPrevious, EditEnd
<1>5. editing'[a] = r /\ \A b \in Administrators : b # a => editing'[b] = editing[b]
  BY <1>4 DEF TaxonomyInv, TaxonomyTypeOK
<1>6. q.number \in VersionNumbers /\ q.copy \in TaxonomyVersions /\ q.previous \in Known
  BY <1>1 DEF TaxonomyInv, TaxonomyTypeOK, RequestInv
<1> HIDE DEF q
<1>7. TaxonomyTypeOK'
  BY <1>2, <1>3, <1>4, <1>5, <1>6 DEF TaxonomyInv, TaxonomyTypeOK
<1>8. RequestInv'
  BY <1>1, <1>2, <1>4, <1>5, <1>6 DEF TaxonomyInv, RequestInv
<1>9. ASSUME ~clashed' PROVE CopyInv'
  <2>1. CopyInv
    BY <1>3, <1>9 DEF TaxonomyInv
  <2>2. ASSUME NEW b \in Administrators, editing'[b] # NoRequest
        PROVE  /\ \/ taxonomy'[editing'[b].number] = NoVersion
                  \/ Legal(taxonomy'[editing'[b].number], editing'[b].copy)
               /\ editing'[b].copy.state = "VALIDATED_V1" =>
                     IsCandidate(taxonomy'[editing'[b].number])
               /\ editing'[b].step = "archived" =>
                     <<taxonomy'[editing'[b].previous].state, "ARCHIVED">> \in VersionMoves
    <3>1. CASE b = a
      BY <1>1, <1>2, <1>4, <1>5, <2>1, <2>2, <3>1 DEF q, CopyInv
    <3>2. CASE b # a
      BY <1>2, <1>5, <2>1, <2>2, <3>2 DEF CopyInv
    <3> QED BY <3>1, <3>2
  <2> QED BY <2>2 DEF CopyInv, Legal, IsCandidate
<1>10. ASSUME ~clashed' PROVE ValidInv'
  <2>1. ValidInv
    BY <1>3, <1>10 DEF TaxonomyInv
  <2>2. Validating(q) /\ Validated \subseteq {q.previous}
    BY <1>1, <2>1 DEF ValidInv, Validating, q
  <2> QED BY <1>1, <1>2, <1>4, <1>5, <2>1, <2>2 DEF ValidInv, Validating
<1> QED BY <1>7, <1>8, <1>9, <1>10 DEF TaxonomyInv

LEMMA ArchiveKeepsInv ==
    ASSUME TaxonomyInv, NEW a \in Administrators, ArchivePrevious(a), NoteClash PROVE TaxonomyInv'
<1> DEFINE q == editing[a]
           p == q.previous
           gone == [taxonomy[p] EXCEPT !.state = "ARCHIVED"]
<1>1. q \in Requests /\ q.step = "archived" /\ q # NoRequest /\ q.copy.state = "VALIDATED_V1"
  BY IdleRequest DEF ArchivePrevious, TaxonomyInv, TaxonomyTypeOK, RequestInv
<1>2. /\ q.number \in VersionNumbers /\ q.copy \in TaxonomyVersions
      /\ p \in VersionNumbers /\ taxonomy[p] \in TaxonomyVersions /\ taxonomy[p] # NoVersion
  BY <1>1 DEF TaxonomyInv, TaxonomyTypeOK, RequestInv, Known
<1>3. clashed' \in BOOLEAN /\ (clashed => clashed')
  BY DEF NoteClash, TaxonomyInv, TaxonomyTypeOK
<1>4. gone \in TaxonomyVersions /\ gone.state = "ARCHIVED"
  BY <1>2 DEF TaxonomyVersions, TaxonomyStates
<1>5. taxonomy' = [taxonomy EXCEPT ![p] = gone]
  BY DEF ArchivePrevious
<1>6. PICK r \in Requests :
         /\ editing' = [editing EXCEPT ![a] = r]
         /\ r.number = q.number /\ r.copy = q.copy /\ r.step = "save"
  <2>1. [q EXCEPT !.step = "save"] \in Requests
    BY <1>1 DEF Requests
  <2> QED BY <1>1, <2>1 DEF ArchivePrevious, Requests
<1>7. editing'[a] = r /\ \A b \in Administrators : b # a => editing'[b] = editing[b]
  BY <1>6 DEF TaxonomyInv, TaxonomyTypeOK
<1> HIDE DEF gone
<1>8. taxonomy'[p] = gone /\ \A n \in VersionNumbers : n # p => taxonomy'[n] = taxonomy[n]
  BY <1>2, <1>5 DEF TaxonomyInv, TaxonomyTypeOK
<1>9. TaxonomyTypeOK'
  BY <1>2, <1>3, <1>4, <1>5, <1>6, <1>7 DEF TaxonomyInv, TaxonomyTypeOK
<1>10. gone # NoVersion
  BY <1>4, TaxonomyAssumption
<1>11. Known' = Known /\ Validated' = Validated \ {p}
  BY <1>2, <1>4, <1>8, <1>10 DEF Known, Validated
<1>12. RequestInv'
  BY <1>1, <1>6, <1>7, <1>11 DEF TaxonomyInv, RequestInv
<1>13. ASSUME ~clashed' PROVE CopyInv'
  <2>1. CopyInv
    BY <1>3, <1>13 DEF TaxonomyInv
  <2>2. q.number # p
    BY <1>1, <1>2, <2>1 DEF CopyInv, IsCandidate, VersionMoves
  <2>3. ASSUME NEW b \in Administrators, editing'[b] # NoRequest
        PROVE  /\ \/ taxonomy'[editing'[b].number] = NoVersion
                  \/ Legal(taxonomy'[editing'[b].number], editing'[b].copy)
               /\ editing'[b].copy.state = "VALIDATED_V1" =>
                     IsCandidate(taxonomy'[editing'[b].number])
               /\ editing'[b].step = "archived" =>
                     <<taxonomy'[editing'[b].previous].state, "ARCHIVED">> \in VersionMoves
    <3>1. CASE b = a
      <4>1. /\ taxonomy[q.number] = NoVersion \/ Legal(taxonomy[q.number], q.copy)
            /\ IsCandidate(taxonomy[q.number])
        BY <1>1, <2>1 DEF CopyInv
      <4>2. taxonomy'[q.number] = taxonomy[q.number]
        BY <1>2, <1>8, <2>2
      <4>3. /\ editing'[b].number = q.number /\ editing'[b].copy = q.copy
            /\ editing'[b].step = "save"
        BY <1>6, <1>7, <3>1
      <4> QED BY <4>1, <4>2, <4>3
    <3>2. CASE b # a
      <4>1. Holds(editing[a]) \cap Holds(editing[b]) = {}
        BY <1>13, <3>2, NobodyMeets DEF TaxonomyInv
      <4>2. editing[b].number \in VersionNumbers /\ editing[b].number # p
        BY <1>2, <1>7, <2>3, <3>2, <4>1, TaxonomyAssumption
           DEF Holds, TaxonomyInv, TaxonomyTypeOK, VersionNumbers
      <4>3. editing[b].step = "archived" =>
               editing[b].previous \in VersionNumbers /\ editing[b].previous # p
        BY <1>2, <1>7, <2>3, <3>2, <4>1, TaxonomyAssumption
           DEF Holds, TaxonomyInv, RequestInv, VersionNumbers, Known
      <4> QED BY <1>7, <1>8, <2>1, <2>3, <3>2, <4>2, <4>3 DEF CopyInv
    <3> QED BY <3>1, <3>2
  <2> QED BY <2>3 DEF CopyInv, Legal, IsCandidate
<1>14. ASSUME ~clashed' PROVE ValidInv'
  <2>1. ValidInv
    BY <1>3, <1>14 DEF TaxonomyInv
  <2>2. Validated \subseteq {p}
    BY <1>1, <2>1 DEF ValidInv, Validating
  <2> QED BY <1>11, <2>2 DEF ValidInv
<1> QED BY <1>9, <1>12, <1>13, <1>14 DEF TaxonomyInv

LEMMA SaveKeepsInv ==
    ASSUME TaxonomyInv, NEW a \in Administrators, SaveVersion(a), NoteClash PROVE TaxonomyInv'
<1> DEFINE q == editing[a]
           n == q.number
<1>1. q \in Requests /\ q.step = "save" /\ q # NoRequest
  BY IdleRequest DEF SaveVersion, TaxonomyInv, TaxonomyTypeOK
<1>2. n \in VersionNumbers /\ q.copy \in TaxonomyVersions /\ q.copy # NoVersion
  BY <1>1, TaxonomyAssumption DEF TaxonomyInv, TaxonomyTypeOK
<1>3. clashed' \in BOOLEAN /\ (clashed => clashed')
  BY DEF NoteClash, TaxonomyInv, TaxonomyTypeOK
<1>4. editing'[a] = NoRequest /\ \A b \in Administrators : b # a => editing'[b] = editing[b]
  BY DEF SaveVersion, EditEnd, TaxonomyInv, TaxonomyTypeOK
<1>5. taxonomy'[n] = q.copy /\ \A k \in VersionNumbers : k # n => taxonomy'[k] = taxonomy[k]
  BY <1>2 DEF SaveVersion, TaxonomyInv, TaxonomyTypeOK
<1>6. TaxonomyTypeOK'
  BY <1>2, <1>3, <1>4, IdleRequest DEF SaveVersion, EditEnd, TaxonomyInv, TaxonomyTypeOK
<1>7. Known' = Known \cup {n}
  BY <1>2, <1>5 DEF Known
<1>8. Validated' = (Validated \ {n}) \cup {k \in {n} : q.copy.state = "VALIDATED_V1"}
  BY <1>2, <1>5, <1>7 DEF Validated, Known
<1>9. RequestInv'
  BY <1>4, <1>7 DEF TaxonomyInv, RequestInv
<1>10. ASSUME ~clashed' PROVE CopyInv'
  <2>1. CopyInv
    BY <1>3, <1>10 DEF TaxonomyInv
  <2>2. ASSUME NEW b \in Administrators, editing'[b] # NoRequest
        PROVE  /\ \/ taxonomy'[editing'[b].number] = NoVersion
                  \/ Legal(taxonomy'[editing'[b].number], editing'[b].copy)
               /\ editing'[b].copy.state = "VALIDATED_V1" =>
                     IsCandidate(taxonomy'[editing'[b].number])
               /\ editing'[b].step = "archived" =>
                     <<taxonomy'[editing'[b].previous].state, "ARCHIVED">> \in VersionMoves
    <3>1. b # a /\ editing'[b] = editing[b]
      BY <1>4, <2>2
    <3>2. Holds(editing[a]) \cap Holds(editing[b]) = {}
      BY <1>10, <3>1, NobodyMeets DEF TaxonomyInv
    <3>3. editing[b].number \in VersionNumbers /\ editing[b].number # n
      <4>1. 0 \notin VersionNumbers
        BY TaxonomyAssumption DEF VersionNumbers
      <4>2. editing[b].number \in VersionNumbers
        BY <2>2, <3>1 DEF TaxonomyInv, TaxonomyTypeOK
      <4>3. n \in Holds(editing[a]) /\ editing[b].number \in Holds(editing[b])
        BY <1>2, <4>1, <4>2 DEF Holds
      <4> QED BY <3>2, <4>2, <4>3
    <3>4. editing[b].step = "archived" =>
             editing[b].previous \in VersionNumbers /\ editing[b].previous # n
      BY <1>2, <2>2, <3>1, <3>2, TaxonomyAssumption
         DEF Holds, TaxonomyInv, RequestInv, VersionNumbers, Known
    <3>5. taxonomy'[editing[b].number] = taxonomy[editing[b].number]
      BY <1>5, <3>3
    <3>6. editing[b].step = "archived" =>
             taxonomy'[editing[b].previous] = taxonomy[editing[b].previous]
      BY <1>5, <3>4
    <3>7. editing[b] # NoRequest
      BY <2>2, <3>1
    <3> HIDE DEF q
    <3> QED BY <2>1, <3>1, <3>5, <3>6, <3>7 DEF CopyInv
  <2> QED BY <2>2 DEF CopyInv, Legal, IsCandidate
<1>11. ASSUME ~clashed' PROVE ValidInv'
  <2>1. ValidInv
    BY <1>3, <1>11 DEF TaxonomyInv
  <2>2. CASE q.copy.state = "VALIDATED_V1"
    <3>1. Validating(q) /\ Validated = {} /\ Validated' = {n}
      BY <1>1, <1>8, <2>1, <2>2 DEF ValidInv, Validating
    <3>2. ASSUME NEW b \in Administrators PROVE ~Validating(editing'[b])
      <4>1. CASE b = a
        BY <1>4, <4>1 DEF Validating
      <4>2. CASE b # a
        BY <1>4, <1>11, <3>1, <4>2, NobodyMeets DEF TaxonomyInv
      <4> QED BY <4>1, <4>2
    <3> QED BY <3>1, <3>2 DEF ValidInv, Validating
  <2>3. CASE q.copy.state # "VALIDATED_V1"
    <3>1. Validated' \subseteq Validated
      BY <1>8, <2>3
    <3>2. \A b \in Administrators : Validating(editing'[b]) => editing'[b] = editing[b]
      BY <1>4 DEF Validating
    <3> QED BY <2>1, <3>1, <3>2 DEF ValidInv, Validating
  <2> QED BY <2>2, <2>3
<1> QED BY <1>6, <1>9, <1>10, <1>11 DEF TaxonomyInv

LEMMA RestartKeepsInv ==
    ASSUME TaxonomyInv, TaxonomyRestart PROVE TaxonomyInv'
<1>1. TaxonomyTypeOK'
  BY IdleRequest DEF TaxonomyRestart, TaxonomyTypeOK
<1>2. \A a \in Administrators : editing'[a] = NoRequest
  BY DEF TaxonomyRestart
<1>3. Validated' = {}
  BY DEF TaxonomyRestart, Validated, Known
<1> QED BY <1>1, <1>2, <1>3 DEF TaxonomyInv, RequestInv, CopyInv, ValidInv, Validating

(* A step of one administrator's request, in the terms of the lemmas above. *)
LEMMA NextCases ==
    ASSUME TaxonomyInv, TaxonomyNext
    PROVE  \/ \E a \in Administrators :
                 /\ NoteClash
                 /\ \/ Begins(a) \/ FindPrevious(a) \/ CheckPrevious(a)
                    \/ ArchivePrevious(a) \/ SaveVersion(a)
           \/ TaxonomyRestart
<1>1. TaxonomyTypeOK
  BY DEF TaxonomyInv
<1>2. ASSUME NEW a \in Administrators, NEW n \in VersionNumbers, NEW c \in Concepts,
             StartSuggest(a, n, c)
      PROVE  Begins(a)
  <2>1. "NEW" \in ConceptStates
    BY DEF ConceptStates
  <2> QED BY <1>1, <1>2, <2>1, ConceptBegins DEF StartSuggest
<1>3. ASSUME NEW a \in Administrators, NEW n \in VersionNumbers, NEW c \in Concepts,
             NEW to \in ConceptStates, StartConcept(a, n, c, to)
      PROVE  Begins(a)
  BY <1>1, <1>3, ConceptBegins DEF StartConcept
<1> QED BY <1>1, <1>2, <1>3, DraftBegins, MoveBegins, ValidateBegins, SynthesizeBegins
        DEF TaxonomyNext

LEMMA TaxonomyInvInductive ==
    ASSUME TaxonomyInv, [TaxonomyNext]_taxonomyVars PROVE TaxonomyInv'
<1>1. CASE TaxonomyNext
  BY <1>1, NextCases, BeginKeepsInv, FindKeepsInv, CheckKeepsInv, ArchiveKeepsInv,
     SaveKeepsInv, RestartKeepsInv
<1>2. CASE UNCHANGED taxonomyVars
  <2>1. taxonomy' = taxonomy /\ editing' = editing /\ clashed' = clashed
    BY <1>2 DEF taxonomyVars
  <2>2. TaxonomyTypeOK' /\ RequestInv' /\ Validated' = Validated
    BY <2>1 DEF TaxonomyInv, TaxonomyTypeOK, RequestInv, Known, Validated
  <2>3. CopyInv => CopyInv'
    BY <2>1 DEF CopyInv, Legal, IsCandidate
  <2>4. ValidInv => ValidInv'
    BY <2>1, <2>2 DEF ValidInv, Validating
  <2> QED BY <2>1, <2>2, <2>3, <2>4 DEF TaxonomyInv
<1> QED BY <1>1, <1>2

LEMMA TaxonomyInvHolds == TaxonomySpec => []TaxonomyInv
<1>1. TaxonomyInit => TaxonomyInv
  <2>1. TaxonomyInit => TaxonomyTypeOK
    BY IdleRequest DEF TaxonomyInit, TaxonomyTypeOK
  <2>2. TaxonomyInit => Validated = {}
    BY DEF TaxonomyInit, Validated, Known
  <2> QED BY <2>1, <2>2 DEF TaxonomyInit, TaxonomyInv, RequestInv, CopyInv, ValidInv, Validating
<1> QED BY <1>1, TaxonomyInvInductive, PTL DEF TaxonomySpec

-----------------------------------------------------------------------------
(* What a step does to the versions.                                       *)

LEMMA SaveStands ==
    ASSUME TaxonomyInv, NEW a \in Administrators, SaveVersion(a), NoteClash PROVE TreeStands
<1> SUFFICES ASSUME NEW n \in VersionNumbers, ~clashed', taxonomy[n] # NoVersion,
                    taxonomy'[n] # NoVersion, taxonomy[n] # taxonomy'[n]
             PROVE  Legal(taxonomy[n], taxonomy'[n])
  BY DEF TreeStands, Legal
<1>1. CopyInv
  BY DEF NoteClash, TaxonomyInv, TaxonomyTypeOK
<1>2. editing[a] # NoRequest
  BY IdleRequest DEF SaveVersion
<1>3. n = editing[a].number /\ taxonomy'[n] = editing[a].copy
  BY DEF SaveVersion, TaxonomyInv, TaxonomyTypeOK
<1> QED BY <1>1, <1>2, <1>3 DEF CopyInv

LEMMA ArchiveStands ==
    ASSUME TaxonomyInv, NEW a \in Administrators, ArchivePrevious(a), NoteClash PROVE TreeStands
<1> SUFFICES ASSUME NEW n \in VersionNumbers, ~clashed', taxonomy[n] # NoVersion,
                    taxonomy'[n] # NoVersion, taxonomy[n] # taxonomy'[n]
             PROVE  Legal(taxonomy[n], taxonomy'[n])
  BY DEF TreeStands, Legal
<1>1. CopyInv
  BY DEF NoteClash, TaxonomyInv, TaxonomyTypeOK
<1>2. editing[a] # NoRequest
  BY IdleRequest DEF ArchivePrevious
<1>3. n = editing[a].previous /\ taxonomy'[n] = [taxonomy[n] EXCEPT !.state = "ARCHIVED"]
  BY DEF ArchivePrevious, TaxonomyInv, TaxonomyTypeOK
<1>4. taxonomy[n] \in TaxonomyVersions /\ <<taxonomy[n].state, "ARCHIVED">> \in VersionMoves
  BY <1>1, <1>2, <1>3 DEF CopyInv, ArchivePrevious, TaxonomyInv, TaxonomyTypeOK
<1>5. /\ taxonomy'[n].state = "ARCHIVED" /\ taxonomy'[n].tree = taxonomy[n].tree
      /\ taxonomy'[n].concepts = taxonomy[n].concepts
  BY <1>3, <1>4 DEF TaxonomyVersions
<1> QED BY <1>4, <1>5 DEF Legal

LEMMA StepStands ==
    ASSUME TaxonomyInv, [TaxonomyNext]_taxonomyVars PROVE [TreeStands]_taxonomyVars
<1>1. ASSUME UNCHANGED taxonomy PROVE TreeStands
  BY <1>1 DEF TreeStands
<1>2. ASSUME TaxonomyRestart PROVE TreeStands
  BY <1>2 DEF TreeStands, TaxonomyRestart
<1>3. ASSUME NEW a \in Administrators,
             Begins(a) \/ FindPrevious(a) \/ CheckPrevious(a)
      PROVE  UNCHANGED taxonomy
  BY <1>3 DEF Begins, FindPrevious, CheckPrevious
<1> QED BY <1>1, <1>2, <1>3, NextCases, SaveStands, ArchiveStands

-----------------------------------------------------------------------------
(* Theorems.                                                               *)

(* The store, the requests under way and their copies are always of their   *)
(* types: no copy is written that is not a version.                        *)
THEOREM TaxonomyIsTyped == TaxonomySpec => []TaxonomyTypeOK
<1>1. TaxonomyInv => TaxonomyTypeOK
  BY DEF TaxonomyInv
<1> QED BY <1>1, TaxonomyInvHolds, PTL

(* Whatever any number of administrators do to different versions, the     *)
(* active taxonomy is one version.                                         *)
THEOREM OneTaxonomyAlwaysValidated == TaxonomySpec => []OneTaxonomyValidated
<1>1. TaxonomyInv => OneTaxonomyValidated
  BY DEF TaxonomyInv, ValidInv, OneTaxonomyValidated
<1> QED BY <1>1, TaxonomyInvHolds, PTL

(* Whatever is saved, and in whatever order, what a reviewer has been shown *)
(* stands as long as no two requests meet on a version.                    *)
THEOREM ReviewedTreeAlwaysStands == TaxonomySpec => ReviewedTreeStands
<1> QED BY StepStands, TaxonomyInvHolds, PTL DEF TaxonomySpec, ReviewedTreeStands

-----------------------------------------------------------------------------
(* Types of the schema and of the routing.                                 *)

(* What migrations make, and the table of their stamps. *)
SchemaParts == (UNION {PartsOf(i) : i \in MigrationIds}) \cup {<<"schema_migrations", "">>}

SchemaOfParts == schema \subseteq SchemaParts /\ lacking \in Lacks \cup {{}}

(* The schema is made of nothing else. *)
THEOREM SchemaIsTyped == SchemaSpec => []SchemaTypeOK
<1>1. SchemaInit => SchemaOfParts
  <2> SUFFICES ASSUME SchemaInit PROVE schema \subseteq SchemaParts
    BY DEF SchemaOfParts, SchemaInit
  <2>1. PICK n \in Releases :
          schema \subseteq PartsOf(1) \cup UNION {PartsOf(i) : i \in 1..n}
    BY DEF SchemaInit
  <2>2. 1 \in MigrationIds /\ 1..n \subseteq MigrationIds
    BY ReleasesAssumption, MigrationCount DEF ReleasesAssumption
  <2> QED BY <2>1, <2>2 DEF SchemaParts
<1>2. SchemaInv /\ SchemaOfParts /\ [SchemaNext]_schemaVars => SchemaOfParts'
  <2> SUFFICES ASSUME SchemaInv, schema \subseteq SchemaParts, [SchemaNext]_schemaVars
               PROVE  schema' \subseteq SchemaParts
    BY DEF SchemaOfParts, SchemaParts, SchemaNext, schemaVars
  <2>1. CASE schema' \in {schema, schema \cup {<<"schema_migrations", "">>}}
    BY <2>1 DEF SchemaParts
  <2>2. ASSUME NEW p \in Openers, RunMigration(p) PROVE schema' \subseteq SchemaParts
    <3> DEFINE rest == MigrationIds \ opening[p].applied
               i == CHOOSE j \in rest : \A k \in rest : j <= k
    <3>1. rest # {} /\ (schema' = schema \/ schema' = Migrated(i))
      BY <2>2 DEF RunMigration
    <3>2. i \in MigrationIds
      <4>1. rest \in SUBSET MigrationIds
        OBVIOUS
      <4> HIDE DEF rest
      <4> QED BY <3>1, <4>1, LeastMigration
    <3> HIDE DEF i
    <3>3. Migrated(i) \subseteq schema \cup PartsOf(i)
      BY DEF Migrated, PartsOf
    <3> QED BY <3>1, <3>2, <3>3 DEF SchemaParts
  <2>3. CASE UNCHANGED schemaVars
    BY <2>3 DEF schemaVars
  <2>4. ASSUME NEW p \in Openers,
               TrackStamps(p) \/ ReadApplied(p) \/ LookForLegacyTables(p) \/ StampBootstrap(p) \/ Opened(p)
                  \/ StopProcess(p)
        PROVE  schema' \in {schema, schema \cup {<<"schema_migrations", "">>}}
    BY <2>4 DEF TrackStamps, ReadApplied, LookForLegacyTables, StampBootstrap, Opened, StopProcess
  <2> QED BY <2>1, <2>2, <2>3, <2>4 DEF SchemaNext
<1>3. SchemaInv /\ SchemaOfParts => SchemaTypeOK
  BY DEF SchemaInv, SchemaTypeOK, SchemaOfParts, SchemaParts
<1> QED BY <1>1, <1>2, <1>3, SchemaInductive, PTL DEF SchemaSpec

(* Where versions stand with their reviewers, and what is left to look at. *)
ReviewsTyped ==
    /\ policy \in RoutingPolicies
    /\ review \in [ScoredVersions -> {"generated", "in_review", "validated", "rejected"}]
    /\ driftCheck \subseteq ScoredVersions

(* The rows of the router, its counters and the steps under way are what    *)
(* they should be, for any versions, content types and rates.              *)
THEOREM RoutingIsTyped == RoutingSpec => []RoutingTypeOK
<1>1. RoutingInit => ReviewsTyped
  BY DEF RoutingInit, ReviewsTyped
<1>2. ReviewsTyped /\ [RoutingNext]_routingVars => ReviewsTyped'
  <2> SUFFICES ASSUME ReviewsTyped, [RoutingNext]_routingVars PROVE ReviewsTyped'
    OBVIOUS
  <2> USE DEF ReviewsTyped
  <2>1. ASSUME NEW v \in ScoredVersions, ScoreVersion(v) PROVE ReviewsTyped'
    BY <2>1 DEF ScoreVersion
  <2>2. ASSUME NEW v \in ScoredVersions, Reviewed(v) PROVE ReviewsTyped'
    BY <2>2 DEF Reviewed
  <2>3. ASSUME NEW v \in ScoredVersions, RejectVersion(v) PROVE ReviewsTyped'
    BY <2>3 DEF RejectVersion
  <2>4. ASSUME NEW v \in ScoredVersions, PromoteListed(v) PROVE ReviewsTyped'
    BY <2>4 DEF PromoteListed
  <2>5. ASSUME NEW v \in ScoredVersions, RecordDrift(v) PROVE ReviewsTyped'
    BY <2>5 DEF RecordDrift
  <2>6. ASSUME NEW v \in ScoredVersions, Decide(v) \/ StoreRouting(v) \/ MarkListed(v) \/ BumpPromoted(v)
        PROVE  ReviewsTyped'
    BY <2>6 DEF Decide, StoreRouting, MarkListed, BumpPromoted
  <2>7. CASE ListPending \/ RoutingRestart
    BY <2>7 DEF ListPending, RoutingRestart
  <2>8. CASE UNCHANGED routingVars
    BY <2>8 DEF routingVars
  <2> QED BY <2>1, <2>2, <2>3, <2>4, <2>5, <2>6, <2>7, <2>8 DEF RoutingNext
<1>3. CountersInv /\ ReviewsTyped => RoutingTypeOK
  BY DEF CountersInv, ReviewsTyped, RoutingTypeOK
<1> QED BY <1>1, <1>2, <1>3, CountersInductive, PTL DEF RoutingSpec

=============================================================================
