--------------------------- MODULE KnowledgeSearch ---------------------------
(***************************************************************************)
(* Questions asked of the knowledge graph: search, the explorer's search    *)
(* and chat.  A question retrieves chunks, by their embeddings and, where   *)
(* hybrid retrieval is on, by their words too; the hits of documents the    *)
(* caller may not see are dropped; the explorer groups the rest by          *)
(* document and by topic, and chat puts it before a language model and      *)
(* checks what its answer cites.                                           *)
(*                                                                         *)
(* The index of words is built when the server starts and never again,     *)
(* while documents are projected and dropped, shared and unshared: every   *)
(* statement of a question may see another corpus.  Neo4j keeps the chunks *)
(* of a document it drops, and goes on finding them; the store in memory    *)
(* lets them go, and everything else with the process.  Left out: the       *)
(* texts, the distances, the weights of words, and the model's answer but   *)
(* for the markers in it.                                                  *)
(***************************************************************************)
EXTENDS Naturals, FiniteSets, Sequences, SequencesExt, OrderedRows

CONSTANTS
    ChunkOwner,     \* the document of each chunk: a sequence over the chunks
    ChunkTopic,     \* and its topic, 0 for none
    Previewed,      \* the chunks whose node keeps some text
    Orders,         \* in which a query may find the chunks: sequences of them
    WordOrders,     \* and those that share a word with it: sequences of some
    SearchLimit,    \* the number of results asked for
    CandidatePool,  \* and how many each retriever is asked for in hybrid retrieval
    RrfK,           \* of reciprocal rank fusion
    Scale           \* a number that makes its scores whole

ASSUME KnowledgeSearchAssumption ==
    /\ SearchLimit \in Nat \ {0} /\ CandidatePool \in Nat \ {0} /\ RrfK \in Nat
    /\ ChunkOwner \in Seq(Nat \ {0}) /\ DOMAIN ChunkTopic = DOMAIN ChunkOwner
    /\ \A words \in Orders \cup WordOrders : words \in Seq(DOMAIN ChunkOwner) /\ IsInjective(words)
    /\ Scale \in Nat /\ \A r \in DOMAIN ChunkOwner : Scale % (RrfK + r) = 0

VARIABLES
    retrieval,  \* how questions are answered: hybrid, whether access is enforced, from which store
    corpus,     \* the documents in the graph, its chunks, and those in the index of words
    shared,     \* the documents the caller may see
    question,   \* the question under way
    during      \* what was the case at some moment of it

searchVars == <<retrieval, corpus, shared, question, during>>

-----------------------------------------------------------------------------
SearchedChunks == DOMAIN ChunkOwner
SearchedDocuments == {ChunkOwner[c] : c \in SearchedChunks}
UnknownDocument == 0

Questions == {"search", "explore", "chat", "graph_chat"}
Hit == [chunk : SearchedChunks, document : SearchedDocuments \cup {UnknownDocument}]

NoQuestion == [kind |-> "search", stage |-> "idle", hits |-> <<>>, verdicts |-> <<>>,
               topics |-> {}, evidence |-> {}, warned |-> {}, markers |-> {}]

Retrievals == [hybrid : BOOLEAN, enforced : BOOLEAN, store : {"memory", "neo4j"}]

SearchTypeOK ==
    /\ retrieval \in Retrievals
    /\ corpus \in [projected : SUBSET SearchedDocuments, chunks : SUBSET SearchedChunks,
                   indexed : SUBSET SearchedChunks]
    /\ shared \subseteq SearchedDocuments
    /\ question.kind \in Questions
    /\ question.stage \in {"idle", "retrieve", "check", "topics", "triples", "model", "done"}
    /\ question.hits \in BoundedSeq(Hit, SearchLimit)
    /\ during \in [shared : SUBSET SearchedDocuments, projected : SUBSET SearchedDocuments,
                   chunks : SUBSET SearchedChunks]

-----------------------------------------------------------------------------
(* Retrieval.                                                              *)

ChunksIn(documents) == {c \in SearchedChunks : ChunkOwner[c] \in documents}

(* find_chunks_by_similarity: the closest ones, whatever the distance and   *)
(* whether or not their document is in the graph.                          *)
VectorSearch(order, n) ==
    FirstFew(Where(order, corpus.chunks), n)

(* BM25Index.search: of the chunks indexed, those with a word of the query. *)
LexicalSearch(words, n) ==
    FirstFew(Where(words, corpus.indexed), n)

(* reciprocal_rank_fusion *)
FusedScore(ranking, c) ==
    IF c \in Range(ranking)
    THEN Scale \div (RrfK + CHOOSE r \in 1..Len(ranking) : ranking[r] = c)
    ELSE 0

Fuse(a, b) ==
    LET found    == Range(a) \cup Range(b)
        score(c) == FusedScore(a, c) + FusedScore(b, c)
        before(c, d) == score(c) > score(d) \/ (score(c) = score(d) /\ c < d)
    IN  InOrder(found, {p \in found \X found : before(p[1], p[2])})

(* Faulty variant: what the words alone found is given the document of the  *)
(* closest chunk.                                                          *)
HitOfClosest(c, found) ==
    [chunk |-> c,
     document |-> IF c \in Range(found) THEN ChunkOwner[c]
                  ELSE IF found # <<>> THEN ChunkOwner[found[1]] ELSE UnknownDocument]

(* What the words alone found has no document to show. *)
HitOf(c, found) ==
    [chunk |-> c, document |-> IF c \in Range(found) THEN ChunkOwner[c] ELSE UnknownDocument]

HybridSearch(order, words) ==
    LET found == VectorSearch(order, CandidatePool)
        fused == Fuse(found, LexicalSearch(words, CandidatePool))
    IN  [i \in 1..Len(FirstFew(fused, SearchLimit)) |-> HitOf(fused[i], found)]

PlainSearch(order) ==
    LET found == VectorSearch(order, SearchLimit)
    IN  [i \in 1..Len(found) |-> HitOf(found[i], found)]

-----------------------------------------------------------------------------
(* One question at a time; the last answer stands until the next one.      *)

AskQuestion(kind) ==
    /\ question.stage \in {"idle", "done"}
    /\ question' = [NoQuestion EXCEPT !.kind = kind, !.stage = "retrieve"]
    /\ UNCHANGED <<retrieval, corpus, shared>>

(* The embedding of the query may fail, and the question with it. *)
Retrieve ==
    /\ question.stage = "retrieve"
    /\ \/ \E order \in Orders, words \in WordOrders :
             question' = [question EXCEPT
                !.stage = "check",
                !.hits = IF retrieval.hybrid THEN HybridSearch(order, words)
                                             ELSE PlainSearch(order)]
       \/ question' = NoQuestion
    /\ UNCHANGED <<retrieval, corpus, shared>>

Unchecked ==
    {h \in Range(question.hits) : h.document \notin {v.document : v \in Range(question.verdicts)}}

FirstUnchecked ==
    question.hits[CHOOSE i \in 1..Len(question.hits) :
                     /\ question.hits[i] \in Unchecked
                     /\ \A j \in 1..(i - 1) : question.hits[j] \notin Unchecked]

(* user_can_access, asked once for each document of a question. *)
CheckAccess ==
    /\ question.stage = "check" /\ Unchecked # {}
    /\ question' = [question EXCEPT !.verdicts = Append(@,
          [document |-> FirstUnchecked.document,
           seen |-> ~retrieval.enforced \/ FirstUnchecked.document \in shared])]
    /\ UNCHANGED <<retrieval, corpus, shared>>

MayBeShown(h) == [document |-> h.document, seen |-> TRUE] \in Range(question.verdicts)

KeepAccessible ==
    /\ question.stage = "check" /\ Unchecked = {}
    /\ LET kept == Where(question.hits, {h \in Range(question.hits) : MayBeShown(h)}) IN
       question' = [question EXCEPT
          !.hits = kept, !.verdicts = <<>>,
          !.stage = IF question.kind = "search" \/ kept = <<>> THEN "done"
                    ELSE CASE question.kind = "explore"    -> "topics"
                           [] question.kind = "chat"       -> "model"
                           [] question.kind = "graph_chat" -> "triples"]
    /\ UNCHANGED <<retrieval, corpus, shared>>

(* The explorer looks each hit's node up for its topic; the node may be     *)
(* gone.  The topics are shown with their hits as evidence.                 *)
GroupByTopic ==
    /\ question.stage = "topics"
    /\ LET nodes == {h.chunk : h \in Range(question.hits)} \cap corpus.chunks IN
       question' = [question EXCEPT
          !.stage = "done",
          !.topics = {<<ChunkTopic[c], c>> : c \in {n \in nodes : ChunkTopic[n] # 0}}]
    /\ UNCHANGED <<retrieval, corpus, shared>>

(* _collect_triples_for_documents: a document that was dropped has none. *)
CollectTriples ==
    /\ question.stage = "triples"
    /\ question' = [question EXCEPT
          !.stage = "model",
          !.evidence = {h.document : h \in Range(question.hits)} \cap corpus.projected]
    /\ UNCHANGED <<retrieval, corpus, shared>>

CitedChunks == {h.chunk : h \in Range(question.hits)}

(* _validate_citations: the markers of the answer that name no hit. *)
Unresolved(markers) == markers \ CitedChunks

(* The model puts markers in its answer, of which one stands for all, or    *)
(* fails.                                                                  *)
ModelAnswers ==
    /\ question.stage = "model"
    /\ \/ \E markers \in {{}} \cup {{c} : c \in SearchedChunks} :
             question' = [question EXCEPT !.stage = "done", !.markers = markers,
                                          !.warned = Unresolved(markers)]
       \/ question' = NoQuestion
    /\ UNCHANGED <<retrieval, corpus, shared>>

-----------------------------------------------------------------------------
(* What happens to the corpus.                                             *)

ProjectSearched ==
    /\ \E d \in SearchedDocuments \ corpus.projected :
          corpus' = [corpus EXCEPT !.projected = @ \cup {d}, !.chunks = @ \cup ChunksIn({d})]
    /\ UNCHANGED <<retrieval, shared, question>>

(* delete_subgraph_for_version: in Neo4j the chunks stay, embeddings and all. *)
DropSearched ==
    /\ \E d \in corpus.projected :
          corpus' = [corpus EXCEPT
             !.projected = @ \ {d},
             !.chunks = IF retrieval.store = "memory" THEN @ \ ChunksIn({d}) ELSE @]
    /\ UNCHANGED <<retrieval, shared, question>>

(* Of no consequence where access is not enforced. *)
ShareOrUnshare ==
    /\ retrieval.enforced
    /\ \E d \in SearchedDocuments :
          shared' = IF d \in shared THEN shared \ {d} ELSE shared \cup {d}
    /\ UNCHANGED <<retrieval, corpus, question>>

NothingProjected == [projected |-> {}, chunks |-> {}, indexed |-> {}]

(* build_bm25_index_from_graph_store, at start only: in memory, over a      *)
(* graph that is still empty.                                              *)
SearchRestart ==
    /\ corpus' = IF retrieval.store = "memory" THEN NothingProjected
                 ELSE [corpus EXCEPT !.indexed = corpus.chunks \cap Previewed]
    /\ corpus' # corpus
    /\ question' = NoQuestion
    /\ UNCHANGED <<retrieval, shared>>

(* A question's moments: what was shared, and in the graph, at any of them. *)
Remember ==
    during' = IF question.stage \in {"idle", "done"}
              THEN [shared |-> shared', projected |-> corpus'.projected, chunks |-> corpus'.chunks]
              ELSE [shared |-> during.shared \cup shared',
                    projected |-> during.projected \cup corpus'.projected,
                    chunks |-> during.chunks \cup corpus'.chunks]

SearchInit ==
    /\ retrieval \in Retrievals
    /\ corpus = NothingProjected
    /\ shared = SearchedDocuments
    /\ question = NoQuestion
    /\ during = [shared |-> shared, projected |-> {}, chunks |-> {}]

SearchNext ==
    /\ \/ \E kind \in Questions : AskQuestion(kind)
       \/ Retrieve \/ CheckAccess \/ KeepAccessible \/ GroupByTopic \/ CollectTriples \/ ModelAnswers
       \/ ProjectSearched \/ DropSearched \/ ShareOrUnshare \/ SearchRestart
    /\ IF question.stage = "done" /\ question' = question THEN UNCHANGED during ELSE Remember

SearchSpec == SearchInit /\ [][SearchNext]_searchVars

-----------------------------------------------------------------------------
(* Properties.                                                             *)

(* Where access is enforced, an answer shows only chunks of documents the   *)
(* caller was let see at some moment of the question, whichever retriever    *)
(* found them, and only their triples; what it shows stood in the graph at   *)
(* some moment of it.  In memory this holds of the document, too: nothing    *)
(* of one that had left the graph before is shown.  (Neo4j keeps finding    *)
(* the chunks of documents it has dropped.)  Everywhere, no chunk is shown   *)
(* twice, topics have only shown chunks as evidence, the model is asked     *)
(* only with some evidence at hand, and what its answer cites is among the  *)
(* hits or is warned of.                                                   *)
AnswersAreGrounded ==
    question.stage = "done" =>
       /\ retrieval.enforced =>
             /\ \A h \in Range(question.hits) :
                   /\ ChunkOwner[h.chunk] \in during.shared
                   /\ h.chunk \in during.chunks
                   /\ retrieval.store = "memory" => ChunkOwner[h.chunk] \in during.projected
             /\ question.evidence \subseteq during.shared
       /\ Cardinality(CitedChunks) = Len(question.hits)
       /\ {t[2] : t \in question.topics} \subseteq CitedChunks
       /\ question.markers \subseteq CitedChunks \cup question.warned
       /\ question.hits = <<>> => question.markers = {} /\ question.evidence = {}

=============================================================================
