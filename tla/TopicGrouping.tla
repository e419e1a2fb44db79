---------------------------- MODULE TopicGrouping ----------------------------
(***************************************************************************)
(* What the projector and the confidence scorer make of a document's        *)
(* chunks: the relations between each two of them, by the words and the    *)
(* standards they mention, the topics that related chunks fall into, by    *)
(* union and find, and the share of the chunks that are related to none    *)
(* and that lie outside the largest topic.                                 *)
(*                                                                         *)
(* A chunk's text is how often it has each word, words being numbered in    *)
(* their alphabetical order, and the standards it cites.  Left out: the    *)
(* spelling of words, labels, summaries and the hash that names a topic.   *)
(***************************************************************************)
EXTENDS Naturals, Integers, FiniteSets, Sequences, SequencesExt, FiniteSetsExt, OrderedRows

CONSTANTS
    Words,              \* 1..w, in alphabetical order
    Texts,              \* sampled: [words : [Words -> Nat], standards : a set]
    ChunkOrder,         \* the chunks' order in the document, ids being in their own
    KeywordLimit, TopicKeywordLimit,
    NearDuplicate, SameTopicKeywords, SameTopicJaccard, \* the thresholds of relations
    ClusterKeywords     \* and the one to cluster chunks that share keywords

ASSUME TopicGroupingAssumption ==
    /\ ChunkOrder \in Seq(Nat) /\ Range(ChunkOrder) = 1..Len(ChunkOrder) /\ IsInjective(ChunkOrder)
    /\ IsFiniteSet(Words) /\ \A t \in Texts : DOMAIN t.words = Words /\ IsFiniteSet(t.standards)
    /\ NearDuplicate \in 0..100 /\ SameTopicJaccard \in 0..100

VARIABLES
    texts,      \* the text of each chunk
    grouping    \* the algorithm's state: relations, those to go, parents, topics

groupingVars == <<texts, grouping>>

-----------------------------------------------------------------------------
Grouped == 1..Len(ChunkOrder)

TokensOf(t) == {w \in Words : t.words[w] > 0}

(* _top_keywords: the most frequent words, the first ones on a tie. *)
MostFrequent(count, limit) ==
    LET words == {w \in Words : count[w] > 0}
        before(w) == {v \in words : count[v] > count[w] \/ (count[v] = count[w] /\ v < w)}
    IN  {w \in words : Cardinality(before(w)) < limit}

KeywordsOf(t) == MostFrequent(t.words, KeywordLimit)

(* _jaccard is at least so many percent. *)
JaccardAtLeast(A, B, percent) ==
    IF A \cup B = {} THEN percent = 0
    ELSE 100 * Cardinality(A \cap B) >= percent * Cardinality(A \cup B)

RelationKinds == {"related_to", "shares_keyword", "same_topic_as"}
Relation == [kind : RelationKinds, source : Grouped, target : Grouped, shared : Nat]

(* _classify_pair: the relation of two chunks, or none, as a set. *)
ClassifyPair(a, b) ==
    LET ta == texts[a]
        tb == texts[b]
        keywords == KeywordsOf(ta) \cap KeywordsOf(tb)
        standards == ta.standards \cap tb.standards
        related(kind, shared) ==
            {[kind |-> kind, source |-> Min({a, b}), target |-> Max({a, b}), shared |-> shared]}
    IN  IF keywords # {} /\ JaccardAtLeast(TokensOf(ta), TokensOf(tb), NearDuplicate)
        THEN related("related_to", Cardinality(keywords))
        ELSE IF standards # {}
        THEN related("shares_keyword", Cardinality(standards) + Cardinality(keywords))
        ELSE IF /\ Cardinality(keywords) >= SameTopicKeywords
                /\ JaccardAtLeast(KeywordsOf(ta), KeywordsOf(tb), SameTopicJaccard)
        THEN related("same_topic_as", Cardinality(keywords))
        ELSE IF keywords # {} THEN related("shares_keyword", Cardinality(keywords))
        ELSE {}

(* _ordered_pairs *)
OrderedPairs == {p \in Grouped \X Grouped : p[1] < p[2]}

(* relations_for, sorted by the chunks' ids. *)
RelationsFor ==
    LET found == UNION {ClassifyPair(ChunkOrder[p[1]], ChunkOrder[p[2]]) : p \in OrderedPairs}
        before(r, s) == r.source < s.source \/ (r.source = s.source /\ r.target < s.target)
    IN  InOrder(found, {p \in found \X found : before(p[1], p[2])})

-----------------------------------------------------------------------------
(* _connected_components: every chunk has a parent, roots are their own.    *)

(* What find passes on its way up: a chunk, its parent, and so on. *)
Passed(parent, c) ==
    {n \in Grouped : \A S \in SUBSET Grouped : c \in S /\ (\A m \in S : parent[m] \in S) => n \in S}

Root(parent, c) == CHOOSE r \in Passed(parent, c) : parent[r] = r

(* find makes the root the parent of all it passed. *)
Compress(parent, c) ==
    [n \in Grouped |-> IF n \in Passed(parent, c) THEN Root(parent, c) ELSE parent[n]]

(* Faulty variant: the ends themselves are joined. *)
UnionOfEnds(parent, a, b) ==
    [parent EXCEPT ![Max({a, b})] = Min({a, b})]

Union(parent, a, b) ==
    LET found == Compress(Compress(parent, a), b)
        ra == Root(parent, a)
        rb == Root(parent, b)
    IN  [found EXCEPT ![Max({ra, rb})] = Min({ra, rb})]

(* One shared keyword is not enough to cluster by. *)
Clusters(r) == r.kind = "shares_keyword" => r.shared >= ClusterKeywords

(* _aggregate_keywords: how many members have each keyword. *)
AggregateKeywords(members) ==
    MostFrequent([w \in Words |-> Cardinality({c \in members : w \in KeywordsOf(texts[c])})],
                 TopicKeywordLimit)

(* cluster: the components of two chunks or more. *)
TopicsOf(parent) ==
    LET component(r) == {c \in Grouped : Root(parent, c) = r}
    IN  {[chunks |-> component(r), keywords |-> AggregateKeywords(component(r))] :
            r \in {c \in Grouped : Cardinality(component(c)) >= 2}}

-----------------------------------------------------------------------------
(* The signals of the confidence scorer, in percent.                       *)

Orphans(relations) ==
    Grouped \ ({r.source : r \in Range(relations)} \cup {r.target : r \in Range(relations)})

(* A document without chunks has no orphan. *)
OrphanSignal(relations) ==
    IF Grouped = {} THEN 100
    ELSE 100 - (100 * Cardinality(Orphans(relations))) \div Cardinality(Grouped)

(* Of the chunks in topics, those in the most common one; on a tie, in any. *)
IncoherenceSignal(topics) ==
    IF topics = {} THEN 100
    ELSE (100 * Max({Cardinality(t.chunks) : t \in topics}))
            \div Cardinality(UNION {t.chunks : t \in topics})

-----------------------------------------------------------------------------
TopicGroupingInit ==
    /\ texts \in [Grouped -> Texts]
    /\ grouping = [stage |-> "relate", relations |-> <<>>, left |-> <<>>,
                   parent |-> [c \in Grouped |-> c], topics |-> {}, orphan |-> 100, coherent |-> 100]

Relate ==
    /\ grouping.stage = "relate"
    /\ grouping' = [grouping EXCEPT !.stage = "union", !.relations = RelationsFor, !.left = RelationsFor]
    /\ UNCHANGED texts

UnionNext ==
    /\ grouping.stage = "union" /\ grouping.left # <<>>
    /\ LET r == Head(grouping.left) IN
       grouping' = [grouping EXCEPT
          !.left = Tail(@),
          !.parent = IF Clusters(r) THEN Union(@, r.source, r.target) ELSE @]
    /\ UNCHANGED texts

Group ==
    /\ grouping.stage = "union" /\ grouping.left = <<>>
    /\ grouping' = [grouping EXCEPT !.stage = "grouped",
                                    !.topics = TopicsOf(grouping.parent),
                                    !.orphan = OrphanSignal(grouping.relations),
                                    !.coherent = IncoherenceSignal(TopicsOf(grouping.parent))]
    /\ UNCHANGED texts

TopicGroupingNext == Relate \/ UnionNext \/ Group

TopicGroupingSpec == TopicGroupingInit /\ [][TopicGroupingNext]_groupingVars

TopicGroupingTypeOK ==
    /\ texts \in [Grouped -> Texts]
    /\ grouping.stage \in {"relate", "union", "grouped"}
    /\ Range(grouping.relations) \subseteq Relation
    /\ grouping.parent \in [Grouped -> Grouped]
    /\ \A t \in grouping.topics : t.chunks \subseteq Grouped /\ t.keywords \subseteq Words
    /\ grouping.orphan \in 0..100 /\ grouping.coherent \in 0..100

-----------------------------------------------------------------------------
(* Properties.                                                             *)

(* Chains of related chunks, whatever the order they were related in. *)
Linked(edges, c) ==
    {d \in Grouped : \A S \in SUBSET Grouped :
        c \in S /\ (\A r \in edges : r.source \in S <=> r.target \in S) => d \in S}

ClusteredWith(c) == Linked({r \in Range(grouping.relations) : Clusters(r)}, c)

(* The topics are exactly the sets of two chunks or more that chains of     *)
(* clustering relations hold together, so what chunks share a topic does   *)
(* not depend on the order of the document; the parents lead down to the   *)
(* first chunk of each; a chunk in a topic is no orphan; and a topic has   *)
(* only keywords of its own members.                                       *)
TopicsAreComponents ==
    /\ \A c \in Grouped : grouping.parent[c] <= c
    /\ grouping.stage = "grouped" =>
          /\ {t.chunks : t \in grouping.topics}
                = {S \in {ClusteredWith(c) : c \in Grouped} : Cardinality(S) >= 2}
          /\ \A c \in Grouped : Root(grouping.parent, c) = Min(ClusteredWith(c))
          /\ Orphans(grouping.relations) \cap UNION {t.chunks : t \in grouping.topics} = {}
          /\ \A t \in grouping.topics : \A w \in t.keywords :
                \E c \in t.chunks : w \in KeywordsOf(texts[c])

=============================================================================
