----------------------- MODULE KnowledgeReads_proofs -----------------------
(***************************************************************************)
(* What is read of the knowledge layer while it changes: an imposed         *)
(* taxonomy is installed as its file has it, whatever order its categories  *)
(* are inserted in; what a search, a chat or an exploration answers is      *)
(* found in chunks the caller may see, within its budgets; and what a       *)
(* reading of the graph puts together from many statements was there; and  *)
(* the topics of a document are what the relations of its chunks hold      *)
(* together.                                                               *)
(*                                                                         *)
(* Each is an invariant of the steps in between.  A tree half installed     *)
(* holds what the authored order puts first.  A request under way keeps     *)
(* what it was let see.  A search of the graph has gone through no node too *)
(* far away, and what stood throughout and is not found yet is still to be  *)
(* found from its frontier: so that the last round has it all, and a        *)
(* frontier that is empty has nothing left to lead to (ReachClosed).       *)
(* Chunks have the same root where the relations gone through hold them    *)
(* together (UniteKeepsComponents).                                        *)
(***************************************************************************)
EXTENDS PagedListings_proofs, TaxonomyPublication, KnowledgeSearch, GraphReads, TopicGrouping, WellFoundedInduction

-----------------------------------------------------------------------------
(* Rows of a sequence.                                                     *)

(* Numbers can be listed smallest first. *)
LEMMA AscendingFacts ==
    ASSUME NEW T \in SUBSET Int
    PROVE  /\ \A a, b \in T : <<a, b>> \in Ascending(T) <=> a < b
           /\ \A S \in SUBSET T : Total(Ascending(T), S)
<1>1. \A a, b \in T : <<a, b>> \in Ascending(T) <=> a < b
  BY DEF Ascending
<1>2. ASSUME NEW S \in SUBSET T PROVE Total(Ascending(T), S)
  <2>1. \A a, b \in S : (<<a, b>> \in Ascending(T) <=> a < b) /\ a \in Int /\ b \in Int
    BY <1>1
  <2>2. ASSUME NEW a \in S PROVE <<a, a>> \notin Ascending(T)
    BY <2>1
  <2>3. ASSUME NEW a \in S, NEW b \in S, NEW c \in S, <<a, b>> \in Ascending(T), <<b, c>> \in Ascending(T)
        PROVE  <<a, c>> \in Ascending(T)
    <3>1. a < b /\ b < c /\ a \in Int /\ b \in Int /\ c \in Int
      BY <2>1, <2>3
    <3>2. a < c
      BY <3>1
    <3> QED BY <2>1, <3>2
  <2>4. ASSUME NEW a \in S, NEW b \in S
        PROVE  a = b \/ <<a, b>> \in Ascending(T) \/ <<b, a>> \in Ascending(T)
    <3>1. a \in Int /\ b \in Int
      BY <2>1
    <3>2. a = b \/ a < b \/ b < a
      BY <3>1
    <3> QED BY <2>1, <3>2
  <2> QED BY <2>2, <2>3, <2>4 DEF Total
<1> QED BY <1>1, <1>2

(* A sequence that repeats nothing is as long as what is in it. *)
LEMMA DistinctCount ==
    ASSUME NEW S, NEW s \in Seq(S), IsInjective(s)
    PROVE  IsFiniteSet(Range(s)) /\ Cardinality(Range(s)) = Len(s)
<1>1. Len(s) \in Nat /\ DOMAIN s = 1..Len(s)
  OBVIOUS
<1>2. s \in Bijection(1..Len(s), Range(s))
  <2>1. s \in [1..Len(s) -> Range(s)]
    BY <1>1 DEF Range
  <2>2. \A i, j \in 1..Len(s) : s[i] = s[j] => i = j
    BY <1>1 DEF IsInjective
  <2>3. \A x \in Range(s) : \E i \in 1..Len(s) : s[i] = x
    BY <1>1 DEF Range
  <2> QED BY <2>1, <2>2, <2>3 DEF Bijection, Injection, Surjection, IsInjective
<1>3. IsFiniteSet(1..Len(s)) /\ Cardinality(1..Len(s)) = Len(s)
  BY <1>1, FS_Interval
<1> QED BY <1>2, <1>3, FS_Surjection DEF Bijection

(* Rows listed in an order without ties are listed once. *)
LEMMA InOrderOnce ==
    ASSUME NEW S, IsFiniteSet(S), NEW order, Total(order, S)
    PROVE  IsInjective(InOrder(S, order)) /\ Range(InOrder(S, order)) = S
<1> DEFINE s == InOrder(S, order)
<1>1. /\ s \in Seq(S) /\ Ascends(s, order)
      /\ \A x \in S : \E i \in 1..Len(s) : s[i] = x
  BY InOrderFacts
<1> HIDE DEF s
<1>2. Len(s) \in Nat /\ DOMAIN s = 1..Len(s) /\ \A i \in 1..Len(s) : s[i] \in S
  BY <1>1
<1>3. ASSUME NEW i \in 1..Len(s), NEW j \in 1..Len(s), i < j PROVE s[i] # s[j]
  <2>1. <<s[i], s[j]>> \in order
    BY <1>1, <1>3 DEF Ascends
  <2> QED BY <1>2, <2>1 DEF Total
<1>4. ASSUME NEW i \in 1..Len(s), NEW j \in 1..Len(s), s[i] = s[j] PROVE i = j
  <2>1. ~(i < j) /\ ~(j < i)
    BY <1>3, <1>4
  <2> QED BY <1>2, <2>1
<1>5. IsInjective(s)
  BY <1>2, <1>4 DEF IsInjective
<1>6. Range(s) = S
  BY <1>1, <1>2 DEF Range
<1> QED BY <1>5, <1>6 DEF s

(* What Where keeps: the rows that are in the set, each once if each was    *)
(* there once.                                                             *)
LEMMA WhereFacts ==
    ASSUME NEW S, NEW s \in Seq(S), NEW R
    PROVE  /\ Where(s, R) \in Seq(S \cap R) /\ Len(Where(s, R)) <= Len(s)
           /\ Range(Where(s, R)) = Range(s) \cap R
           /\ IsInjective(s) => IsInjective(Where(s, R))
<1> DEFINE P == {i \in 1..Len(s) : s[i] \in R}
           places == InOrder(P, Ascending(1..Len(s)))
           kept == Where(s, R)
<1>1. Len(s) \in Nat /\ DOMAIN s = 1..Len(s) /\ \A i \in 1..Len(s) : s[i] \in S
  OBVIOUS
<1>2. IsFiniteSet(1..Len(s)) /\ Cardinality(1..Len(s)) = Len(s)
  <2>1. Len(s) \in Nat
    OBVIOUS
  <2> QED BY <2>1, FS_Interval
<1>3. IsFiniteSet(P) /\ Cardinality(P) <= Len(s) /\ Cardinality(P) \in Nat
  <2>1. P \in SUBSET (1..Len(s))
    OBVIOUS
  <2> QED BY <1>2, <2>1, FS_Subset, FS_CardinalityType
<1>4. Total(Ascending(1..Len(s)), P)
  <2>1. 1..Len(s) \in SUBSET Int /\ P \in SUBSET (1..Len(s))
    BY <1>1
  <2> QED BY <2>1, AscendingFacts
<1>5. kept = [k \in 1..Len(places) |-> s[places[k]]]
  BY DEF Where
<1>6. \A i \in P : i \in 1..Len(s) /\ s[i] \in S \cap R
  BY <1>1
<1>7. \A i \in 1..Len(s) : s[i] \in R => i \in P
  OBVIOUS
<1> HIDE DEF P
<1>8. /\ places \in Seq(P) /\ Len(places) = Cardinality(P)
      /\ \A i \in P : \E k \in 1..Len(places) : places[k] = i
  BY <1>3, <1>4, InOrderFacts
<1>9. IsInjective(places)
  BY <1>3, <1>4, InOrderOnce
<1> HIDE DEF places, kept
<1>10. Len(places) \in Nat /\ DOMAIN places = 1..Len(places) /\ \A k \in 1..Len(places) : places[k] \in P
  BY <1>8
<1>11. \A k \in 1..Len(places) : kept[k] = s[places[k]] /\ s[places[k]] \in S \cap R
  BY <1>5, <1>6, <1>10
<1>12. kept \in Seq(S \cap R) /\ Len(kept) = Len(places) /\ DOMAIN kept = 1..Len(places)
  BY <1>5, <1>10, <1>11
<1>13. Len(kept) <= Len(s)
  BY <1>1, <1>3, <1>8, <1>12
<1>14. ASSUME NEW x \in Range(kept) PROVE x \in Range(s) \cap R
  <2>1. PICK k \in 1..Len(places) : x = kept[k]
    BY <1>12, <1>14 DEF Range
  <2>2. x = s[places[k]] /\ places[k] \in 1..Len(s) /\ x \in R
    BY <1>6, <1>10, <1>11, <2>1
  <2> QED BY <1>1, <2>2 DEF Range
<1>15. ASSUME NEW x \in Range(s) \cap R PROVE x \in Range(kept)
  <2>1. PICK i \in 1..Len(s) : x = s[i]
    BY <1>1, <1>15 DEF Range
  <2>2. i \in P
    BY <1>7, <1>15, <2>1
  <2>3. PICK k \in 1..Len(places) : places[k] = i
    BY <1>8, <2>2
  <2> QED BY <1>11, <1>12, <2>1, <2>3 DEF Range
<1>16. ASSUME IsInjective(s) PROVE IsInjective(kept)
  <2>1. \A i, j \in 1..Len(s) : s[i] = s[j] => i = j
    BY <1>1, <1>16 DEF IsInjective
  <2>2. \A k, l \in 1..Len(places) : places[k] = places[l] => k = l
    BY <1>9, <1>10 DEF IsInjective
  <2>3. ASSUME NEW k \in 1..Len(places), NEW l \in 1..Len(places), kept[k] = kept[l] PROVE k = l
    <3>1. s[places[k]] = s[places[l]] /\ places[k] \in 1..Len(s) /\ places[l] \in 1..Len(s)
      BY <1>6, <1>10, <1>11, <2>3
    <3> QED BY <2>1, <2>2, <3>1
  <2> QED BY <1>12, <2>3 DEF IsInjective
<1>17. Range(kept) = Range(s) \cap R
  BY <1>14, <1>15
<1> QED BY <1>12, <1>13, <1>16, <1>17 DEF kept

(* The first rows are rows, in their places. *)
LEMMA FirstFewRows ==
    ASSUME NEW S, NEW s \in Seq(S), NEW n \in Nat
    PROVE  /\ FirstFew(s, n) \in Seq(S)
           /\ Len(FirstFew(s, n)) = IF Len(s) < n THEN Len(s) ELSE n
           /\ Len(FirstFew(s, n)) \in Nat /\ Len(FirstFew(s, n)) <= Len(s)
           /\ \A i \in 1..Len(FirstFew(s, n)) : FirstFew(s, n)[i] = s[i]
           /\ Range(FirstFew(s, n)) \subseteq Range(s)
           /\ IsInjective(s) => IsInjective(FirstFew(s, n))
<1> DEFINE k == IF Len(s) < n THEN Len(s) ELSE n
           few == FirstFew(s, n)
<1>1. Len(s) \in Nat /\ k \in Nat /\ k <= Len(s) /\ DOMAIN s = 1..Len(s)
  OBVIOUS
<1>2. \A i \in 1..k : s[i] \in S
  BY <1>1
<1>3. few \in Seq(S) /\ Len(few) = k /\ \A i \in 1..k : few[i] = s[i]
  <2>1. few = SubSeq(s, 1, k)
    BY DEF FirstFew
  <2> HIDE DEF k, few
  <2> QED BY <1>1, <1>2, <2>1, SubSeqProperties
<1>4. Len(few) = IF Len(s) < n THEN Len(s) ELSE n
  BY <1>3
<1> HIDE DEF k, few
<1>5. Len(few) \in Nat /\ DOMAIN few = 1..Len(few) /\ Len(few) <= Len(s) /\ \A i \in 1..Len(few) : i \in 1..Len(s)
  BY <1>1, <1>3
<1>6. Range(few) \subseteq Range(s)
  BY <1>1, <1>3, <1>5 DEF Range
<1>7. IsInjective(s) => IsInjective(few)
  BY <1>1, <1>3, <1>5 DEF IsInjective
<1> QED BY <1>3, <1>4, <1>5, <1>6, <1>7 DEF few

-----------------------------------------------------------------------------
(* The imposed taxonomy.                                                   *)

(* Rows made one for one from others, in the same order, are listed as      *)
(* those are.                                                              *)
LEMMA OrderCarries ==
    ASSUME NEW S, IsFiniteSet(S), NEW order, Total(order, S),
           NEW T, NEW f \in [S -> T], \A y \in T : \E x \in S : f[x] = y, NEW other,
           \A x, y \in S : <<x, y>> \in order <=> <<f[x], f[y]>> \in other
    PROVE  /\ Cardinality(T) = Cardinality(S)
           /\ \A i \in 1..Cardinality(S) : InOrder(T, other)[i] = f[InOrder(S, order)[i]]
<1>1. \A x, y \in S : f[x] = f[y] => x = y
  <2> SUFFICES ASSUME NEW x \in S, NEW y \in S, f[x] = f[y], x # y PROVE FALSE
    OBVIOUS
  <2>1. <<x, y>> \in order \/ <<y, x>> \in order
    BY DEF Total
  <2>2. <<x, x>> \in order
    BY <2>1
  <2> QED BY <2>2 DEF Total
<1>2. ASSUME NEW A \in SUBSET S, NEW B \in SUBSET T, \A x \in S : x \in A <=> f[x] \in B
      PROVE  IsFiniteSet(B) /\ Cardinality(B) = Cardinality(A)
  <2>1. PICK g : g = [x \in A |-> f[x]]
    OBVIOUS
  <2>2. g \in Bijection(A, B)
    <3>1. g \in [A -> B]
      BY <1>2, <2>1
    <3>2. \A x, y \in A : g[x] = g[y] => x = y
      BY <1>1, <2>1
    <3>3. \A y \in B : \E x \in A : g[x] = y
      BY <1>2, <2>1
    <3> QED BY <3>1, <3>2, <3>3 DEF Bijection, Injection, Surjection, IsInjective
  <2>3. IsFiniteSet(A)
    BY FS_Subset
  <2> QED BY <2>2, <2>3, FS_Surjection DEF Bijection
<1>3. IsFiniteSet(T) /\ Cardinality(T) = Cardinality(S)
  BY <1>2
<1>4. Total(other, T)
  <2>1. ASSUME NEW a \in T, NEW b \in T, NEW c \in T
        PROVE  /\ <<a, a>> \notin other
               /\ <<a, b>> \in other /\ <<b, c>> \in other => <<a, c>> \in other
               /\ a = b \/ <<a, b>> \in other \/ <<b, a>> \in other
    <3>1. PICK x \in S, y \in S, z \in S : f[x] = a /\ f[y] = b /\ f[z] = c
      OBVIOUS
    <3>2. /\ <<x, x>> \in order <=> <<a, a>> \in other
          /\ <<x, y>> \in order <=> <<a, b>> \in other
          /\ <<y, x>> \in order <=> <<b, a>> \in other
          /\ <<y, z>> \in order <=> <<b, c>> \in other
          /\ <<x, z>> \in order <=> <<a, c>> \in other
      BY <3>1
    <3>3. /\ <<x, x>> \notin order
          /\ <<x, y>> \in order /\ <<y, z>> \in order => <<x, z>> \in order
          /\ x = y \/ <<x, y>> \in order \/ <<y, x>> \in order
      BY DEF Total
    <3> QED BY <3>1, <3>2, <3>3
  <2> QED BY <2>1 DEF Total
<1>5. ASSUME NEW x \in S PROVE Cardinality(Ahead(f[x], T, other)) = Cardinality(Ahead(x, S, order))
  <2>1. Ahead(x, S, order) \in SUBSET S /\ Ahead(f[x], T, other) \in SUBSET T
    BY DEF Ahead
  <2>2. \A y \in S : y \in Ahead(x, S, order) <=> f[y] \in Ahead(f[x], T, other)
    BY DEF Ahead
  <2> QED BY <1>2, <2>1, <2>2
<1>6. ASSUME NEW i \in 1..Cardinality(S) PROVE InOrder(T, other)[i] = f[InOrder(S, order)[i]]
  <2>1. Cardinality(S) \in Nat
    BY FS_CardinalityType
  <2>2. i - 1 \in 0..(Cardinality(S) - 1)
    BY <2>1
  <2>3. \E x \in S : Cardinality(Ahead(x, S, order)) = i - 1
    BY <2>2, RankFacts
  <2>4. PICK x \in S : x = InOrder(S, order)[i] /\ Cardinality(Ahead(x, S, order)) = i - 1
    <3>1. InOrder(S, order)[i] = CHOOSE x \in S : Cardinality(Ahead(x, S, order)) = i - 1
      BY DEF InOrder
    <3> QED BY <2>3, <3>1
  <2>5. InOrder(T, other)[i] = CHOOSE y \in T : Cardinality(Ahead(y, T, other)) = i - 1
    BY <1>3 DEF InOrder
  <2>6. f[x] \in T /\ Cardinality(Ahead(f[x], T, other)) = i - 1
    BY <1>5, <2>4
  <2>7. \A y \in T : Cardinality(Ahead(y, T, other)) = Cardinality(Ahead(f[x], T, other)) => y = f[x]
    BY <1>3, <1>4, <2>6, RankFacts
  <2>8. InOrder(T, other)[i] = f[x]
    BY <2>5, <2>6, <2>7
  <2> QED BY <2>4, <2>8
<1> QED BY <1>3, <1>6

(* A set of numbers has a least one. *)
LEMMA LeastOf ==
    ASSUME NEW T \in SUBSET Nat, T # {}
    PROVE  \E x \in T : \A y \in T : x <= y
<1> DEFINE R == {ss \in Nat \X Nat : ss[1] < ss[2]}
<1>1. IsWellFoundedOn(R, Nat)
  BY NatLessThanWellFounded DEF OpToRel
<1>2. \E x \in T : \A y \in T : ~ (<<y, x>> \in R)
  BY <1>1, WFMin
<1>3. \A x, y \in Nat : <<y, x>> \in R <=> y < x
  OBVIOUS
<1>4. \A x, y \in Nat : ~(y < x) => x <= y
  OBVIOUS
<1> HIDE DEF R
<1> QED BY <1>2, <1>3, <1>4

(* And a greatest one if it is bounded. *)
LEMMA GreatestOf ==
    ASSUME NEW n \in Nat, NEW T \in SUBSET (1..n), T # {}
    PROVE  \E x \in T : \A y \in T : y <= x
<1> DEFINE D == {n - x : x \in T}
<1>1. D \in SUBSET Nat /\ D # {}
  <2>1. \A x \in T : x \in 1..n /\ n - x \in Nat
    OBVIOUS
  <2> QED BY <2>1
<1>2. PICK d \in D : \A e \in D : d <= e
  BY <1>1, LeastOf
<1>3. PICK x \in T : d = n - x
  OBVIOUS
<1>4. \A y \in T : n - x <= n - y
  BY <1>2, <1>3
<1>5. \A y \in T : y <= x
  <2> TAKE y \in T
  <2>1. x \in Int /\ y \in Int /\ n - x <= n - y
    BY <1>4
  <2> QED BY <2>1
<1> QED BY <1>5

(* A file that loads: its categories, and which encloses which. *)
LEMMA DocFacts ==
    ASSUME NEW doc \in Files, Loadable(doc)
    PROVE  /\ Len(doc) \in Nat /\ DOMAIN doc = 1..Len(doc)
           /\ \A i \in 1..Len(doc) : doc[i].id \in CategoryIds
           /\ \A i, j \in 1..Len(doc) : doc[i].id = doc[j].id => i = j
           /\ \A i \in 1..Len(doc) : ParentPosition(doc, i) \in 0..Len(doc)
<1>1. Len(doc) \in Nat /\ DOMAIN doc = 1..Len(doc)
  BY FilesAssumption
<1>2. /\ \A i \in 1..Len(doc) : doc[i].id \in CategoryIds
      /\ \A i, j \in 1..Len(doc) : doc[i].id = doc[j].id => i = j
  BY <1>1 DEF Loadable
<1>3. ASSUME NEW i \in 1..Len(doc), doc[i].depth # 1 PROVE ParentPosition(doc, i) \in 1..Len(doc)
  <2> DEFINE above == {j \in 1..(i - 1) : doc[j].depth = doc[i].depth - 1}
  <2>1. above # {}
    BY <1>3, FilesAssumption
  <2>2. i - 1 \in Nat /\ above \in SUBSET (1..(i - 1))
    BY <1>1
  <2> HIDE DEF above
  <2>3. \E j \in above : \A k \in above : k <= j
    BY <2>1, <2>2, GreatestOf
  <2>4. (CHOOSE j \in above : \A k \in above : k <= j) \in above
    BY <2>3
  <2>5. ParentPosition(doc, i) = CHOOSE j \in above : \A k \in above : k <= j
    BY <1>3 DEF ParentPosition, above
  <2>6. ParentPosition(doc, i) \in 1..(i - 1)
    BY <2>2, <2>4, <2>5
  <2> QED BY <1>1, <2>6
<1>4. ASSUME NEW i \in 1..Len(doc), doc[i].depth = 1 PROVE ParentPosition(doc, i) = 0
  BY <1>4 DEF ParentPosition
<1>5. \A i \in 1..Len(doc) : ParentPosition(doc, i) \in 0..Len(doc)
  BY <1>1, <1>3, <1>4
<1> QED BY <1>1, <1>2, <1>5

(* The row of one category, and the categories right below one. *)
RowOf(doc, i) ==
    [id        |-> doc[i].id,
     parent    |-> ParentOf(doc, i),
     sortOrder |-> Cardinality({j \in 1..(i - 1) : ParentPosition(doc, j) = ParentPosition(doc, i)})]

Under(doc, p) == {i \in DOMAIN doc : ParentOf(doc, i) = p}

(* The rows of those under p: as many, and numbered in the order of the     *)
(* text.                                                                   *)
LEMMA RowsUnder ==
    ASSUME NEW doc \in Files, Loadable(doc), NEW p
    PROVE  \A i \in Under(doc, p) :
              RowOf(doc, i).sortOrder = Cardinality(Ahead(i, Under(doc, p), Ascending(Under(doc, p))))
<1> SUFFICES ASSUME NEW i \in Under(doc, p)
             PROVE  {j \in 1..(i - 1) : ParentPosition(doc, j) = ParentPosition(doc, i)}
                       = Ahead(i, Under(doc, p), Ascending(Under(doc, p)))
  BY DEF RowOf
<1>1. /\ Len(doc) \in Nat /\ DOMAIN doc = 1..Len(doc)
      /\ \A j \in 1..Len(doc) : doc[j].id \in CategoryIds /\ ParentPosition(doc, j) \in 0..Len(doc)
      /\ \A j, k \in 1..Len(doc) : doc[j].id = doc[k].id => j = k
  BY DocFacts
<1>2. i \in 1..Len(doc) /\ ParentOf(doc, i) = p
  BY <1>1 DEF Under
<1>3. ASSUME NEW j \in 1..Len(doc)
      PROVE  ParentPosition(doc, j) = ParentPosition(doc, i) <=> ParentOf(doc, j) = ParentOf(doc, i)
  <2>1. ParentPosition(doc, j) = ParentPosition(doc, i) => ParentOf(doc, j) = ParentOf(doc, i)
    BY DEF ParentOf
  <2>2. ASSUME ParentOf(doc, j) = ParentOf(doc, i) PROVE ParentPosition(doc, j) = ParentPosition(doc, i)
    <3>1. PICK a, b : a = ParentPosition(doc, j) /\ b = ParentPosition(doc, i)
      OBVIOUS
    <3>2. a \in 0..Len(doc) /\ b \in 0..Len(doc)
      BY <1>1, <1>2, <3>1
    <3>3. /\ ParentOf(doc, j) = IF a = 0 THEN TopLevel ELSE doc[a].id
          /\ ParentOf(doc, i) = IF b = 0 THEN TopLevel ELSE doc[b].id
      BY <3>1 DEF ParentOf
    <3>4. (a # 0 => a \in 1..Len(doc)) /\ (b # 0 => b \in 1..Len(doc))
      BY <1>1, <3>2
    <3>5. TopLevel \notin CategoryIds
      BY PublicationAssumption
    <3>6. a = b
      BY <1>1, <2>2, <3>3, <3>4, <3>5
    <3> QED BY <3>1, <3>6
  <2> QED BY <2>1, <2>2
<1>4. ASSUME NEW j PROVE j \in Under(doc, p) /\ j < i <=> j \in 1..(i - 1) /\ ParentOf(doc, j) = p
  <2>1. j \in 1..Len(doc) /\ j < i <=> j \in 1..(i - 1)
    BY <1>1, <1>2
  <2> QED BY <1>1, <2>1 DEF Under
<1>5. Under(doc, p) \in SUBSET Int
  BY <1>1 DEF Under
<1>6. \A j \in Under(doc, p) : <<j, i>> \in Ascending(Under(doc, p)) <=> j < i
  BY <1>5, AscendingFacts
<1>7. Ahead(i, Under(doc, p), Ascending(Under(doc, p))) = {j \in Under(doc, p) : j < i}
  BY <1>6 DEF Ahead
<1>8. \A j \in 1..(i - 1) : j \in 1..Len(doc)
  BY <1>1, <1>2
<1> QED BY <1>2, <1>3, <1>4, <1>7, <1>8

(* The rows of a file, put together again, are the tree its author wrote. *)
LEMMA AssembledAsAuthored ==
    ASSUME NEW doc \in Files, Loadable(doc)
    PROVE  AssembleTree(InsertCategories(doc)) = AsAuthored(doc)
<1> DEFINE Rows == InsertCategories(doc)
           Children(p) == {r \in Rows : r.parent = p}
           Order(p) == {q \in Children(p) \X Children(p) : q[1].sortOrder < q[2].sortOrder}
           Built(p) == [i \in 1..Cardinality(Children(p)) |-> InOrder(Children(p), Order(p))[i].id]
           Written(p) == [k \in 1..Cardinality(Under(doc, p)) |->
                             doc[InOrder(Under(doc, p), Ascending(Under(doc, p)))[k]].id]
<1>1. AssembleTree(Rows) = [p \in CategoryIds \cup {TopLevel} |-> Built(p)]
  BY DEF AssembleTree
<1>2. AsAuthored(doc) = [p \in CategoryIds \cup {TopLevel} |-> Written(p)]
  BY DEF AsAuthored, Under
<1>3. ASSUME NEW p PROVE Built(p) = Written(p)
  <2>1. PICK S, T, order, other :
           /\ S = Under(doc, p) /\ T = Children(p)
           /\ order = Ascending(Under(doc, p)) /\ other = Order(p)
    OBVIOUS
  <2>2. /\ Len(doc) \in Nat /\ DOMAIN doc = 1..Len(doc)
        /\ \A i, j \in 1..Len(doc) : doc[i].id = doc[j].id => i = j
    BY DocFacts
  <2>3. S \in SUBSET (1..Len(doc)) /\ S \in SUBSET Int /\ IsFiniteSet(S)
    <3>1. S \in SUBSET (1..Len(doc))
      BY <2>1, <2>2 DEF Under
    <3>2. IsFiniteSet(1..Len(doc))
      BY <2>2, FS_Interval
    <3>3. IsFiniteSet(S)
      BY <3>1, <3>2, FS_Subset
    <3>4. 1..Len(doc) \in SUBSET Int
      BY <2>2
    <3> QED BY <3>1, <3>3, <3>4
  <2>4. Total(order, S) /\ \A i, j \in S : <<i, j>> \in order <=> i < j
    BY <2>1, <2>3, AscendingFacts
  <2>5. PICK f : f = [i \in S |-> RowOf(doc, i)]
    OBVIOUS
  <2>6. \A r : r \in T <=> \E i \in S : r = RowOf(doc, i)
    <3>1. Rows = {RowOf(doc, i) : i \in DOMAIN doc}
      BY DEF InsertCategories, RowOf
    <3>2. \A i : RowOf(doc, i).parent = ParentOf(doc, i)
      BY DEF RowOf
    <3>3. T = {r \in Rows : r.parent = p}
      BY <2>1
    <3> HIDE DEF Rows
    <3> QED BY <2>1, <3>1, <3>2, <3>3 DEF Under
  <2>7. f \in [S -> T] /\ \A y \in T : \E x \in S : f[x] = y
    BY <2>5, <2>6
  <2>8. ASSUME NEW i \in S, NEW j \in S PROVE <<i, j>> \in order <=> <<f[i], f[j]>> \in other
    <3>1. /\ f[i] \in T /\ f[j] \in T
          /\ f[i].sortOrder = Cardinality(Ahead(i, S, order))
          /\ f[j].sortOrder = Cardinality(Ahead(j, S, order))
      BY <2>1, <2>5, <2>7, RowsUnder
    <3>2. <<f[i], f[j]>> \in other <=> f[i].sortOrder < f[j].sortOrder
      BY <2>1, <3>1
    <3>3. /\ <<i, j>> \in order => f[i].sortOrder < f[j].sortOrder
          /\ <<j, i>> \in order => f[j].sortOrder < f[i].sortOrder
      BY <2>3, <2>4, <3>1, RankFacts
    <3>4. f[i].sortOrder \in Int /\ f[j].sortOrder \in Int
      <4>1. /\ Cardinality(Ahead(i, S, order)) \in 0..(Cardinality(S) - 1)
            /\ Cardinality(Ahead(j, S, order)) \in 0..(Cardinality(S) - 1)
        BY <2>3, <2>4, RankFacts
      <4> QED BY <3>1, <4>1
    <3>5. i = j \/ <<i, j>> \in order \/ <<j, i>> \in order
      BY <2>4 DEF Total
    <3>6. i = j => <<i, j>> \notin order /\ f[i].sortOrder = f[j].sortOrder
      BY <2>4 DEF Total
    <3>7. <<i, j>> \in order <=> f[i].sortOrder < f[j].sortOrder
      <4>1. PICK m \in Int, n \in Int : m = f[i].sortOrder /\ n = f[j].sortOrder
        BY <3>4
      <4>2. (i = j => m = n) /\ (<<j, i>> \in order => n < m) /\ (<<i, j>> \in order => m < n)
        BY <3>3, <3>6, <4>1
      <4>3. m < n => <<i, j>> \in order
        BY <3>5, <4>2
      <4> QED BY <4>1, <4>2, <4>3
    <3> QED BY <3>2, <3>7
  <2>9. /\ Cardinality(T) = Cardinality(S)
        /\ \A i \in 1..Cardinality(S) : InOrder(T, other)[i] = f[InOrder(S, order)[i]]
    <3>1. IsFiniteSet(S) /\ Total(order, S)
      BY <2>3, <2>4
    <3>2. \A i, j \in S : <<i, j>> \in order <=> <<f[i], f[j]>> \in other
      BY <2>8
    <3> HIDE DEF Rows, Children, Order, Built, Written
    <3> QED BY <2>7, <3>1, <3>2, OrderCarries
  <2>10. ASSUME NEW i \in 1..Cardinality(S)
        PROVE  InOrder(T, other)[i].id = doc[InOrder(S, order)[i]].id
    <3>1. InOrder(S, order)[i] \in S
      BY <2>3, <2>4, InOrderFacts
    <3>2. f[InOrder(S, order)[i]] = RowOf(doc, InOrder(S, order)[i])
      BY <2>5, <3>1
    <3> QED BY <2>9, <3>2 DEF RowOf
  <2>11. Built(p) = [i \in 1..Cardinality(T) |-> InOrder(T, other)[i].id]
    BY <2>1
  <2>12. Written(p) = [i \in 1..Cardinality(S) |-> doc[InOrder(S, order)[i]].id]
    BY <2>1
  <2> HIDE DEF Built, Written
  <2> QED BY <2>9, <2>10, <2>11, <2>12
<1> HIDE DEF Built, Written, Rows
<1> QED BY <1>1, <1>2, <1>3 DEF Rows

(* The rows a file that loads is published as, and what serves it. *)
Published == {InsertCategories(f) : f \in {g \in Files : Loadable(g)}}
Publications == [active : BOOLEAN, rows : Published]
Trees == {AsAuthored(f) : f \in {g \in Files : Loadable(g)}}

(* Only the last publication is active, every publication is of a file that *)
(* loads, and so is what the process was booted with.                      *)
PublicationInv ==
    /\ publications \in Seq(Publications)
    /\ \A i \in 1..Len(publications) : publications[i].active <=> i = Len(publications)
    /\ served \in Trees \cup {NotConfigured}

LEMMA PublicationsAre ==
    ASSUME PublicationInv
    PROVE  /\ Len(publications) \in Nat /\ DOMAIN publications = 1..Len(publications)
           /\ \A i \in 1..Len(publications) : publications[i].rows \in Published
           /\ Active = IF Len(publications) = 0 THEN {} ELSE {Len(publications)}
<1>1. publications \in Seq(Publications)
  BY DEF PublicationInv
<1>2. /\ Len(publications) \in Nat /\ DOMAIN publications = 1..Len(publications)
      /\ \A i \in 1..Len(publications) : publications[i] \in Publications
  BY <1>1
<1>3. \A i \in 1..Len(publications) : publications[i].rows \in Published
  BY <1>2 DEF Publications
<1>4. Active = {i \in 1..Len(publications) : i = Len(publications)}
  BY <1>2 DEF Active, PublicationInv
<1> QED BY <1>2, <1>3, <1>4

(* A publication of a file that loads. *)
LEMMA PublishKeeps ==
    ASSUME PublicationInv, NEW doc \in Files, Loadable(doc), Publish(doc)
    PROVE  /\ publications' \in Seq(Publications)
           /\ \A i \in 1..Len(publications') : publications'[i].active <=> i = Len(publications')
<1>1. /\ Len(publications) \in Nat /\ DOMAIN publications = 1..Len(publications)
      /\ \A i \in 1..Len(publications) : publications[i].rows \in Published
  BY PublicationsAre
<1>2. PICK old : old = [i \in DOMAIN publications |-> [publications[i] EXCEPT !.active = FALSE]]
  OBVIOUS
<1>3. PICK new : new = [active |-> TRUE, rows |-> InsertCategories(doc)]
  OBVIOUS
<1>4. publications' = Append(old, new)
  BY <1>2, <1>3 DEF Publish
<1>5. new \in Publications /\ new.active = TRUE
  BY <1>3 DEF Published, Publications
<1>6. ASSUME NEW i \in 1..Len(publications)
      PROVE  old[i] \in Publications /\ old[i].active = FALSE
  <2>1. publications[i] \in Publications
    <3>1. publications \in Seq(Publications)
      BY DEF PublicationInv
    <3> QED BY <3>1
  <2>2. old[i] = [publications[i] EXCEPT !.active = FALSE]
    BY <1>1, <1>2
  <2>3. old[i] = [active |-> FALSE, rows |-> publications[i].rows]
    BY <2>1, <2>2 DEF Publications
  <2> QED BY <1>1, <2>3 DEF Publications
<1>7. old \in Seq(Publications) /\ Len(old) = Len(publications)
  <2>1. old = [i \in 1..Len(publications) |-> old[i]]
    BY <1>1, <1>2
  <2>2. Len(publications) \in Nat /\ \A i \in 1..Len(publications) : old[i] \in Publications
    BY <1>1, <1>6
  <2> QED BY <2>1, <2>2
<1>8. PICK both : both = Append(old, new)
  OBVIOUS
<1>9. /\ both \in Seq(Publications)
      /\ Len(both) = Len(publications) + 1
      /\ \A i \in 1..Len(publications) : both[i] = old[i]
      /\ both[Len(publications) + 1] = new
  BY <1>5, <1>7, <1>8
<1>10. ASSUME NEW i \in 1..Len(both) PROVE both[i].active <=> i = Len(both)
  <2>1. CASE i \in 1..Len(publications)
    <3>1. both[i] = old[i]
      BY <1>9, <2>1
    <3>2. old[i].active = FALSE
      BY <1>6, <2>1
    <3>3. i # Len(both)
      BY <1>1, <1>9, <2>1
    <3> QED BY <3>1, <3>2, <3>3
  <2>2. CASE i = Len(publications) + 1
    <3>1. both[i].active = TRUE /\ i = Len(both)
      BY <1>5, <1>9, <2>2
    <3> QED BY <3>1
  <2> QED BY <1>1, <1>9, <2>1, <2>2
<1> QED BY <1>4, <1>8, <1>9, <1>10

LEMMA PublicationInductive == PublicationSpec => []PublicationInv
<1>1. PublicationInit => PublicationInv
  BY DEF PublicationInit, PublicationInv
<1>2. PublicationInv /\ [PublicationNext]_publicationVars => PublicationInv'
  <2> SUFFICES ASSUME PublicationInv, [PublicationNext]_publicationVars PROVE PublicationInv'
    OBVIOUS
  <2>1. ASSUME UNCHANGED publications, served' \in Trees \cup {NotConfigured} PROVE PublicationInv'
    BY <2>1 DEF PublicationInv
  <2>2. CASE EditFile
    BY <2>1, <2>2 DEF EditFile, PublicationInv
  <2>3. CASE ImportYaml
    <3>1. file \in Files /\ Loadable(file) /\ Publish(file) /\ served' = served
      BY <2>3 DEF ImportYaml, Readable
    <3> QED BY <3>1, PublishKeeps DEF PublicationInv
  <2>4. CASE Boot
    <3>1. CASE Active # {} /\ served' = GetActive /\ UNCHANGED publications
      <4>1. PICK i : i = (CHOOSE j \in Active : TRUE) /\ i \in Active
        BY <3>1
      <4>2. served' = AssembleTree(publications[i].rows)
        BY <3>1, <4>1 DEF GetActive
      <4>3. i \in 1..Len(publications) /\ publications[i].rows \in Published
        BY <4>1, PublicationsAre
      <4>4. PICK f \in Files : Loadable(f) /\ publications[i].rows = InsertCategories(f)
        BY <4>3 DEF Published
      <4>5. served' = AsAuthored(f)
        BY <4>2, <4>4, AssembledAsAuthored
      <4> QED BY <2>1, <3>1, <4>4, <4>5 DEF Trees
    <3>2. CASE served' = NotConfigured /\ UNCHANGED publications
      BY <2>1, <3>2
    <3>3. CASE Readable /\ Publish(file) /\ served' = AssembleTree(InsertCategories(file))
      <4>1. file \in Files /\ Loadable(file)
        BY <3>3 DEF Readable
      <4>2. served' = AsAuthored(file)
        BY <3>3, <4>1, AssembledAsAuthored
      <4>3. served' \in Trees
        BY <4>1, <4>2 DEF Trees
      <4> QED BY <3>3, <4>1, <4>3, PublishKeeps DEF PublicationInv
    <3> QED BY <2>4, <3>1, <3>2, <3>3 DEF Boot
  <2>5. CASE UNCHANGED publicationVars
    BY <2>1, <2>5 DEF publicationVars, PublicationInv
  <2> QED BY <2>2, <2>3, <2>4, <2>5 DEF PublicationNext
<1> QED BY <1>1, <1>2, PTL DEF PublicationSpec

(* Whatever the files hold and however often they are edited and imported,  *)
(* one publication is active as soon as there is any (publish of the        *)
(* taxonomy store), and what the running process classifies with is the     *)
(* tree an author wrote, taken apart into rows and put together again       *)
(* (_insert_categories and _assemble_tree).                                *)
THEOREM TaxonomyIsAsAuthored == PublicationSpec => []TaxonomyAsAuthored
<1>1. PublicationInv => TaxonomyAsAuthored
  <2> SUFFICES ASSUME PublicationInv PROVE TaxonomyAsAuthored
    OBVIOUS
  <2>1. publications # <<>> => Cardinality(Active) = 1
    <3> SUFFICES ASSUME publications # <<>> PROVE Cardinality(Active) = 1
      OBVIOUS
    <3>1. publications \in Seq(Publications)
      BY DEF PublicationInv
    <3>2. Len(publications) # 0
      BY <3>1
    <3>3. Active = {Len(publications)}
      BY <3>2, PublicationsAre
    <3> QED BY <3>3, FS_Singleton
  <2>2. served # NotConfigured => \E f \in Files : Loadable(f) /\ served = AsAuthored(f)
    BY DEF PublicationInv, Trees
  <2> QED BY <2>1, <2>2 DEF TaxonomyAsAuthored
<1> QED BY <1>1, PublicationInductive, PTL

-----------------------------------------------------------------------------
(* Questions.                                                              *)

Verdicts == [document : SearchedDocuments \cup {UnknownDocument}, seen : BOOLEAN]

QuestionRecords ==
    [kind : Questions, stage : {"idle", "retrieve", "check", "topics", "triples", "model", "done"},
     hits : Seq(Hit), verdicts : Seq(Verdicts),
     topics : SUBSET {<<ChunkTopic[c], c>> : c \in SearchedChunks},
     evidence : SUBSET SearchedDocuments, warned : SUBSET SearchedChunks,
     markers : SUBSET SearchedChunks]

Corpora ==
    [projected : SUBSET SearchedDocuments, chunks : SUBSET SearchedChunks,
     indexed : SUBSET SearchedChunks]

(* What the hits of a question show: no chunk twice, and each with its      *)
(* document, the chunk having been in the graph at some moment, or with     *)
(* none.                                                                   *)
AreFound(hits, chunks) ==
    /\ hits \in Seq(Hit)
    /\ \A i, j \in 1..Len(hits) : hits[i].chunk = hits[j].chunk => i = j
    /\ \A i \in 1..Len(hits) :
          \/ hits[i].document = UnknownDocument
          \/ hits[i].document = ChunkOwner[hits[i].chunk] /\ hits[i].chunk \in chunks

(* What was found of the caller's access holds of some moment. *)
VerdictsStood ==
    retrieval.enforced => \A d : [document |-> d, seen |-> TRUE] \in Range(question.verdicts) =>
                                    d \in during.shared

(* The stages a question has left are those it has results of. *)
StagesInOrder ==
    /\ question.stage = "idle" => question = NoQuestion
    /\ question.stage \in {"topics", "triples", "model", "done"} /\ retrieval.enforced =>
          \A h \in Range(question.hits) : h.document \in during.shared
    /\ question.stage \in {"topics", "triples", "model"} => question.hits # <<>>
    /\ question.stage # "done" =>
          question.topics = {} /\ question.markers = {} /\ question.warned = {}
    /\ question.stage \notin {"model", "done"} => question.evidence = {}
    /\ question.evidence \subseteq {h.document : h \in Range(question.hits)}
    /\ {t[2] : t \in question.topics} \subseteq CitedChunks
    /\ question.markers \subseteq CitedChunks \cup question.warned
    /\ question.hits = <<>> => question.markers = {} /\ question.evidence = {}

(* A moment of a question under way is remembered. *)
MomentsRemembered ==
    question.stage # "done" => corpus.chunks \subseteq during.chunks /\ shared \subseteq during.shared

(* In memory the chunks go with their documents. *)
ChunksGo ==
    retrieval.store = "memory" =>
       corpus.chunks \subseteq ChunksIn(corpus.projected) /\ during.chunks \subseteq ChunksIn(during.projected)

SearchInv ==
    /\ corpus \in Corpora /\ shared \subseteq SearchedDocuments
    /\ question \in QuestionRecords /\ during.shared \subseteq SearchedDocuments
    /\ AreFound(question.hits, during.chunks)
    /\ VerdictsStood /\ StagesInOrder /\ MomentsRemembered /\ ChunksGo

LEMMA OwnerFacts ==
    /\ Len(ChunkOwner) \in Nat /\ SearchedChunks = 1..Len(ChunkOwner)
    /\ \A c \in SearchedChunks : c \in Nat /\ ChunkOwner[c] \in SearchedDocuments
    /\ UnknownDocument \notin SearchedDocuments
    /\ IsFiniteSet(SearchedChunks)
<1>1. /\ Len(ChunkOwner) \in Nat /\ SearchedChunks = 1..Len(ChunkOwner)
      /\ \A c \in SearchedChunks : ChunkOwner[c] \in Nat \ {0}
  BY KnowledgeSearchAssumption DEF SearchedChunks
<1>2. \A c \in SearchedChunks : c \in Nat /\ ChunkOwner[c] \in SearchedDocuments
  BY <1>1 DEF SearchedDocuments
<1>3. UnknownDocument \notin SearchedDocuments
  BY <1>1 DEF SearchedDocuments, UnknownDocument
<1>4. IsFiniteSet(SearchedChunks)
  BY <1>1, FS_Interval
<1> QED BY <1>1, <1>2, <1>3, <1>4

(* What a retriever returns: chunks of the sequence it goes through that are *)
(* in the set it is restricted to, each once.                              *)
LEMMA RetrieverFacts ==
    ASSUME NEW words \in Orders \cup WordOrders, NEW R, NEW n \in Nat
    PROVE  LET few == FirstFew(Where(words, R), n)
           IN  few \in Seq(SearchedChunks) /\ IsInjective(few) /\ Range(few) \subseteq R
<1>1. words \in Seq(SearchedChunks) /\ IsInjective(words)
  BY KnowledgeSearchAssumption DEF SearchedChunks
<1> DEFINE found == Where(words, R)
<1>2. found \in Seq(SearchedChunks \cap R) /\ IsInjective(found)
  BY <1>1, WhereFacts
<1> HIDE DEF found
<1>3. FirstFew(found, n) \in Seq(SearchedChunks \cap R) /\ IsInjective(FirstFew(found, n))
  BY <1>2, FirstFewRows
<1>4. \A s \in Seq(SearchedChunks \cap R) : s \in Seq(SearchedChunks) /\ Range(s) \subseteq R
  <2> TAKE s \in Seq(SearchedChunks \cap R)
  <2>1. Len(s) \in Nat /\ DOMAIN s = 1..Len(s) /\ \A i \in 1..Len(s) : s[i] \in SearchedChunks \cap R
    OBVIOUS
  <2>2. s \in Seq(SearchedChunks)
    BY <2>1
  <2> QED BY <2>1, <2>2 DEF Range
<1> QED BY <1>3, <1>4 DEF found

LEMMA ScoreIsNumber ==
    ASSUME NEW ranking \in Seq(SearchedChunks), NEW c
    PROVE  FusedScore(ranking, c) \in Int
<1>1. CASE c \in Range(ranking)
  <2>1. DOMAIN ranking = 1..Len(ranking) /\ Len(ranking) \in Nat
    OBVIOUS
  <2>2. \E r \in 1..Len(ranking) : ranking[r] = c
    BY <1>1, <2>1 DEF Range
  <2>3. PICK r \in 1..Len(ranking) : r = CHOOSE i \in 1..Len(ranking) : ranking[i] = c
    BY <2>2
  <2>4. FusedScore(ranking, c) = Scale \div (RrfK + r)
    BY <1>1, <2>3 DEF FusedScore
  <2>5. Scale \in Nat /\ RrfK \in Nat /\ RrfK + r \in Nat /\ RrfK + r > 0
    BY <2>1, KnowledgeSearchAssumption
  <2>6. Scale \div (RrfK + r) \in Int
    BY <2>5
  <2> QED BY <2>4, <2>6
<1>2. CASE c \notin Range(ranking)
  BY <1>2 DEF FusedScore
<1> QED BY <1>1, <1>2

(* The fusion of two rankings has what either of them has, once.           *)
LEMMA FuseFacts ==
    ASSUME NEW a \in Seq(SearchedChunks), NEW b \in Seq(SearchedChunks)
    PROVE  Fuse(a, b) \in Seq(SearchedChunks) /\ IsInjective(Fuse(a, b))
<1> DEFINE found == Range(a) \cup Range(b)
           score(c) == FusedScore(a, c) + FusedScore(b, c)
           before(c, d) == score(c) > score(d) \/ (score(c) = score(d) /\ c < d)
           order == {p \in found \X found : before(p[1], p[2])}
<1>1. \A s \in Seq(SearchedChunks) : Range(s) \in SUBSET SearchedChunks
  <2> TAKE s \in Seq(SearchedChunks)
  <2>1. DOMAIN s = 1..Len(s) /\ \A i \in 1..Len(s) : s[i] \in SearchedChunks
    OBVIOUS
  <2> QED BY <2>1 DEF Range
<1>2. found \in SUBSET SearchedChunks
  BY <1>1
<1>3. IsFiniteSet(found)
  BY <1>2, OwnerFacts, FS_Subset
<1>4. \A c \in found : c \in Int
  BY <1>2, OwnerFacts
<1>5. Fuse(a, b) = InOrder(found, order)
  BY DEF Fuse
<1>6. \A c, d \in found : <<c, d>> \in order <=> before(c, d)
  OBVIOUS
<1> HIDE DEF found, order
<1>7. Total(order, found)
  <2>1. ASSUME NEW c \in found, NEW d \in found, NEW e \in found
        PROVE  /\ <<c, c>> \notin order
               /\ <<c, d>> \in order /\ <<d, e>> \in order => <<c, e>> \in order
               /\ c = d \/ <<c, d>> \in order \/ <<d, c>> \in order
    <3>1. PICK x \in Int, y \in Int, z \in Int : x = score(c) /\ y = score(d) /\ z = score(e)
      <4>1. /\ FusedScore(a, c) \in Int /\ FusedScore(b, c) \in Int
            /\ FusedScore(a, d) \in Int /\ FusedScore(b, d) \in Int
            /\ FusedScore(a, e) \in Int /\ FusedScore(b, e) \in Int
        BY ScoreIsNumber
      <4> QED BY <4>1
    <3>2. c \in Int /\ d \in Int /\ e \in Int
      BY <1>4
    <3>3. /\ <<c, c>> \in order <=> x > x \/ (x = x /\ c < c)
          /\ <<c, d>> \in order <=> x > y \/ (x = y /\ c < d)
          /\ <<d, c>> \in order <=> y > x \/ (y = x /\ d < c)
          /\ <<d, e>> \in order <=> y > z \/ (y = z /\ d < e)
          /\ <<c, e>> \in order <=> x > z \/ (x = z /\ c < e)
      BY <1>6, <3>1
    <3> HIDE DEF score, before
    <3> QED BY <3>2, <3>3
  <2> QED BY <2>1 DEF Total
<1>8. InOrder(found, order) \in Seq(found) /\ IsInjective(InOrder(found, order))
  BY <1>3, <1>7, InOrderFacts, InOrderOnce
<1>9. Seq(found) \subseteq Seq(SearchedChunks)
  BY <1>2
<1> QED BY <1>5, <1>8, <1>9

(* What one statement of a question finds. *)
FoundBy(order, words) == IF retrieval.hybrid THEN HybridSearch(order, words) ELSE PlainSearch(order)

LEMMA RetrieveFinds ==
    ASSUME NEW order \in Orders, NEW words \in WordOrders, corpus \in Corpora
    PROVE  AreFound(FoundBy(order, words), corpus.chunks)
<1>1. SearchLimit \in Nat /\ CandidatePool \in Nat
  BY KnowledgeSearchAssumption
<1>2. ASSUME NEW chunks \in Seq(SearchedChunks), IsInjective(chunks),
             NEW found \in Seq(SearchedChunks), Range(found) \subseteq corpus.chunks,
             NEW hits, hits = [i \in 1..Len(chunks) |-> HitOf(chunks[i], found)]
      PROVE  AreFound(hits, corpus.chunks)
  <2>1. Len(chunks) \in Nat /\ DOMAIN chunks = 1..Len(chunks) /\ \A i \in 1..Len(chunks) : chunks[i] \in SearchedChunks
    OBVIOUS
  <2>2. ASSUME NEW c \in SearchedChunks
        PROVE  /\ HitOf(c, found) \in Hit /\ HitOf(c, found).chunk = c
               /\ \/ HitOf(c, found).document = UnknownDocument
                  \/ HitOf(c, found).document = ChunkOwner[c] /\ c \in corpus.chunks
    <3>1. CASE c \in Range(found)
      <4>1. HitOf(c, found) = [chunk |-> c, document |-> ChunkOwner[c]] /\ c \in corpus.chunks
        BY <1>2, <3>1 DEF HitOf
      <4> QED BY <4>1, OwnerFacts DEF Hit
    <3>2. CASE c \notin Range(found)
      <4>1. HitOf(c, found) = [chunk |-> c, document |-> UnknownDocument]
        BY <3>2 DEF HitOf
      <4> QED BY <4>1 DEF Hit
    <3> QED BY <3>1, <3>2
  <2>3. \A i \in 1..Len(chunks) : hits[i] = HitOf(chunks[i], found) /\ hits[i] \in Hit
    BY <1>2, <2>1, <2>2
  <2>4. hits \in Seq(Hit) /\ Len(hits) = Len(chunks)
    <3>1. hits = [i \in 1..Len(chunks) |-> hits[i]]
      BY <1>2
    <3> QED BY <2>1, <2>3, <3>1
  <2>5. ASSUME NEW i \in 1..Len(hits), NEW j \in 1..Len(hits), hits[i].chunk = hits[j].chunk PROVE i = j
    <3>1. chunks[i] = chunks[j]
      BY <2>1, <2>2, <2>3, <2>4, <2>5
    <3> QED BY <1>2, <2>1, <2>4, <3>1 DEF IsInjective
  <2>6. ASSUME NEW i \in 1..Len(hits)
        PROVE  \/ hits[i].document = UnknownDocument
               \/ hits[i].document = ChunkOwner[hits[i].chunk] /\ hits[i].chunk \in corpus.chunks
    BY <2>1, <2>2, <2>3, <2>4
  <2> QED BY <2>4, <2>5, <2>6 DEF AreFound
<1>3. ASSUME NEW n \in Nat
      PROVE  /\ VectorSearch(order, n) \in Seq(SearchedChunks) /\ IsInjective(VectorSearch(order, n))
             /\ Range(VectorSearch(order, n)) \subseteq corpus.chunks
             /\ LexicalSearch(words, n) \in Seq(SearchedChunks)
  BY RetrieverFacts DEF VectorSearch, LexicalSearch
<1>4. CASE retrieval.hybrid
  <2> DEFINE found == VectorSearch(order, CandidatePool)
             fused == Fuse(found, LexicalSearch(words, CandidatePool))
             first == FirstFew(fused, SearchLimit)
  <2>1. found \in Seq(SearchedChunks) /\ Range(found) \subseteq corpus.chunks
    BY <1>1, <1>3
  <2>2. fused \in Seq(SearchedChunks) /\ IsInjective(fused)
    BY <1>1, <1>3, FuseFacts
  <2>3. FoundBy(order, words) = [i \in 1..Len(first) |-> HitOf(fused[i], found)]
    BY <1>4 DEF FoundBy, HybridSearch
  <2> HIDE DEF found, fused
  <2>4. /\ first \in Seq(SearchedChunks) /\ IsInjective(first)
        /\ \A i \in 1..Len(first) : first[i] = fused[i]
    BY <1>1, <2>2, FirstFewRows
  <2> HIDE DEF first
  <2>5. FoundBy(order, words) = [i \in 1..Len(first) |-> HitOf(first[i], found)]
    BY <2>3, <2>4
  <2> QED BY <1>2, <2>1, <2>4, <2>5
<1>5. CASE ~retrieval.hybrid
  <2> DEFINE found == VectorSearch(order, SearchLimit)
  <2>1. /\ found \in Seq(SearchedChunks) /\ IsInjective(found)
        /\ Range(found) \subseteq corpus.chunks
    BY <1>1, <1>3
  <2>2. FoundBy(order, words) = [i \in 1..Len(found) |-> HitOf(found[i], found)]
    BY <1>5 DEF FoundBy, PlainSearch
  <2> HIDE DEF found
  <2> QED BY <1>2, <2>1, <2>2
<1> QED BY <1>4, <1>5

(* The corpus and the shared documents stay of their kinds, and what was    *)
(* the case at the moments of a question is only added to.                 *)
LEMMA MomentFacts ==
    ASSUME SearchInv, SearchNext
    PROVE  /\ corpus' \in Corpora /\ shared' \subseteq SearchedDocuments /\ retrieval' = retrieval
           /\ during'.shared \subseteq SearchedDocuments /\ ChunksGo'
           /\ question.stage = "done" /\ question' = question => during' = during
           /\ ~(question.stage = "done" /\ question' = question) =>
                 corpus'.chunks \subseteq during'.chunks /\ shared' \subseteq during'.shared
           /\ question.stage \notin {"idle", "done"} =>
                 during.chunks \subseteq during'.chunks /\ during.shared \subseteq during'.shared
<1>1. /\ corpus \in Corpora /\ shared \subseteq SearchedDocuments /\ during.shared \subseteq SearchedDocuments
      /\ ChunksGo
  BY DEF SearchInv
<1>2. /\ corpus' \in Corpora /\ shared' \subseteq SearchedDocuments /\ retrieval' = retrieval
      /\ retrieval.store = "memory" => corpus'.chunks \subseteq ChunksIn(corpus'.projected)
  <2>1. CASE UNCHANGED <<retrieval, corpus, shared>>
    BY <1>1, <2>1 DEF ChunksGo
  <2>2. CASE ProjectSearched
    <3>1. PICK d, more :
             /\ d \in SearchedDocuments
             /\ more = ChunksIn({d})
             /\ corpus' = [corpus EXCEPT !.projected = @ \cup {d}, !.chunks = @ \cup more]
      BY <2>2 DEF ProjectSearched
    <3>2. more \in SUBSET SearchedChunks
      BY <3>1 DEF ChunksIn
    <3>3. /\ corpus' \in Corpora /\ corpus'.projected = corpus.projected \cup {d}
          /\ corpus'.chunks = corpus.chunks \cup more
      BY <1>1, <3>1, <3>2 DEF Corpora
    <3>4. ChunksIn(corpus.projected) \cup more \subseteq ChunksIn(corpus'.projected)
      BY <3>1, <3>3 DEF ChunksIn
    <3> QED BY <1>1, <2>2, <3>3, <3>4 DEF ChunksGo, ProjectSearched
  <2>3. CASE DropSearched
    <3>1. PICK d, left :
             /\ left = IF retrieval.store = "memory" THEN corpus.chunks \ ChunksIn({d}) ELSE corpus.chunks
             /\ corpus' = [corpus EXCEPT !.projected = @ \ {d}, !.chunks = left]
      BY <2>3 DEF DropSearched
    <3>2. /\ corpus' \in Corpora /\ corpus'.projected = corpus.projected \ {d} /\ corpus'.chunks = left
      <4>1. left \in SUBSET SearchedChunks
        BY <1>1, <3>1 DEF Corpora
      <4> QED BY <1>1, <3>1, <4>1 DEF Corpora
    <3>3. ChunksIn(corpus.projected) \ ChunksIn({d}) \subseteq ChunksIn(corpus'.projected)
      BY <3>2 DEF ChunksIn
    <3> QED BY <1>1, <2>3, <3>1, <3>2, <3>3 DEF ChunksGo, DropSearched
  <2>4. CASE ShareOrUnshare
    BY <1>1, <2>4 DEF ShareOrUnshare, ChunksGo
  <2>5. CASE SearchRestart
    <3>1. NothingProjected \in Corpora /\ NothingProjected.chunks = {}
      BY DEF NothingProjected, Corpora
    <3>2. CASE retrieval.store = "memory"
      <4>1. corpus' = NothingProjected
        BY <2>5, <3>2 DEF SearchRestart
      <4> QED BY <1>1, <2>5, <3>1, <4>1 DEF SearchRestart
    <3>3. CASE retrieval.store # "memory"
      <4>1. PICK indexed \in SUBSET SearchedChunks : corpus' = [corpus EXCEPT !.indexed = indexed]
        <5>1. corpus.chunks \cap Previewed \in SUBSET SearchedChunks
          BY <1>1 DEF Corpora
        <5> QED BY <2>5, <3>3, <5>1 DEF SearchRestart
      <4>2. corpus' \in Corpora
        BY <1>1, <4>1 DEF Corpora
      <4> QED BY <1>1, <2>5, <3>3, <4>2 DEF SearchRestart
    <3> QED BY <3>2, <3>3
  <2> QED
    BY <2>1, <2>2, <2>3, <2>4, <2>5
       DEF SearchNext, AskQuestion, Retrieve, CheckAccess, KeepAccessible, GroupByTopic, CollectTriples, ModelAnswers
<1>3. IF question.stage = "done" /\ question' = question THEN UNCHANGED during ELSE Remember
  BY DEF SearchNext
<1>4. CASE question.stage = "done" /\ question' = question
  BY <1>1, <1>2, <1>3, <1>4 DEF ChunksGo
<1>5. CASE ~(question.stage = "done" /\ question' = question)
  <2>1. Remember
    BY <1>3, <1>5
  <2>2. CASE question.stage \in {"idle", "done"}
    <3>1. during' = [shared |-> shared', projected |-> corpus'.projected, chunks |-> corpus'.chunks]
      BY <2>1, <2>2 DEF Remember
    <3>2. during'.shared = shared' /\ during'.projected = corpus'.projected /\ during'.chunks = corpus'.chunks
      BY <3>1
    <3>3. ChunksGo'
      BY <1>2, <3>2 DEF ChunksGo
    <3> QED BY <1>2, <1>5, <2>2, <3>2, <3>3
  <2>3. CASE question.stage \notin {"idle", "done"}
    <3>1. during' = [shared |-> during.shared \cup shared',
                     projected |-> during.projected \cup corpus'.projected,
                     chunks |-> during.chunks \cup corpus'.chunks]
      BY <2>1, <2>3 DEF Remember
    <3>2. /\ during'.shared = during.shared \cup shared'
          /\ during'.projected = during.projected \cup corpus'.projected
          /\ during'.chunks = during.chunks \cup corpus'.chunks
      BY <3>1
    <3>3. ChunksIn(during.projected) \cup ChunksIn(corpus'.projected) \subseteq ChunksIn(during'.projected)
      BY <3>2 DEF ChunksIn
    <3>4. ChunksGo'
      BY <1>1, <1>2, <3>2, <3>3 DEF ChunksGo
    <3> QED BY <1>1, <1>2, <1>5, <2>3, <3>2, <3>4
  <2> QED BY <2>2, <2>3
<1> QED BY <1>4, <1>5

(* A question that has just been asked, or of which nothing is left. *)
JustAsked(kind) == [NoQuestion EXCEPT !.kind = kind, !.stage = "retrieve"]
Blanks == {NoQuestion} \cup {JustAsked(kind) : kind \in Questions}

LEMMA BlankFacts ==
    ASSUME NEW q \in Blanks
    PROVE  /\ q \in QuestionRecords /\ q.stage \in {"idle", "retrieve"} /\ (q.stage = "idle" => q = NoQuestion)
           /\ q.hits = <<>> /\ q.verdicts = <<>>
           /\ q.topics = {} /\ q.evidence = {} /\ q.warned = {} /\ q.markers = {}
<1>1. <<>> \in Seq(Hit) /\ <<>> \in Seq(Verdicts)
  OBVIOUS
<1>2. NoQuestion \in QuestionRecords
  BY <1>1 DEF NoQuestion, QuestionRecords, Questions
<1>3. /\ NoQuestion.hits = <<>> /\ NoQuestion.verdicts = <<>> /\ NoQuestion.topics = {}
      /\ NoQuestion.evidence = {} /\ NoQuestion.warned = {} /\ NoQuestion.markers = {}
      /\ NoQuestion.stage = "idle"
  BY DEF NoQuestion
<1>4. CASE q = NoQuestion
  BY <1>2, <1>3, <1>4
<1>5. CASE \E kind \in Questions : q = JustAsked(kind)
  <2>1. PICK kind \in Questions : q = JustAsked(kind)
    BY <1>5
  <2>2. /\ q \in QuestionRecords /\ q.stage = "retrieve" /\ q.hits = NoQuestion.hits
        /\ q.verdicts = NoQuestion.verdicts /\ q.topics = NoQuestion.topics
        /\ q.evidence = NoQuestion.evidence /\ q.warned = NoQuestion.warned
        /\ q.markers = NoQuestion.markers
    BY <1>2, <2>1 DEF JustAsked, QuestionRecords
  <2> QED BY <1>3, <2>2
<1> QED BY <1>4, <1>5 DEF Blanks

(* Nothing asked: nothing to be answered for. *)
LEMMA NothingAnswered ==
    ASSUME question' \in Blanks
    PROVE  question' \in QuestionRecords /\ AreFound(question'.hits, during'.chunks) /\ VerdictsStood' /\ StagesInOrder'
<1>1. /\ question' \in QuestionRecords
      /\ question'.stage \in {"idle", "retrieve"} /\ (question'.stage = "idle" => question' = NoQuestion)
      /\ question'.hits = <<>> /\ question'.verdicts = <<>>
      /\ question'.topics = {} /\ question'.evidence = {} /\ question'.warned = {} /\ question'.markers = {}
  BY BlankFacts
<1>2. <<>> \in Seq(Hit) /\ Len(<<>>) = 0 /\ DOMAIN <<>> = {}
  OBVIOUS
<1>3. AreFound(question'.hits, during'.chunks)
  BY <1>1, <1>2 DEF AreFound
<1>4. VerdictsStood'
  BY <1>1, <1>2 DEF VerdictsStood, Range
<1>5. StagesInOrder'
  BY <1>1 DEF StagesInOrder, CitedChunks
<1> QED BY <1>1, <1>3, <1>4, <1>5

(* What was said of the moments of a question goes on to hold as moments    *)
(* are added.                                                              *)
LEMMA AnswerStays ==
    ASSUME SearchInv, SearchNext, question' = question
    PROVE  SearchInv'
<1>1. /\ corpus' \in Corpora /\ shared' \subseteq SearchedDocuments /\ retrieval' = retrieval
      /\ during'.shared \subseteq SearchedDocuments /\ ChunksGo'
      /\ question.stage = "done" => during' = during
      /\ question.stage # "done" =>
            corpus'.chunks \subseteq during'.chunks /\ shared' \subseteq during'.shared
      /\ question.stage \notin {"idle", "done"} =>
            during.chunks \subseteq during'.chunks /\ during.shared \subseteq during'.shared
  BY MomentFacts
<1>2. question \in QuestionRecords /\ AreFound(question.hits, during.chunks) /\ VerdictsStood /\ StagesInOrder
  BY DEF SearchInv
<1>3. MomentsRemembered'
  BY <1>1 DEF MomentsRemembered
<1>4. CASE question.stage = "idle"
  <2>1. question' = NoQuestion
    BY <1>2, <1>4 DEF StagesInOrder
  <2>2. question' \in QuestionRecords /\ AreFound(question'.hits, during'.chunks) /\ VerdictsStood' /\ StagesInOrder'
    BY <2>1, NothingAnswered DEF Blanks
  <2> QED BY <1>1, <1>3, <2>2 DEF SearchInv
<1>5. CASE question.stage # "idle"
  <2>1. during.chunks \subseteq during'.chunks /\ during.shared \subseteq during'.shared
    BY <1>1, <1>5
  <2>2. AreFound(question'.hits, during'.chunks)
    BY <1>2, <2>1 DEF AreFound
  <2>3. VerdictsStood'
    BY <1>1, <1>2, <2>1 DEF VerdictsStood
  <2>4. StagesInOrder'
    BY <1>1, <1>2, <2>1 DEF StagesInOrder, CitedChunks
  <2> QED BY <1>1, <1>2, <1>3, <2>2, <2>3, <2>4 DEF SearchInv
<1> QED BY <1>4, <1>5

LEMMA RetrieveKeeps == ASSUME SearchInv, SearchNext, Retrieve PROVE SearchInv'
<1>1. /\ corpus' \in Corpora /\ shared' \subseteq SearchedDocuments /\ retrieval' = retrieval
      /\ during'.shared \subseteq SearchedDocuments /\ ChunksGo'
      /\ corpus'.chunks \subseteq during'.chunks /\ shared' \subseteq during'.shared
      /\ during.shared \subseteq during'.shared
  <2>1. question.stage = "retrieve"
    BY DEF Retrieve
  <2> QED BY <2>1, MomentFacts
<1>2. question \in QuestionRecords /\ VerdictsStood /\ StagesInOrder /\ corpus \in Corpora /\ corpus' = corpus
  BY DEF SearchInv, Retrieve
<1>3. MomentsRemembered'
  BY <1>1 DEF MomentsRemembered
<1>4. CASE question' = NoQuestion
  <2>1. question' \in QuestionRecords /\ AreFound(question'.hits, during'.chunks) /\ VerdictsStood' /\ StagesInOrder'
    BY <1>4, NothingAnswered DEF Blanks
  <2> QED BY <1>1, <1>3, <2>1 DEF SearchInv
<1>5. CASE \E order \in Orders, words \in WordOrders :
              question' = [question EXCEPT !.stage = "check", !.hits = FoundBy(order, words)]
  <2>1. PICK order \in Orders, words \in WordOrders :
           question' = [question EXCEPT !.stage = "check", !.hits = FoundBy(order, words)]
    BY <1>5
  <2>2. PICK hits : hits = FoundBy(order, words)
    OBVIOUS
  <2>3. AreFound(hits, corpus.chunks)
    BY <1>2, <2>2, RetrieveFinds
  <2>4. /\ question' = [question EXCEPT !.stage = "check", !.hits = hits] /\ hits \in Seq(Hit)
        /\ AreFound(hits, during'.chunks)
    BY <1>1, <1>2, <2>1, <2>2, <2>3 DEF AreFound
  <2>5. /\ question' \in QuestionRecords /\ question'.stage = "check" /\ question'.hits = hits
        /\ question'.verdicts = question.verdicts /\ question'.topics = question.topics
        /\ question'.evidence = question.evidence /\ question'.warned = question.warned
        /\ question'.markers = question.markers
    BY <1>2, <2>4 DEF QuestionRecords
  <2>6. VerdictsStood'
    BY <1>1, <1>2, <2>5 DEF VerdictsStood
  <2>7. question.stage = "retrieve"
    BY DEF Retrieve
  <2>8. StagesInOrder'
    BY <1>2, <2>5, <2>7 DEF StagesInOrder, CitedChunks
  <2> QED BY <1>1, <1>3, <2>4, <2>5, <2>6, <2>8 DEF SearchInv
<1> QED BY <1>4, <1>5 DEF Retrieve, FoundBy

LEMMA CheckAccessKeeps == ASSUME SearchInv, SearchNext, CheckAccess PROVE SearchInv'
<1>1. question.stage = "check" /\ Unchecked # {} /\ shared' = shared
  BY DEF CheckAccess
<1>2. /\ corpus' \in Corpora /\ shared' \subseteq SearchedDocuments /\ retrieval' = retrieval
      /\ during'.shared \subseteq SearchedDocuments /\ ChunksGo'
      /\ corpus'.chunks \subseteq during'.chunks /\ shared' \subseteq during'.shared
      /\ during.chunks \subseteq during'.chunks /\ during.shared \subseteq during'.shared
  BY <1>1, MomentFacts
<1>3. /\ question \in QuestionRecords /\ AreFound(question.hits, during.chunks)
      /\ VerdictsStood /\ StagesInOrder
  BY DEF SearchInv
<1>4. MomentsRemembered'
  BY <1>2 DEF MomentsRemembered
<1>5. PICK d : d = FirstUnchecked.document
  OBVIOUS
<1>6. PICK v : v = [document |-> d, seen |-> ~retrieval.enforced \/ d \in shared]
  OBVIOUS
<1>7. question' = [question EXCEPT !.verdicts = Append(question.verdicts, v)]
  BY <1>5, <1>6 DEF CheckAccess
<1>8. d \in SearchedDocuments \cup {UnknownDocument}
  <2>1. question.hits \in Seq(Hit)
    BY <1>3 DEF AreFound
  <2>2. DOMAIN question.hits = 1..Len(question.hits) /\ Len(question.hits) \in Nat
    BY <2>1
  <2>3. \E i \in 1..Len(question.hits) : /\ question.hits[i] \in Unchecked
                                         /\ \A j \in 1..(i - 1) : question.hits[j] \notin Unchecked
    <3> DEFINE places == {i \in 1..Len(question.hits) : question.hits[i] \in Unchecked}
    <3>1. places \in SUBSET Nat /\ places # {}
      BY <1>1, <2>2 DEF Unchecked, Range
    <3>2. PICK i \in places : \A j \in places : i <= j
      BY <3>1, LeastOf
    <3>3. \A j \in 1..(i - 1) : question.hits[j] \notin Unchecked
      <4> TAKE j \in 1..(i - 1)
      <4>1. j \in 1..Len(question.hits) /\ ~(i <= j)
        BY <2>2
      <4> QED BY <3>2, <4>1
    <3> QED BY <3>3
  <2>4. PICK i \in 1..Len(question.hits) : FirstUnchecked = question.hits[i]
    BY <2>3 DEF FirstUnchecked
  <2>5. question.hits[i] \in Hit
    BY <2>1
  <2> QED BY <1>5, <2>4, <2>5 DEF Hit
<1>9. v \in Verdicts
  BY <1>6, <1>8 DEF Verdicts
<1>10. PICK verdicts : verdicts = Append(question.verdicts, v)
  OBVIOUS
<1>11. /\ question.verdicts \in Seq(Verdicts) /\ verdicts \in Seq(Verdicts)
       /\ Range(verdicts) = Range(question.verdicts) \cup {v}
  <2>1. question.verdicts \in Seq(Verdicts)
    BY <1>3 DEF QuestionRecords
  <2>2. /\ verdicts \in Seq(Verdicts) /\ DOMAIN verdicts = 1..(Len(question.verdicts) + 1)
        /\ DOMAIN question.verdicts = 1..Len(question.verdicts) /\ Len(question.verdicts) \in Nat
        /\ \A i \in 1..Len(question.verdicts) : verdicts[i] = question.verdicts[i]
        /\ verdicts[Len(question.verdicts) + 1] = v
    BY <1>9, <1>10, <2>1
  <2>3. \A i \in 1..(Len(question.verdicts) + 1) :
           i \in 1..Len(question.verdicts) \/ i = Len(question.verdicts) + 1
    BY <2>2
  <2>4. /\ 1..Len(question.verdicts) \subseteq 1..(Len(question.verdicts) + 1)
        /\ Len(question.verdicts) + 1 \in 1..(Len(question.verdicts) + 1)
    BY <2>2
  <2> QED BY <2>1, <2>2, <2>3, <2>4 DEF Range
<1>12. /\ question' \in QuestionRecords /\ question'.stage = "check" /\ question'.hits = question.hits
       /\ question'.verdicts = verdicts /\ question'.topics = question.topics
       /\ question'.evidence = question.evidence /\ question'.warned = question.warned
       /\ question'.markers = question.markers
  BY <1>1, <1>3, <1>7, <1>10, <1>11 DEF QuestionRecords
<1>13. VerdictsStood'
  <2> SUFFICES ASSUME retrieval.enforced, NEW e, [document |-> e, seen |-> TRUE] \in Range(verdicts)
               PROVE  e \in during'.shared
    BY <1>2, <1>12 DEF VerdictsStood
  <2>1. CASE [document |-> e, seen |-> TRUE] \in Range(question.verdicts)
    BY <1>2, <1>3, <2>1 DEF VerdictsStood
  <2>2. CASE [document |-> e, seen |-> TRUE] = v
    <3>1. PICK seen : seen = (~retrieval.enforced \/ d \in shared)
      OBVIOUS
    <3>2. v = [document |-> d, seen |-> seen]
      BY <1>6, <3>1
    <3>3. e = d /\ seen = TRUE
      BY <2>2, <3>2
    <3>4. e \in shared
      BY <3>1, <3>3
    <3> QED BY <1>1, <1>2, <3>4
  <2> QED BY <1>11, <2>1, <2>2
<1>14. AreFound(question'.hits, during'.chunks)
  BY <1>2, <1>3, <1>12 DEF AreFound
<1>15. StagesInOrder'
  BY <1>1, <1>3, <1>12 DEF StagesInOrder, CitedChunks
<1> QED BY <1>2, <1>4, <1>12, <1>13, <1>14, <1>15 DEF SearchInv

LEMMA KeepAccessibleKeeps == ASSUME SearchInv, SearchNext, KeepAccessible PROVE SearchInv'
<1>1. question.stage = "check" /\ Unchecked = {}
  BY DEF KeepAccessible
<1>2. /\ corpus' \in Corpora /\ shared' \subseteq SearchedDocuments /\ retrieval' = retrieval
      /\ during'.shared \subseteq SearchedDocuments /\ ChunksGo'
      /\ corpus'.chunks \subseteq during'.chunks /\ shared' \subseteq during'.shared
      /\ during.chunks \subseteq during'.chunks /\ during.shared \subseteq during'.shared
  BY <1>1, MomentFacts
<1>3. /\ question \in QuestionRecords /\ AreFound(question.hits, during.chunks)
      /\ VerdictsStood /\ StagesInOrder
  BY DEF SearchInv
<1>4. MomentsRemembered'
  BY <1>2 DEF MomentsRemembered
<1>5. PICK kept : kept = Where(question.hits, {h \in Range(question.hits) : MayBeShown(h)})
  OBVIOUS
<1>6. PICK stage : stage = IF question.kind = "search" \/ kept = <<>> THEN "done"
                           ELSE CASE question.kind = "explore"    -> "topics"
                                  [] question.kind = "chat"       -> "model"
                                  [] question.kind = "graph_chat" -> "triples"
  OBVIOUS
<1>7. question' = [question EXCEPT !.hits = kept, !.verdicts = <<>>, !.stage = stage]
  BY <1>5, <1>6 DEF KeepAccessible
<1>8. stage \in {"done", "topics", "model", "triples"} /\ (stage # "done" => kept # <<>>)
  <2>1. question.kind \in Questions
    BY <1>3 DEF QuestionRecords
  <2>2. CASE question.kind = "search" \/ kept = <<>>
    BY <1>6, <2>2
  <2>3. CASE ~(question.kind = "search" \/ kept = <<>>)
    <3>1. question.kind \in {"explore", "chat", "graph_chat"}
      BY <2>1, <2>3 DEF Questions
    <3>2. stage \in {"topics", "model", "triples"}
      BY <1>6, <2>3, <3>1
    <3> QED BY <2>3, <3>2
  <2> QED BY <2>2, <2>3
<1>9. question.hits \in Seq(Hit)
  BY <1>3 DEF AreFound
<1>10. /\ kept \in Seq(Hit) /\ Range(kept) \subseteq Range(question.hits)
       /\ \A h \in Range(kept) : MayBeShown(h)
  <2>1. PICK R : R = {h \in Range(question.hits) : MayBeShown(h)}
    OBVIOUS
  <2>2. kept \in Seq(Hit \cap R) /\ Range(kept) = Range(question.hits) \cap R
    BY <1>5, <1>9, <2>1, WhereFacts
  <2>3. kept \in Seq(Hit)
    BY <2>2
  <2> QED BY <2>1, <2>2, <2>3
<1>11. /\ question' \in QuestionRecords /\ question'.stage = stage /\ question'.hits = kept
       /\ question'.verdicts = <<>> /\ question'.topics = question.topics
       /\ question'.evidence = question.evidence /\ question'.warned = question.warned
       /\ question'.markers = question.markers
  <2>1. <<>> \in Seq(Verdicts)
    OBVIOUS
  <2> QED BY <1>3, <1>7, <1>8, <1>10, <2>1 DEF QuestionRecords
<1>12. AreFound(kept, during'.chunks)
  <2>1. \A i \in 1..Len(kept) : kept[i] \in Range(kept)
    BY <1>10 DEF Range
  <2>2. \A h \in Range(question.hits) : \E i \in 1..Len(question.hits) : question.hits[i] = h
    BY <1>9 DEF Range
  <2>3. ASSUME NEW i \in 1..Len(kept)
        PROVE  \/ kept[i].document = UnknownDocument
               \/ kept[i].document = ChunkOwner[kept[i].chunk] /\ kept[i].chunk \in during'.chunks
    <3>1. PICK k \in 1..Len(question.hits) : question.hits[k] = kept[i]
      BY <1>10, <2>1, <2>2
    <3>2. \/ question.hits[k].document = UnknownDocument
          \/ /\ question.hits[k].document = ChunkOwner[question.hits[k].chunk]
             /\ question.hits[k].chunk \in during.chunks
      BY <1>3, <3>1 DEF AreFound
    <3>3. during.chunks \subseteq during'.chunks
      BY <1>2
    <3> QED BY <3>1, <3>2, <3>3
  <2>4. ASSUME NEW i \in 1..Len(kept), NEW j \in 1..Len(kept), kept[i].chunk = kept[j].chunk PROVE i = j
    <3>1. IsInjective(question.hits)
      <4>1. DOMAIN question.hits = 1..Len(question.hits)
        BY <1>9
      <4> QED BY <1>3, <4>1 DEF AreFound, IsInjective
    <3>2. IsInjective(kept)
      BY <1>5, <1>9, <3>1, WhereFacts
    <3>3. kept[i] = kept[j]
      <4>1. PICK k \in 1..Len(question.hits), l \in 1..Len(question.hits) :
               question.hits[k] = kept[i] /\ question.hits[l] = kept[j]
        BY <1>10, <2>1, <2>2
      <4>2. k = l
        BY <1>3, <2>4, <4>1 DEF AreFound
      <4> QED BY <4>1, <4>2
    <3>4. DOMAIN kept = 1..Len(kept)
      BY <1>10
    <3> QED BY <3>2, <3>3, <3>4 DEF IsInjective
  <2> QED BY <1>10, <2>3, <2>4 DEF AreFound
<1>13. VerdictsStood'
  <2>1. DOMAIN <<>> = {}
    OBVIOUS
  <2> QED BY <1>11, <2>1 DEF VerdictsStood, Range
<1>14. retrieval.enforced => \A h \in Range(kept) : h.document \in during'.shared
  <2> SUFFICES ASSUME retrieval.enforced, NEW h \in Range(kept) PROVE h.document \in during'.shared
    OBVIOUS
  <2>1. [document |-> h.document, seen |-> TRUE] \in Range(question.verdicts)
    BY <1>10 DEF MayBeShown
  <2>2. h.document \in during.shared
    BY <1>3, <2>1 DEF VerdictsStood
  <2> QED BY <1>2, <2>2
<1>15. question.topics = {} /\ question.markers = {} /\ question.warned = {} /\ question.evidence = {}
  BY <1>1, <1>3 DEF StagesInOrder
<1>16. StagesInOrder'
  <2>1. /\ question'.topics = {} /\ question'.markers = {} /\ question'.warned = {}
        /\ question'.evidence = {} /\ question'.stage = stage /\ question'.hits = kept /\ stage # "idle"
    BY <1>8, <1>11, <1>15
  <2> QED BY <1>2, <1>8, <1>14, <2>1 DEF StagesInOrder, CitedChunks
<1> QED BY <1>2, <1>4, <1>11, <1>12, <1>13, <1>16 DEF SearchInv

(* The steps that leave the hits as they are. *)
LEMMA SameHits ==
    ASSUME SearchInv, SearchNext, question.stage \in {"topics", "triples", "model"}, question' \in QuestionRecords,
           question'.hits = question.hits, question'.verdicts = question.verdicts, StagesInOrder'
    PROVE  SearchInv'
<1>1. /\ corpus' \in Corpora /\ shared' \subseteq SearchedDocuments /\ retrieval' = retrieval
      /\ during'.shared \subseteq SearchedDocuments /\ ChunksGo'
      /\ corpus'.chunks \subseteq during'.chunks /\ shared' \subseteq during'.shared
      /\ during.chunks \subseteq during'.chunks /\ during.shared \subseteq during'.shared
  BY MomentFacts
<1>2. AreFound(question.hits, during.chunks) /\ VerdictsStood
  BY DEF SearchInv
<1>3. AreFound(question'.hits, during'.chunks)
  BY <1>1, <1>2 DEF AreFound
<1>4. VerdictsStood'
  BY <1>1, <1>2 DEF VerdictsStood
<1>5. MomentsRemembered'
  BY <1>1 DEF MomentsRemembered
<1> QED BY <1>1, <1>3, <1>4, <1>5 DEF SearchInv

LEMMA GroupByTopicKeeps == ASSUME SearchInv, SearchNext, GroupByTopic PROVE SearchInv'
<1>1. question.stage = "topics"
  BY DEF GroupByTopic
<1>2. question \in QuestionRecords /\ StagesInOrder /\ AreFound(question.hits, during.chunks)
  BY DEF SearchInv
<1>3. PICK nodes : nodes = {h.chunk : h \in Range(question.hits)} \cap corpus.chunks
  OBVIOUS
<1>4. PICK topics : topics = {<<ChunkTopic[c], c>> : c \in {n \in nodes : ChunkTopic[n] # 0}}
  OBVIOUS
<1>5. question' = [question EXCEPT !.stage = "done", !.topics = topics]
  BY <1>3, <1>4 DEF GroupByTopic
<1>6. /\ topics \in SUBSET {<<ChunkTopic[c], c>> : c \in SearchedChunks}
      /\ {t[2] : t \in topics} \subseteq CitedChunks
  <2>1. nodes \subseteq SearchedChunks /\ nodes \subseteq CitedChunks
    <3>1. corpus.chunks \subseteq SearchedChunks
      BY DEF SearchInv, Corpora
    <3> QED BY <1>3, <3>1 DEF CitedChunks
  <2> QED BY <1>4, <2>1
<1>7. /\ question' \in QuestionRecords /\ question'.stage = "done" /\ question'.hits = question.hits
      /\ question'.verdicts = question.verdicts /\ question'.topics = topics
      /\ question'.evidence = question.evidence /\ question'.warned = question.warned
      /\ question'.markers = question.markers
  BY <1>2, <1>5, <1>6 DEF QuestionRecords
<1>8. during.shared \subseteq during'.shared /\ retrieval' = retrieval
  BY <1>1, MomentFacts
<1>9. StagesInOrder'
  BY <1>1, <1>2, <1>6, <1>7, <1>8 DEF StagesInOrder, CitedChunks
<1> QED BY <1>1, <1>7, <1>9, SameHits

LEMMA CollectTriplesKeeps == ASSUME SearchInv, SearchNext, CollectTriples PROVE SearchInv'
<1>1. question.stage = "triples"
  BY DEF CollectTriples
<1>2. question \in QuestionRecords /\ StagesInOrder /\ corpus \in Corpora
  BY DEF SearchInv
<1>3. PICK evidence : evidence = {h.document : h \in Range(question.hits)} \cap corpus.projected
  OBVIOUS
<1>4. question' = [question EXCEPT !.stage = "model", !.evidence = evidence]
  BY <1>3 DEF CollectTriples
<1>5. evidence \in SUBSET SearchedDocuments
  BY <1>2, <1>3 DEF Corpora
<1>6. /\ question' \in QuestionRecords /\ question'.stage = "model" /\ question'.hits = question.hits
      /\ question'.verdicts = question.verdicts /\ question'.topics = question.topics
      /\ question'.evidence = evidence /\ question'.warned = question.warned
      /\ question'.markers = question.markers
  BY <1>2, <1>4, <1>5 DEF QuestionRecords
<1>7. during.shared \subseteq during'.shared /\ retrieval' = retrieval
  BY <1>1, MomentFacts
<1>8. StagesInOrder'
  <2>1. evidence \subseteq {h.document : h \in Range(question.hits)}
    BY <1>3
  <2>2. question'.evidence \subseteq {h.document : h \in Range(question'.hits)}
    BY <1>6, <2>1
  <2>3. /\ retrieval'.enforced => \A h \in Range(question'.hits) : h.document \in during'.shared
        /\ question'.hits # <<>>
    BY <1>1, <1>2, <1>6, <1>7 DEF StagesInOrder
  <2>4. /\ question'.topics = {} /\ question'.markers = {} /\ question'.warned = {}
        /\ {t[2] : t \in question'.topics} \subseteq CitedChunks'
    BY <1>1, <1>2, <1>6 DEF StagesInOrder
  <2> QED BY <1>6, <2>2, <2>3, <2>4 DEF StagesInOrder
<1> QED BY <1>1, <1>6, <1>8, SameHits

LEMMA ModelAnswersKeeps == ASSUME SearchInv, SearchNext, ModelAnswers PROVE SearchInv'
<1>1. question.stage = "model"
  BY DEF ModelAnswers
<1>2. question \in QuestionRecords /\ StagesInOrder
  BY DEF SearchInv
<1>3. CASE question' = NoQuestion
  <2>1. question' \in QuestionRecords /\ AreFound(question'.hits, during'.chunks) /\ VerdictsStood' /\ StagesInOrder'
    BY <1>3, NothingAnswered DEF Blanks
  <2>2. /\ corpus' \in Corpora /\ shared' \subseteq SearchedDocuments
        /\ during'.shared \subseteq SearchedDocuments /\ ChunksGo'
        /\ corpus'.chunks \subseteq during'.chunks /\ shared' \subseteq during'.shared
    BY <1>1, MomentFacts
  <2> QED BY <2>1, <2>2 DEF SearchInv, MomentsRemembered
<1>4. CASE \E markers \in {{}} \cup {{c} : c \in SearchedChunks} :
              question' = [question EXCEPT !.stage = "done", !.markers = markers,
                                           !.warned = Unresolved(markers)]
  <2>1. PICK markers \in {{}} \cup {{c} : c \in SearchedChunks} :
           question' = [question EXCEPT !.stage = "done", !.markers = markers,
                                        !.warned = Unresolved(markers)]
    BY <1>4
  <2>2. PICK warned : warned = Unresolved(markers)
    OBVIOUS
  <2>3. /\ markers \in SUBSET SearchedChunks /\ warned \in SUBSET SearchedChunks
        /\ markers \subseteq CitedChunks \cup warned
    BY <2>1, <2>2 DEF Unresolved
  <2>4. /\ question' \in QuestionRecords /\ question'.stage = "done" /\ question'.hits = question.hits
        /\ question'.verdicts = question.verdicts /\ question'.topics = question.topics
        /\ question'.evidence = question.evidence /\ question'.warned = warned
        /\ question'.markers = markers
    BY <1>2, <2>1, <2>2, <2>3 DEF QuestionRecords
  <2>5. during.shared \subseteq during'.shared /\ retrieval' = retrieval
    BY <1>1, MomentFacts
  <2>6. StagesInOrder'
    BY <1>1, <1>2, <2>3, <2>4, <2>5 DEF StagesInOrder, CitedChunks
  <2> QED BY <1>1, <2>4, <2>6, SameHits
<1> QED BY <1>3, <1>4 DEF ModelAnswers

(* A question is put, or lost with the process. *)
LEMMA BlankKeeps ==
    ASSUME SearchInv, SearchNext, question' \in Blanks, ~(question.stage = "done" /\ question' = question)
    PROVE  SearchInv'
<1>1. /\ corpus' \in Corpora /\ shared' \subseteq SearchedDocuments
      /\ during'.shared \subseteq SearchedDocuments /\ ChunksGo'
      /\ corpus'.chunks \subseteq during'.chunks /\ shared' \subseteq during'.shared
  BY MomentFacts
<1> QED BY <1>1, NothingAnswered DEF SearchInv, MomentsRemembered

LEMMA SearchInductive == SearchSpec => []SearchInv
<1>1. SearchInit => SearchInv
  <2> SUFFICES ASSUME SearchInit PROVE SearchInv
    OBVIOUS
  <2>1. /\ corpus = NothingProjected /\ shared = SearchedDocuments
        /\ question = NoQuestion /\ during = [shared |-> shared, projected |-> {}, chunks |-> {}]
    BY DEF SearchInit
  <2>2. /\ corpus \in Corpora /\ corpus.chunks = {}
        /\ during.shared = SearchedDocuments /\ during.chunks = {}
    BY <2>1 DEF Corpora, NothingProjected
  <2>3. /\ question \in QuestionRecords /\ question = NoQuestion /\ question.hits = <<>> /\ question.verdicts = <<>>
        /\ question.topics = {} /\ question.evidence = {} /\ question.warned = {} /\ question.markers = {}
        /\ question.stage \in {"idle", "retrieve"}
    BY <2>1, BlankFacts DEF Blanks
  <2>4. <<>> \in Seq(Hit) /\ Len(<<>>) = 0 /\ DOMAIN <<>> = {}
    OBVIOUS
  <2>5. AreFound(question.hits, during.chunks)
    BY <2>3, <2>4 DEF AreFound
  <2>6. VerdictsStood
    BY <2>3, <2>4 DEF VerdictsStood, Range
  <2>7. StagesInOrder
    BY <2>3 DEF StagesInOrder, CitedChunks
  <2> QED BY <2>1, <2>2, <2>3, <2>5, <2>6, <2>7 DEF SearchInv, MomentsRemembered, ChunksGo
<1>2. SearchInv /\ [SearchNext]_searchVars => SearchInv'
  <2> SUFFICES ASSUME SearchInv, SearchNext PROVE SearchInv'
    <3>1. SearchInv /\ UNCHANGED searchVars => SearchInv'
      BY DEF searchVars, SearchInv, VerdictsStood, StagesInOrder, MomentsRemembered, ChunksGo, CitedChunks
    <3> QED BY <3>1
  <2>1. ASSUME NEW kind \in Questions, AskQuestion(kind) PROVE SearchInv'
    <3>1. question' = JustAsked(kind)
      BY <2>1 DEF AskQuestion, JustAsked
    <3>2. question' \in Blanks /\ question'.stage = "retrieve"
      <4>1. NoQuestion \in QuestionRecords
        BY BlankFacts DEF Blanks
      <4>2. JustAsked(kind).stage = "retrieve"
        BY <4>1 DEF JustAsked, QuestionRecords
      <4> QED BY <3>1, <4>2 DEF Blanks
    <3>3. ~(question.stage = "done" /\ question' = question)
      BY <3>2
    <3> QED BY <3>2, <3>3, BlankKeeps
  <2>2. ASSUME SearchRestart PROVE SearchInv'
    <3>1. question' = NoQuestion /\ NoQuestion.stage # "done"
      BY <2>2 DEF SearchRestart, NoQuestion
    <3>2. ~(question.stage = "done" /\ question' = question)
      BY <3>1
    <3> QED BY <3>1, <3>2, BlankKeeps DEF Blanks
  <2>3. ASSUME ProjectSearched \/ DropSearched \/ ShareOrUnshare PROVE SearchInv'
    <3>1. question' = question
      BY <2>3 DEF ProjectSearched, DropSearched, ShareOrUnshare
    <3> QED BY <3>1, AnswerStays
  <2> QED
    BY <2>1, <2>2, <2>3, RetrieveKeeps, CheckAccessKeeps, KeepAccessibleKeeps, GroupByTopicKeeps,
       CollectTriplesKeeps, ModelAnswersKeeps DEF SearchNext
<1> QED BY <1>1, <1>2, PTL DEF SearchSpec

(* Whatever is projected, dropped, shared and unshared between the          *)
(* statements of a question, for any chunks, any ranking of them, any       *)
(* limits and either store: search, the explorer and chat answer from       *)
(* chunks and triples of documents the caller was let see, which stood in   *)
(* the graph at some moment (in memory their documents did), and cite what  *)
(* is there to be cited.                                                   *)
THEOREM AnswersStayGrounded == SearchSpec => []AnswersAreGrounded
<1>1. SearchInv => AnswersAreGrounded
  <2> SUFFICES ASSUME SearchInv, question.stage = "done"
               PROVE  /\ retrieval.enforced =>
                            /\ \A h \in Range(question.hits) :
                                  /\ ChunkOwner[h.chunk] \in during.shared
                                  /\ h.chunk \in during.chunks
                                  /\ retrieval.store = "memory" => ChunkOwner[h.chunk] \in during.projected
                            /\ question.evidence \subseteq during.shared
                      /\ Cardinality(CitedChunks) = Len(question.hits)
                      /\ {t[2] : t \in question.topics} \subseteq CitedChunks
                      /\ question.markers \subseteq CitedChunks \cup question.warned
                      /\ question.hits = <<>> => question.markers = {} /\ question.evidence = {}
    BY DEF AnswersAreGrounded
  <2>1. /\ AreFound(question.hits, during.chunks) /\ StagesInOrder /\ ChunksGo
        /\ during.shared \subseteq SearchedDocuments
    BY DEF SearchInv
  <2>2. /\ question.hits \in Seq(Hit) /\ Len(question.hits) \in Nat
        /\ DOMAIN question.hits = 1..Len(question.hits)
    BY <2>1 DEF AreFound
  <2>3. ASSUME retrieval.enforced
        PROVE  /\ \A h \in Range(question.hits) :
                     /\ ChunkOwner[h.chunk] \in during.shared
                     /\ h.chunk \in during.chunks
                     /\ retrieval.store = "memory" => ChunkOwner[h.chunk] \in during.projected
               /\ question.evidence \subseteq during.shared
    <3>1. \A h \in Range(question.hits) : h.document \in during.shared
      BY <2>1, <2>3 DEF StagesInOrder
    <3>2. ASSUME NEW h \in Range(question.hits)
          PROVE  /\ ChunkOwner[h.chunk] \in during.shared
                 /\ h.chunk \in during.chunks
                 /\ retrieval.store = "memory" => ChunkOwner[h.chunk] \in during.projected
      <4>1. h.document # UnknownDocument
        BY <2>1, <3>1, <3>2, OwnerFacts
      <4>2. PICK i \in 1..Len(question.hits) : question.hits[i] = h
        BY <2>2 DEF Range
      <4>3. h.document = ChunkOwner[h.chunk] /\ h.chunk \in during.chunks
        BY <2>1, <4>1, <4>2 DEF AreFound
      <4>4. retrieval.store = "memory" => ChunkOwner[h.chunk] \in during.projected
        BY <2>1, <4>3 DEF ChunksGo, ChunksIn
      <4> QED BY <3>1, <4>3, <4>4
    <3>3. question.evidence \subseteq during.shared
      BY <2>1, <3>1 DEF StagesInOrder
    <3> QED BY <3>2, <3>3
  <2>4. Cardinality(CitedChunks) = Len(question.hits)
    <3>1. PICK cited : cited = [i \in 1..Len(question.hits) |-> question.hits[i].chunk]
      OBVIOUS
    <3>2. \A i \in 1..Len(question.hits) : question.hits[i].chunk \in SearchedChunks
      <4>1. \A i \in 1..Len(question.hits) : question.hits[i] \in Hit
        BY <2>2
      <4> QED BY <4>1 DEF Hit
    <3>3. cited \in Seq(SearchedChunks) /\ Len(cited) = Len(question.hits)
      BY <2>2, <3>1, <3>2
    <3>4. IsInjective(cited)
      BY <2>1, <3>1 DEF AreFound, IsInjective
    <3>5. Range(cited) = CitedChunks
      BY <2>2, <3>1 DEF Range, CitedChunks
    <3> QED BY <3>3, <3>4, <3>5, DistinctCount
  <2> QED BY <2>1, <2>3, <2>4 DEF StagesInOrder
<1> QED BY <1>1, SearchInductive, PTL

-----------------------------------------------------------------------------
(* Readings of the graph.                                                  *)

Readers ==
    [kind : {"none", "neighborhood", "pages", "document"},
     stage : {"idle", "root", "access", "again", "expand", "look up", "page", "done", "refused"},
     root : Nat, depth : Nat, left : Nat, limit : Nat, floor : Nat,
     visited : SUBSET GraphNodes, frontier : SUBSET GraphNodes, next : SUBSET GraphNodes,
     found : SUBSET GraphEdges, lookups : SUBSET GraphNodes, cursor : Nat,
     nodes : Seq(GraphNodes), edges : SUBSET GraphEdges, hidden : Int, truncated : BOOLEAN]

Graphs == [nodes : SUBSET GraphNodes, edges : SUBSET GraphEdges, writing : SUBSET GraphOwners]

(* The nodes a walk of so many steps leads to, and the edges at them. *)
Reach(edges, root, steps) ==
    {n \in GraphNodes : \E path \in [0..steps -> GraphNodes] :
                           IsWalk(path, edges, root, steps) /\ path[steps] = n}

EdgesAt(edges, nodes) == {e \in edges : Ends(e) \cap nodes # {}}

(* The search of a neighbourhood, in the middle of a round: what it has     *)
(* gone through is near enough, and what stood throughout is either found  *)
(* or still to be found from the frontier.                                 *)
Explored(r, m) ==
    /\ r.left \in 1..r.depth /\ r.root \in r.visited
    /\ r.frontier \subseteq r.visited
    /\ r.visited \subseteq Reach(m.everEdges, r.root, r.depth - r.left)
    /\ r.next \subseteq Reach(m.everEdges, r.root, r.depth - r.left + 1)
    /\ r.found \subseteq EdgesAt(m.everEdges, Reach(m.everEdges, r.root, r.depth - r.left))
    /\ Reach(m.steadyEdges, r.root, r.depth - r.left) \subseteq r.visited
    /\ EdgesAt(m.steadyEdges, r.visited \ r.frontier) \subseteq r.found
    /\ \A e \in r.found : Ends(e) \subseteq r.visited \cup r.next

(* What it answers, while the nodes are looked up. *)
Ranked(r, m) ==
    /\ r.depth > 0
    /\ r.edges \subseteq Within(m.everEdges, r.root, r.depth)
    /\ ~r.truncated => Within(m.steadyEdges, r.root, r.depth) \subseteq r.edges
    /\ \A e \in r.edges : \A n \in Ends(e) :
          n \in r.lookups \/ n \in Range(r.nodes) \/ n \notin m.steadyNodes
    /\ r.lookups \cap Range(r.nodes) = {}

(* The nodes that stood throughout and are of the documents the caller may  *)
(* see, or of none.                                                        *)
Lasting(m, sees) == {n \in m.steadyNodes : NodeOwner[n] \in sees \cup {NoOwner}}

(* The pages up to a cursor. *)
PagedTo(r, m, sees) ==
    /\ \A n \in Range(r.nodes) : n <= r.cursor
    /\ \A n \in Lasting(m, sees) : n <= r.cursor => n \in Range(r.nodes)
    /\ \A e \in m.steadyEdges :
          Ends(e) \subseteq Lasting(m, sees) /\ (\E n \in Ends(e) : n <= r.cursor) => e \in r.edges

PagedWhole(r, m, sees) ==
    /\ Lasting(m, sees) \subseteq Range(r.nodes)
    /\ {e \in m.steadyEdges : Ends(e) \subseteq Lasting(m, sees)} \subseteq r.edges

ReadingIs(r, m, sees) ==
    /\ r.stage \in {"root", "access", "again", "expand"} => r.kind = "neighborhood" /\ r.nodes = <<>>
    /\ r.stage \in {"root", "access", "again"} =>
          r.root \in GraphNodes /\ r.left = r.depth /\ r.depth > 0 /\ r.found = {} /\ r.next = {}
    /\ r.stage = "expand" => Explored(r, m)
    /\ r.stage = "look up" => r.kind = "neighborhood" /\ Ranked(r, m)
    /\ r.stage = "page" => r.kind = "pages" /\ PagedTo(r, m, sees)
    /\ r.stage = "done" /\ r.kind = "neighborhood" => Ranked(r, m) /\ r.lookups = {}
    /\ r.stage = "done" /\ r.kind = "pages" => PagedWhole(r, m, sees)

(* The moments of a reading are those that were. *)
MomentsWere ==
    reader.stage # "idle" =>
       /\ standing.edges \subseteq moments.everEdges
       /\ moments.steadyEdges \subseteq standing.edges /\ moments.steadyNodes \subseteq standing.nodes

GraphInv ==
    /\ reader \in Readers /\ standing \in Graphs
    /\ IsInjective(reader.nodes) /\ ReadingIs(reader, moments, backend.sees) /\ MomentsWere

LEMMA GraphFacts ==
    /\ GraphNodes \subseteq Nat \ {0} /\ IsFiniteSet(GraphNodes)
    /\ IsFiniteSet(GraphEdges)
    /\ \A e \in GraphEdges : Ends(e) \subseteq GraphNodes
<1>1. Len(NodeOwner) \in Nat /\ GraphNodes = 1..Len(NodeOwner)
  <2>1. NodeOwner \in Seq(Nat)
    BY GraphReadsAssumption
  <2> QED BY <2>1 DEF GraphNodes
<1>2. /\ Len(EdgeEnds) \in Nat /\ GraphEdges = 1..Len(EdgeEnds)
      /\ \A e \in GraphEdges : EdgeEnds[e] \in GraphNodes \X GraphNodes
  <2>1. EdgeEnds \in Seq(GraphNodes \X GraphNodes)
    BY GraphReadsAssumption DEF GraphNodes
  <2> QED BY <2>1 DEF GraphEdges
<1>3. IsFiniteSet(GraphNodes)
  <2>1. IsFiniteSet(1..Len(NodeOwner))
    BY <1>1, FS_Interval
  <2> QED BY <1>1, <2>1
<1>4. IsFiniteSet(GraphEdges)
  <2>1. IsFiniteSet(1..Len(EdgeEnds))
    BY <1>2, FS_Interval
  <2> QED BY <1>2, <2>1
<1>5. GraphNodes \subseteq Nat \ {0}
  BY <1>1
<1>6. \A e \in GraphEdges : Ends(e) \subseteq GraphNodes
  BY <1>2 DEF Ends
<1> QED BY <1>3, <1>4, <1>5, <1>6

(* The edges within so many steps are those at the nodes one step less far. *)
LEMMA WithinReach ==
    ASSUME NEW edges, NEW root, NEW depth \in Nat, depth > 0
    PROVE  Within(edges, root, depth) = EdgesAt(edges, Reach(edges, root, depth - 1))
<1> DEFINE far == depth - 1
<1>1. Within(edges, root, depth) =
         {e \in edges : \E path \in [0..far -> GraphNodes] : IsWalk(path, edges, root, far) /\ path[far] \in Ends(e)}
  BY DEF Within
<1>2. far \in 0..far
  OBVIOUS
<1> HIDE DEF far
<1>3. ASSUME NEW e \in edges
      PROVE  (\E path \in [0..far -> GraphNodes] : IsWalk(path, edges, root, far) /\ path[far] \in Ends(e))
                <=> Ends(e) \cap Reach(edges, root, far) # {}
  BY <1>2 DEF Reach
<1> QED BY <1>1, <1>3 DEF EdgesAt, far

(* No step leads to the root alone. *)
LEMMA ReachNone == ASSUME NEW edges, NEW root \in GraphNodes PROVE Reach(edges, root, 0) = {root}
<1>1. PICK path : path = [i \in 0..0 |-> root]
  OBVIOUS
<1>2. path \in [0..0 -> GraphNodes] /\ path[0] = root
  BY <1>1
<1>3. IsWalk(path, edges, root, 0)
  <2>1. 1..0 = {}
    OBVIOUS
  <2> QED BY <1>2, <2>1 DEF IsWalk
<1>4. root \in Reach(edges, root, 0)
  BY <1>2, <1>3 DEF Reach
<1>5. \A n \in Reach(edges, root, 0) : n = root
  BY DEF Reach, IsWalk
<1> QED BY <1>4, <1>5

(* More edges lead as far and further. *)
LEMMA ReachWidens ==
    ASSUME NEW edges, NEW more, edges \subseteq more, NEW root, NEW steps
    PROVE  Reach(edges, root, steps) \subseteq Reach(more, root, steps)
<1>1. \A path : IsWalk(path, edges, root, steps) => IsWalk(path, more, root, steps)
  BY DEF IsWalk
<1> QED BY <1>1 DEF Reach

(* One more step: along an edge, or none. *)
LEMMA ReachFurther ==
    ASSUME NEW edges, NEW root, NEW steps \in Nat, NEW n \in Reach(edges, root, steps), NEW m \in GraphNodes,
           m = n \/ \E e \in edges : {n, m} \subseteq Ends(e)
    PROVE  m \in Reach(edges, root, steps + 1)
<1> DEFINE next == steps + 1
<1>1. PICK path \in [0..steps -> GraphNodes] : IsWalk(path, edges, root, steps) /\ path[steps] = n
  BY DEF Reach
<1>2. PICK longer : longer = [i \in 0..next |-> IF i = next THEN m ELSE path[i]]
  OBVIOUS
<1>3. \A i \in 0..next : i = next \/ i \in 0..steps
  OBVIOUS
<1>4. longer \in [0..next -> GraphNodes]
  BY <1>2, <1>3
<1>5. longer[next] = m /\ \A i \in 0..steps : longer[i] = path[i]
  BY <1>2
<1>6. ASSUME NEW i \in 1..next
      PROVE  longer[i] = longer[i - 1] \/ \E e \in edges : {longer[i - 1], longer[i]} \subseteq Ends(e)
  <2>1. CASE i = next
    <3>1. i - 1 = steps /\ steps \in 0..steps
      BY <2>1
    <3>2. longer[i - 1] = n /\ longer[i] = m
      BY <1>1, <1>5, <2>1, <3>1
    <3> QED BY <3>2
  <2>2. CASE i # next
    <3>1. i \in 1..steps /\ i \in 0..steps /\ i - 1 \in 0..steps
      BY <2>2
    <3>2. longer[i] = path[i] /\ longer[i - 1] = path[i - 1]
      BY <1>5, <3>1
    <3> QED BY <1>1, <3>1, <3>2 DEF IsWalk
  <2> QED BY <2>1, <2>2
<1>7. longer[0] = root
  <2>1. 0 \in 0..steps
    OBVIOUS
  <2> QED BY <1>1, <1>5, <2>1 DEF IsWalk
<1> HIDE DEF next
<1>8. IsWalk(longer, edges, root, next)
  BY <1>6, <1>7 DEF IsWalk
<1> QED BY <1>4, <1>5, <1>8 DEF Reach, next

(* And every node one step further is such a one. *)
LEMMA ReachBack ==
    ASSUME NEW edges, NEW root, NEW steps \in Nat, NEW m \in Reach(edges, root, steps + 1)
    PROVE  \E n \in Reach(edges, root, steps) : m = n \/ \E e \in edges : {n, m} \subseteq Ends(e)
<1>1. PICK next \in Nat : next = steps + 1
  OBVIOUS
<1>2. PICK path \in [0..next -> GraphNodes] : IsWalk(path, edges, root, next) /\ path[next] = m
  BY <1>1 DEF Reach
<1>3. PICK shorter : shorter = [i \in 0..steps |-> path[i]]
  OBVIOUS
<1>4. \A i \in 0..steps : i \in 0..next /\ shorter[i] = path[i]
  BY <1>1, <1>3
<1>5. shorter \in [0..steps -> GraphNodes]
  BY <1>3, <1>4
<1>6. IsWalk(shorter, edges, root, steps)
  <2>1. shorter[0] = root
    <3>1. 0 \in 0..steps
      OBVIOUS
    <3> QED BY <1>2, <1>4, <3>1 DEF IsWalk
  <2>2. ASSUME NEW i \in 1..steps
        PROVE  shorter[i] = shorter[i - 1] \/ \E e \in edges : {shorter[i - 1], shorter[i]} \subseteq Ends(e)
    <3>1. i \in 0..steps /\ i - 1 \in 0..steps /\ i \in 1..next
      BY <1>1
    <3>2. shorter[i] = path[i] /\ shorter[i - 1] = path[i - 1]
      BY <1>4, <3>1
    <3> QED BY <1>2, <3>1, <3>2 DEF IsWalk
  <2> QED BY <2>1, <2>2 DEF IsWalk
<1>7. next \in 1..next /\ next - 1 = steps /\ steps \in 0..steps
  BY <1>1
<1>8. path[steps] \in Reach(edges, root, steps)
  <2>1. shorter[steps] = path[steps] /\ path[steps] \in GraphNodes
    BY <1>4, <1>5, <1>7
  <2> QED BY <1>5, <1>6, <2>1 DEF Reach
<1>9. path[next] = path[steps] \/ \E e \in edges : {path[steps], path[next]} \subseteq Ends(e)
  BY <1>2, <1>7 DEF IsWalk
<1> QED BY <1>2, <1>8, <1>9

(* What is reached is reached with more steps too. *)
LEMMA ReachLater ==
    ASSUME NEW edges, NEW root, NEW steps \in Nat, NEW more \in Nat, steps <= more
    PROVE  Reach(edges, root, steps) \subseteq Reach(edges, root, more)
<1> SUFFICES ASSUME NEW n \in Reach(edges, root, steps) PROVE n \in Reach(edges, root, more)
  OBVIOUS
<1>1. PICK path \in [0..steps -> GraphNodes] : IsWalk(path, edges, root, steps) /\ path[steps] = n
  BY DEF Reach
<1>2. PICK longer : longer = [i \in 0..more |-> IF i <= steps THEN path[i] ELSE n]
  OBVIOUS
<1>3. n \in GraphNodes /\ \A i \in 0..steps : path[i] \in GraphNodes
  BY DEF Reach
<1>4. /\ \A i \in 0..more : i <= steps => i \in 0..steps
      /\ 0 \in 0..steps /\ 0 \in 0..more /\ more \in 0..more /\ 0 <= steps
  OBVIOUS
<1>5. /\ \A i \in 0..more : i <= steps => longer[i] = path[i]
      /\ \A i \in 0..more : ~(i <= steps) => longer[i] = n
  BY <1>2
<1>6. longer \in [0..more -> GraphNodes]
  BY <1>2, <1>3, <1>4
<1>7. longer[more] = n
  <2>1. CASE more <= steps
    <3>1. more = steps
      BY <2>1
    <3> QED BY <1>1, <1>4, <1>5, <2>1, <3>1
  <2>2. CASE ~(more <= steps)
    BY <1>4, <1>5, <2>2
  <2> QED BY <2>1, <2>2
<1>8. ASSUME NEW i \in 1..more
      PROVE  longer[i] = longer[i - 1] \/ \E e \in edges : {longer[i - 1], longer[i]} \subseteq Ends(e)
  <2>1. i \in 0..more /\ i - 1 \in 0..more
    OBVIOUS
  <2>2. CASE i <= steps
    <3>1. i \in 1..steps /\ i - 1 <= steps
      BY <2>2
    <3>2. longer[i] = path[i] /\ longer[i - 1] = path[i - 1]
      BY <1>5, <2>1, <2>2, <3>1
    <3> QED BY <1>1, <3>1, <3>2 DEF IsWalk
  <2>3. CASE i = steps + 1
    <3>1. i - 1 = steps /\ i - 1 <= steps /\ ~(i <= steps)
      BY <2>3
    <3>2. longer[i] = n /\ longer[i - 1] = path[i - 1] /\ path[i - 1] = n
      BY <1>1, <1>5, <2>1, <3>1
    <3> QED BY <3>2
  <2>4. CASE i > steps + 1
    <3>1. ~(i <= steps) /\ ~(i - 1 <= steps)
      BY <2>4
    <3> QED BY <1>5, <2>1, <3>1
  <2> QED BY <2>2, <2>3, <2>4
<1>9. longer[0] = root
  BY <1>1, <1>4, <1>5 DEF IsWalk
<1>10. IsWalk(longer, edges, root, more)
  BY <1>8, <1>9 DEF IsWalk
<1> QED BY <1>6, <1>7, <1>10 DEF Reach

(* A set of nodes no edge leads out of holds all that is reached from it.   *)
LEMMA ReachClosed ==
    ASSUME NEW edges, NEW root, NEW steps \in Nat, NEW inside, root \in inside,
           \A e \in edges : \A n, m \in Ends(e) : n \in inside => m \in inside
    PROVE  Reach(edges, root, steps) \subseteq inside
<1> SUFFICES ASSUME NEW path \in [0..steps -> GraphNodes], IsWalk(path, edges, root, steps),
                    path[steps] \notin inside
             PROVE  FALSE
  BY DEF Reach
<1> DEFINE out == {i \in 0..steps : path[i] \notin inside}
<1>1. out \in SUBSET Nat /\ out # {}
  <2>1. steps \in out
    OBVIOUS
  <2> QED BY <2>1
<1>2. PICK i \in out : \A j \in out : i <= j
  BY <1>1, LeastOf
<1>3. i # 0
  BY DEF IsWalk
<1>4. i \in 1..steps /\ i - 1 \in 0..steps /\ ~(i <= i - 1)
  BY <1>3
<1>5. path[i - 1] \in inside
  BY <1>2, <1>4
<1>6. path[i] = path[i - 1] \/ \E e \in edges : {path[i - 1], path[i]} \subseteq Ends(e)
  BY <1>4 DEF IsWalk
<1>7. path[i] \notin inside
  OBVIOUS
<1> QED BY <1>5, <1>6, <1>7

(* What a reading may owe only gets less as moments pass. *)
Wider(m, n) ==
    /\ m.everEdges \subseteq n.everEdges
    /\ n.steadyEdges \subseteq m.steadyEdges /\ n.steadyNodes \subseteq m.steadyNodes

LEMMA GraphMoments ==
    ASSUME GraphInv, GraphReadsNext
    PROVE  /\ standing' \in Graphs /\ backend' = backend /\ MomentsWere'
           /\ BeingRead /\ reader'.stage # "idle" => Wider(moments, moments')
<1>1. standing \in Graphs /\ MomentsWere /\ Moments
  BY DEF GraphInv, GraphReadsNext
<1>2. standing' \in Graphs /\ backend' = backend
  <2>1. CASE GraphStays
    BY <1>1, <2>1 DEF GraphStays
  <2>2. ASSUME NEW d \in GraphOwners, WriteNodes(d) PROVE standing' \in Graphs /\ backend' = backend
    <3>1. NodesOf(d) \subseteq GraphNodes
      BY DEF NodesOf
    <3> QED BY <1>1, <2>2, <3>1 DEF WriteNodes, Changing, Graphs
  <2>3. ASSUME NEW d \in GraphOwners, WriteEdges(d) PROVE standing' \in Graphs /\ backend' = backend
    <3>1. Keepable(EdgesOf(d), standing.nodes) \subseteq GraphEdges
      BY DEF Keepable, EdgesOf
    <3> QED BY <1>1, <2>3, <3>1 DEF WriteEdges, Changing, Graphs
  <2>4. ASSUME NEW d \in GraphOwners, DropGraph(d) PROVE standing' \in Graphs /\ backend' = backend
    <3>1. PICK gone \in SUBSET NodesOf(d) :
             standing' = [standing EXCEPT !.nodes = standing.nodes \ gone,
                                          !.edges = Keepable(standing.edges \ EdgesOf(d), standing.nodes \ gone)]
      BY <2>4 DEF DropGraph
    <3>2. Keepable(standing.edges \ EdgesOf(d), standing.nodes \ gone) \subseteq GraphEdges
      BY <1>1 DEF Keepable, Graphs
    <3> QED BY <1>1, <2>4, <3>1, <3>2 DEF DropGraph, Changing, Graphs
  <2> QED
    BY <2>1, <2>2, <2>3, <2>4
       DEF GraphReadsNext, AskNeighborhood, FetchRoot, CheckRootAccess, FindRoot, ExpandNode, LookUpNode,
           AskPages, ReadPage, CloseReading, ReadDocument
<1>3. CASE reader'.stage = "idle"
  BY <1>2, <1>3 DEF MomentsWere
<1>4. CASE reader'.stage # "idle" /\ ~BeingRead
  <2>1. moments' = [everEdges |-> standing'.edges, steadyEdges |-> standing'.edges,
                    steadyNodes |-> standing'.nodes, changes |-> 0]
    BY <1>1, <1>4 DEF Moments
  <2>2. /\ moments'.everEdges = standing'.edges /\ moments'.steadyEdges = standing'.edges
        /\ moments'.steadyNodes = standing'.nodes
    BY <2>1
  <2> QED BY <1>2, <1>4, <2>2 DEF MomentsWere
<1>5. CASE reader'.stage # "idle" /\ BeingRead
  <2>1. PICK count : count = moments.changes + IF standing' = standing THEN 0 ELSE 1
    OBVIOUS
  <2>2. moments' = [everEdges |-> moments.everEdges \cup standing'.edges,
                    steadyEdges |-> moments.steadyEdges \cap standing'.edges,
                    steadyNodes |-> moments.steadyNodes \cap standing'.nodes,
                    changes |-> count]
    BY <1>1, <1>5, <2>1 DEF Moments
  <2>3. /\ moments'.everEdges = moments.everEdges \cup standing'.edges
        /\ moments'.steadyEdges = moments.steadyEdges \cap standing'.edges
        /\ moments'.steadyNodes = moments.steadyNodes \cap standing'.nodes
    BY <2>2
  <2> QED BY <1>2, <1>5, <2>3 DEF MomentsWere, Wider
<1> QED BY <1>3, <1>4, <1>5

LEMMA WithinWidens ==
    ASSUME NEW edges, NEW more, edges \subseteq more, NEW root, NEW depth \in Nat, depth > 0
    PROVE  Within(edges, root, depth) \subseteq Within(more, root, depth)
<1>1. /\ Within(edges, root, depth) = EdgesAt(edges, Reach(edges, root, depth - 1))
      /\ Within(more, root, depth) = EdgesAt(more, Reach(more, root, depth - 1))
  BY WithinReach
<1>2. Reach(edges, root, depth - 1) \subseteq Reach(more, root, depth - 1)
  BY ReachWidens
<1> QED BY <1>1, <1>2 DEF EdgesAt

(* What was said of the moments of a reading goes on to hold as moments are *)
(* added.                                                                  *)
LEMMA ReadingWidens ==
    ASSUME NEW r \in Readers, NEW m, NEW n, Wider(m, n), NEW sees, ReadingIs(r, m, sees)
    PROVE  ReadingIs(r, n, sees)
<1>1. /\ m.everEdges \subseteq n.everEdges
      /\ n.steadyEdges \subseteq m.steadyEdges /\ n.steadyNodes \subseteq m.steadyNodes
  BY DEF Wider
<1>2. r.depth \in Nat /\ r.left \in Nat
  BY DEF Readers
<1>3. Explored(r, m) => Explored(r, n)
  <2> SUFFICES ASSUME Explored(r, m) PROVE Explored(r, n)
    OBVIOUS
  <2>1. PICK k, root : k = r.depth - r.left /\ root = r.root
    OBVIOUS
  <2>2. /\ Reach(m.everEdges, root, k) \subseteq Reach(n.everEdges, root, k)
        /\ Reach(m.everEdges, root, k + 1) \subseteq Reach(n.everEdges, root, k + 1)
        /\ Reach(n.steadyEdges, root, k) \subseteq Reach(m.steadyEdges, root, k)
    BY <1>1, ReachWidens
  <2>3. r.visited \subseteq Reach(n.everEdges, root, k) /\ r.next \subseteq Reach(n.everEdges, root, k + 1)
    BY <2>1, <2>2 DEF Explored
  <2>4. r.found \subseteq EdgesAt(n.everEdges, Reach(n.everEdges, root, k))
    BY <1>1, <2>1, <2>2 DEF Explored, EdgesAt
  <2>5. Reach(n.steadyEdges, root, k) \subseteq r.visited
    BY <2>1, <2>2 DEF Explored
  <2>6. EdgesAt(n.steadyEdges, r.visited \ r.frontier) \subseteq r.found
    BY <1>1 DEF Explored, EdgesAt
  <2> QED BY <2>1, <2>3, <2>4, <2>5, <2>6 DEF Explored
<1>4. Ranked(r, m) => Ranked(r, n)
  <2> SUFFICES ASSUME Ranked(r, m) PROVE Ranked(r, n)
    OBVIOUS
  <2>1. r.depth > 0
    BY DEF Ranked
  <2>2. /\ Within(m.everEdges, r.root, r.depth) \subseteq Within(n.everEdges, r.root, r.depth)
        /\ Within(n.steadyEdges, r.root, r.depth) \subseteq Within(m.steadyEdges, r.root, r.depth)
    BY <1>1, <1>2, <2>1, WithinWidens
  <2> QED BY <1>1, <2>2 DEF Ranked
<1>5. Lasting(n, sees) \subseteq Lasting(m, sees)
  BY <1>1 DEF Lasting
<1>6. PagedTo(r, m, sees) => PagedTo(r, n, sees)
  BY <1>1, <1>5 DEF PagedTo
<1>7. PagedWhole(r, m, sees) => PagedWhole(r, n, sees)
  BY <1>1, <1>5 DEF PagedWhole
<1> QED BY <1>3, <1>4, <1>6, <1>7 DEF ReadingIs

(* A step of a reading under way. *)
LEMMA ReadingGoesOn ==
    ASSUME GraphInv, GraphReadsNext, BeingRead, reader' \in Readers, IsInjective(reader'.nodes),
           ReadingIs(reader', moments, backend.sees), reader'.stage # "idle"
    PROVE  GraphInv'
<1>1. standing' \in Graphs /\ backend' = backend /\ MomentsWere' /\ Wider(moments, moments')
  BY GraphMoments
<1>2. ReadingIs(reader', moments', backend.sees)
  BY <1>1, ReadingWidens
<1> QED BY <1>1, <1>2 DEF GraphInv

-----------------------------------------------------------------------------
(* The steps of a reading.                                                 *)

(* Whoever asks for nothing is owed nothing. *)
LEMMA NothingAskedFacts ==
    /\ NothingAsked \in Readers /\ IsInjective(NothingAsked.nodes)
    /\ NothingAsked.nodes = <<>> /\ NothingAsked.stage = "idle" /\ NothingAsked.cursor = 0
    /\ NothingAsked.edges = {} /\ NothingAsked.found = {} /\ NothingAsked.next = {}
<1>1. <<>> \in Seq(GraphNodes) /\ DOMAIN <<>> = {}
  OBVIOUS
<1>2. NothingAsked \in Readers
  BY <1>1 DEF NothingAsked, Readers
<1>3. IsInjective(NothingAsked.nodes)
  BY DEF NothingAsked, IsInjective
<1> QED BY <1>2, <1>3 DEF NothingAsked

(* A reading begins, with the moment it begins at. *)
LEMMA ReadingBegins ==
    ASSUME GraphInv, GraphReadsNext, reader' \in Readers, IsInjective(reader'.nodes),
           \A m : m.steadyNodes = standing'.nodes /\ m.steadyEdges = standing'.edges =>
                     ReadingIs(reader', m, backend.sees),
           ~BeingRead
    PROVE  GraphInv'
<1>1. standing' \in Graphs /\ backend' = backend /\ MomentsWere' /\ Moments
  BY GraphMoments DEF GraphReadsNext
<1>2. CASE reader'.stage = "idle"
  BY <1>1, <1>2 DEF GraphInv, ReadingIs
<1>3. CASE reader'.stage # "idle"
  <2>1. moments' = [everEdges |-> standing'.edges, steadyEdges |-> standing'.edges,
                    steadyNodes |-> standing'.nodes, changes |-> 0]
    BY <1>1, <1>3 DEF Moments
  <2>2. moments'.steadyNodes = standing'.nodes /\ moments'.steadyEdges = standing'.edges
    BY <2>1
  <2> QED BY <1>1, <2>2 DEF GraphInv
<1> QED BY <1>2, <1>3

LEMMA AskNeighborhoodKeeps ==
    ASSUME GraphInv, GraphReadsNext, NEW root \in Roots, NEW depth \in Depths, NEW limit \in EdgeLimits,
           NEW floor \in Floors, AskNeighborhood(root, depth, limit, floor)
    PROVE  GraphInv'
<1>1. /\ depth \in Nat /\ depth > 0 /\ limit \in Nat /\ floor \in Nat
      /\ root \in GraphNodes /\ root \in Nat
  <2>1. depth \in Nat \ {0} /\ limit \in Nat /\ floor \in Nat /\ root \in GraphNodes
    BY GraphReadsAssumption DEF GraphNodes
  <2> QED BY <2>1, GraphFacts
<1>2. reader' = [NothingAsked EXCEPT !.kind = "neighborhood", !.stage = "root", !.root = root,
                      !.depth = depth, !.left = depth, !.limit = limit, !.floor = floor]
  BY DEF AskNeighborhood
<1>3. NothingAsked \in Readers /\ NothingAsked.nodes = <<>> /\ NothingAsked.found = {} /\ NothingAsked.next = {}
  BY NothingAskedFacts
<1>4. reader' \in Readers
  BY <1>1, <1>2, <1>3 DEF Readers
<1>5. /\ reader'.kind = "neighborhood" /\ reader'.stage = "root" /\ reader'.root = root
      /\ reader'.depth = depth /\ reader'.left = depth /\ reader'.nodes = <<>>
      /\ reader'.found = {} /\ reader'.next = {}
  BY <1>2, <1>3 DEF Readers
<1>6. IsInjective(reader'.nodes)
  BY <1>5, NothingAskedFacts
<1>7. \A m : ReadingIs(reader', m, backend.sees)
  BY <1>1, <1>5 DEF ReadingIs
<1>8. ~BeingRead
  BY DEF AskNeighborhood, BeingRead
<1> QED BY <1>4, <1>6, <1>7, <1>8, ReadingBegins

LEMMA AskPagesKeeps == ASSUME GraphInv, GraphReadsNext, AskPages PROVE GraphInv'
<1>1. reader' = [NothingAsked EXCEPT !.kind = "pages", !.stage = "page"]
  BY DEF AskPages
<1>2. /\ NothingAsked \in Readers /\ NothingAsked.nodes = <<>> /\ NothingAsked.cursor = 0
  BY NothingAskedFacts
<1>3. reader' \in Readers
  BY <1>1, <1>2 DEF Readers
<1>4. reader'.kind = "pages" /\ reader'.stage = "page" /\ reader'.nodes = <<>> /\ reader'.cursor = 0
  BY <1>1, <1>2 DEF Readers
<1>5. IsInjective(reader'.nodes)
  BY <1>4, NothingAskedFacts
<1>6. standing' \in Graphs
  BY GraphMoments
<1>7. ASSUME NEW m, m.steadyNodes = standing'.nodes, m.steadyEdges = standing'.edges
      PROVE  ReadingIs(reader', m, backend.sees)
  <2>1. \A n \in Lasting(m, backend.sees) : ~(n <= 0)
    <3>1. \A n \in Lasting(m, backend.sees) : n \in GraphNodes
      BY <1>6, <1>7 DEF Lasting, Graphs
    <3>2. \A n \in GraphNodes : n \in Nat /\ n # 0
      BY GraphFacts
    <3>3. \A n \in Nat : n # 0 => ~(n <= 0)
      OBVIOUS
    <3> QED BY <3>1, <3>2, <3>3
  <2>2. Range(reader'.nodes) = {}
    BY <1>4 DEF Range
  <2>3. PagedTo(reader', m, backend.sees)
    BY <1>4, <2>1, <2>2 DEF PagedTo
  <2> QED BY <1>4, <2>3 DEF ReadingIs
<1>8. ~BeingRead
  BY DEF AskPages, BeingRead
<1> QED BY <1>3, <1>5, <1>7, <1>8, ReadingBegins

LEMMA ReadDocumentKeeps ==
    ASSUME GraphInv, GraphReadsNext, NEW d \in GraphOwners, ReadDocument(d) PROVE GraphInv'
<1>1. standing \in Graphs /\ NothingAsked \in Readers
  BY NothingAskedFacts DEF GraphInv
<1>2. ~BeingRead
  BY DEF ReadDocument, BeingRead
<1>3. CASE d \in backend.sees
  <2> DEFINE part == SubgraphOf(d)
  <2>1. PICK listed : listed = InOrder(part.nodes, Ascending(GraphNodes))
    OBVIOUS
  <2>2. /\ part.nodes = {n \in standing.nodes : NodeOwner[n] = d}
        /\ part.edges = {e \in standing.edges : Ends(e) \subseteq part.nodes}
    BY DEF SubgraphOf
  <2> HIDE DEF part
  <2>3. part.nodes \in SUBSET GraphNodes /\ part.edges \subseteq GraphEdges
    BY <1>1, <2>2 DEF Graphs
  <2>4. IsFiniteSet(part.nodes) /\ Total(Ascending(GraphNodes), part.nodes)
    <3>1. GraphNodes \in SUBSET Int /\ IsFiniteSet(GraphNodes)
      BY GraphFacts
    <3> QED BY <2>3, <3>1, AscendingFacts, FS_Subset
  <2>5. listed \in Seq(part.nodes)
    BY <2>1, <2>4, InOrderFacts
  <2>6. listed \in Seq(GraphNodes)
    BY <2>3, <2>5
  <2>7. IsInjective(listed)
    BY <2>1, <2>4, InOrderOnce
  <2>8. reader' = [NothingAsked EXCEPT !.kind = "document", !.stage = "done", !.nodes = listed, !.edges = part.edges]
    BY <1>3, <2>1 DEF ReadDocument, part
  <2>9. reader' \in Readers
    BY <1>1, <2>3, <2>6, <2>8 DEF Readers
  <2>10. reader'.kind = "document" /\ reader'.stage = "done" /\ reader'.nodes = listed
    BY <1>1, <2>8 DEF Readers
  <2>11. \A m : ReadingIs(reader', m, backend.sees)
    BY <2>10 DEF ReadingIs
  <2> QED BY <1>2, <2>7, <2>9, <2>10, <2>11, ReadingBegins
<1>4. CASE d \notin backend.sees
  <2>1. reader' = [NothingAsked EXCEPT !.kind = "document", !.stage = "refused"]
    BY <1>4 DEF ReadDocument
  <2>2. reader' \in Readers /\ reader'.stage = "refused" /\ reader'.nodes = NothingAsked.nodes
    BY <1>1, <2>1 DEF Readers
  <2>3. \A m : ReadingIs(reader', m, backend.sees)
    BY <2>2 DEF ReadingIs
  <2>4. IsInjective(reader'.nodes)
    BY <2>2, NothingAskedFacts
  <2> QED BY <1>2, <2>2, <2>3, <2>4, ReadingBegins
<1> QED BY <1>3, <1>4

LEMMA CloseReadingKeeps == ASSUME GraphInv, GraphReadsNext, CloseReading PROVE GraphInv'
<1>1. reader' = NothingAsked /\ ~BeingRead
  BY DEF CloseReading, BeingRead
<1>2. reader' \in Readers /\ IsInjective(reader'.nodes) /\ reader'.stage = "idle"
  BY <1>1, NothingAskedFacts
<1>3. \A m : ReadingIs(reader', m, backend.sees)
  BY <1>2 DEF ReadingIs
<1> QED BY <1>1, <1>2, <1>3, ReadingBegins

(* The root is looked up, checked, and looked up again. *)
LEMMA RootKeeps == ASSUME GraphInv, GraphReadsNext, FetchRoot \/ CheckRootAccess PROVE GraphInv'
<1>1. reader \in Readers /\ IsInjective(reader.nodes) /\ ReadingIs(reader, moments, backend.sees)
  BY DEF GraphInv
<1>2. PICK stage \in {"access", "again", "refused"} : GoTo(stage)
  BY DEF FetchRoot, CheckRootAccess
<1>3. reader.stage \in {"root", "access"}
  BY DEF FetchRoot, CheckRootAccess
<1>4. reader' = [reader EXCEPT !.stage = stage]
  BY <1>2 DEF GoTo
<1>5. reader' \in Readers
  BY <1>1, <1>4 DEF Readers
<1>6. /\ reader'.stage = stage /\ reader'.kind = reader.kind /\ reader'.nodes = reader.nodes
      /\ reader'.root = reader.root /\ reader'.left = reader.left /\ reader'.depth = reader.depth
      /\ reader'.found = reader.found /\ reader'.next = reader.next
  BY <1>1, <1>4 DEF Readers
<1>7. ReadingIs(reader', moments, backend.sees)
  BY <1>1, <1>3, <1>6 DEF ReadingIs
<1>8. BeingRead
  BY <1>3 DEF BeingRead
<1> QED BY <1>1, <1>5, <1>6, <1>7, <1>8, ReadingGoesOn

LEMMA FindRootKeeps == ASSUME GraphInv, GraphReadsNext, FindRoot PROVE GraphInv'
<1>1. reader \in Readers /\ IsInjective(reader.nodes) /\ ReadingIs(reader, moments, backend.sees)
  BY DEF GraphInv
<1>2. /\ reader.stage = "again" /\ reader.kind = "neighborhood" /\ reader.nodes = <<>>
      /\ reader.root \in GraphNodes /\ reader.left = reader.depth /\ reader.depth > 0
      /\ reader.found = {} /\ reader.next = {}
  BY <1>1 DEF FindRoot, ReadingIs
<1>3. BeingRead
  BY <1>2 DEF BeingRead
<1>4. CASE reader.root \in standing.nodes
  <2>1. reader' = [reader EXCEPT !.stage = "expand", !.visited = {reader.root}, !.frontier = {reader.root}]
    BY <1>4 DEF FindRoot
  <2>2. reader' \in Readers
    BY <1>1, <1>2, <2>1 DEF Readers
  <2>3. /\ reader'.stage = "expand" /\ reader'.visited = {reader.root} /\ reader'.frontier = {reader.root}
        /\ reader'.kind = reader.kind /\ reader'.nodes = reader.nodes /\ reader'.root = reader.root
        /\ reader'.left = reader.left /\ reader'.depth = reader.depth
        /\ reader'.found = reader.found /\ reader'.next = reader.next
    BY <1>1, <2>1 DEF Readers
  <2>4. reader'.left \in 1..reader'.depth /\ reader'.depth - reader'.left = 0
    <3>1. reader.depth \in Nat
      BY <1>1 DEF Readers
    <3>2. reader'.left = reader.depth /\ reader'.depth = reader.depth /\ reader.depth > 0
      BY <1>2, <2>3
    <3> QED BY <3>1, <3>2
  <2>5. /\ Reach(moments.everEdges, reader.root, 0) = {reader.root}
        /\ Reach(moments.steadyEdges, reader.root, 0) = {reader.root}
    BY <1>2, ReachNone
  <2>6. EdgesAt(moments.steadyEdges, reader'.visited \ reader'.frontier) = {}
    BY <2>3 DEF EdgesAt
  <2>7. Explored(reader', moments)
    BY <1>2, <2>3, <2>4, <2>5, <2>6 DEF Explored
  <2>8. ReadingIs(reader', moments, backend.sees)
    BY <1>2, <2>3, <2>7 DEF ReadingIs
  <2> QED BY <1>1, <1>3, <2>2, <2>3, <2>8, ReadingGoesOn
<1>5. CASE reader.root \notin standing.nodes
  <2>1. reader' = [reader EXCEPT !.stage = "refused"]
    BY <1>5 DEF FindRoot
  <2>2. reader' \in Readers /\ reader'.stage = "refused" /\ reader'.nodes = reader.nodes
    BY <1>1, <2>1 DEF Readers
  <2>3. ReadingIs(reader', moments, backend.sees)
    BY <2>2 DEF ReadingIs
  <2> QED BY <1>1, <1>3, <2>2, <2>3, ReadingGoesOn
<1> QED BY <1>4, <1>5

(* The graph changes under a reading. *)
LEMMA ChangedGraphKeeps == ASSUME GraphInv, GraphReadsNext, Changing PROVE GraphInv'
<1>1. reader \in Readers /\ IsInjective(reader.nodes) /\ ReadingIs(reader, moments, backend.sees)
  BY DEF GraphInv
<1>2. reader' = reader /\ reader.stage \notin {"done", "refused"}
  BY DEF Changing
<1>3. CASE reader.stage = "idle"
  <2>1. \A m : ReadingIs(reader', m, backend.sees)
    BY <1>2, <1>3 DEF ReadingIs
  <2> QED BY <1>1, <1>2, <1>3, <2>1, ReadingBegins DEF BeingRead
<1>4. CASE reader.stage # "idle"
  BY <1>1, <1>2, <1>4, ReadingGoesOn DEF BeingRead
<1> QED BY <1>3, <1>4

(* A node of the frontier is gone through. *)
LEMMA NodeExpanded ==
    ASSUME NEW r \in Readers, NEW m, Explored(r, m), NEW edges, edges \subseteq GraphEdges,
           edges \subseteq m.everEdges, m.steadyEdges \subseteq edges, NEW n \in r.frontier,
           NEW new, new = {e \in edges : n \in Ends(e)} \ r.found,
           NEW q \in Readers, q.frontier = r.frontier \ {n}, q.found = r.found \cup new,
           r.next \subseteq q.next, \A o \in q.next : o \in r.next \/ \E e \in new : o \in Ends(e),
           \A e \in new : Ends(e) \subseteq r.visited \cup {n} \cup q.next,
           q.visited = r.visited, q.root = r.root, q.depth = r.depth, q.left = r.left
    PROVE  Explored(q, m)
<1>1. PICK k, root : k = r.depth - r.left /\ root = r.root
  OBVIOUS
<1>2. k \in Nat
  <2>1. r.left \in 1..r.depth /\ r.depth \in Nat
    BY DEF Explored, Readers
  <2> QED BY <1>1, <2>1
<1>3. n \in r.visited /\ n \in Reach(m.everEdges, root, k)
  BY <1>1 DEF Explored
<1>4. q.next \subseteq Reach(m.everEdges, root, k + 1)
  <2> SUFFICES ASSUME NEW e \in new, NEW o \in Ends(e) PROVE o \in Reach(m.everEdges, root, k + 1)
    BY <1>1 DEF Explored
  <2>1. e \in m.everEdges /\ {n, o} \subseteq Ends(e) /\ o \in GraphNodes
    BY GraphFacts
  <2> QED BY <1>2, <1>3, <2>1, ReachFurther
<1>5. q.found \subseteq EdgesAt(m.everEdges, Reach(m.everEdges, root, k))
  BY <1>1, <1>3 DEF Explored, EdgesAt
<1>6. EdgesAt(m.steadyEdges, q.visited \ q.frontier) \subseteq q.found
  <2> SUFFICES ASSUME NEW e \in m.steadyEdges, NEW o \in Ends(e), o \in r.visited \ (r.frontier \ {n})
               PROVE  e \in q.found
    BY DEF EdgesAt
  <2>1. CASE o = n
    BY <2>1
  <2>2. CASE o # n
    BY <2>2 DEF Explored, EdgesAt
  <2> QED BY <2>1, <2>2
<1>7. ASSUME NEW e \in q.found PROVE Ends(e) \subseteq q.visited \cup q.next
  <2>1. CASE e \in r.found
    BY <2>1 DEF Explored
  <2>2. CASE e \in new
    <3>1. Ends(e) \subseteq r.visited \cup {n} \cup q.next
      BY <2>2
    <3> QED BY <1>3, <3>1
  <2> QED BY <1>7, <2>1, <2>2
<1>8. q.frontier \subseteq q.visited
  BY DEF Explored
<1> QED BY <1>1, <1>4, <1>5, <1>6, <1>7, <1>8 DEF Explored

(* The round after one that is through. *)
LEMMA NextRound ==
    ASSUME NEW r \in Readers, NEW m, Explored(r, m), r.frontier = {}, r.left - 1 # 0,
           NEW q \in Readers, q.left = r.left - 1, q.visited = r.visited \cup r.next,
           q.frontier = r.next, q.next = {}, q.found = r.found, q.root = r.root, q.depth = r.depth
    PROVE  Explored(q, m)
<1>1. PICK k, root : k = r.depth - r.left /\ root = r.root
  OBVIOUS
<1>2. k \in Nat /\ k + 1 \in Nat /\ k <= k + 1 /\ q.depth - q.left = k + 1 /\ q.left \in 1..q.depth
  <2>1. r.left \in 1..r.depth /\ r.depth \in Nat
    BY DEF Explored, Readers
  <2> QED BY <1>1, <2>1
<1>3. /\ r.visited \subseteq Reach(m.everEdges, root, k) /\ r.next \subseteq Reach(m.everEdges, root, k + 1)
      /\ r.found \subseteq EdgesAt(m.everEdges, Reach(m.everEdges, root, k))
      /\ Reach(m.steadyEdges, root, k) \subseteq r.visited
      /\ EdgesAt(m.steadyEdges, r.visited) \subseteq r.found
      /\ \A e \in r.found : Ends(e) \subseteq r.visited \cup r.next
  <2>1. r.visited \ r.frontier = r.visited
    OBVIOUS
  <2> QED BY <1>1, <2>1 DEF Explored
<1>4. Reach(m.everEdges, root, k) \subseteq Reach(m.everEdges, root, k + 1)
  BY <1>2, ReachLater
<1>5. q.visited \subseteq Reach(m.everEdges, root, k + 1)
  BY <1>3, <1>4
<1>6. q.found \subseteq EdgesAt(m.everEdges, Reach(m.everEdges, root, k + 1))
  BY <1>3, <1>4 DEF EdgesAt
<1>7. ASSUME NEW o \in Reach(m.steadyEdges, root, k + 1) PROVE o \in q.visited
  <2>1. PICK n \in Reach(m.steadyEdges, root, k) : o = n \/ \E e \in m.steadyEdges : {n, o} \subseteq Ends(e)
    BY <1>2, ReachBack
  <2>2. n \in r.visited
    BY <1>3
  <2>3. ASSUME NEW e \in m.steadyEdges, {n, o} \subseteq Ends(e) PROVE o \in q.visited
    <3>1. e \in r.found
      BY <1>3, <2>2, <2>3 DEF EdgesAt
    <3> QED BY <1>3, <2>3, <3>1
  <2> QED BY <2>1, <2>2, <2>3
<1>8. EdgesAt(m.steadyEdges, q.visited \ q.frontier) \subseteq q.found
  BY <1>3 DEF EdgesAt
<1>9. r.root \in q.visited /\ q.frontier \subseteq q.visited
  BY DEF Explored
<1> QED BY <1>1, <1>2, <1>3, <1>5, <1>6, <1>7, <1>8, <1>9 DEF Explored

(* What has been found when the last round is through, or when a round has  *)
(* nowhere to go on to.                                                    *)
LEMMA LastRound ==
    ASSUME NEW r \in Readers, NEW m, Explored(r, m), r.frontier = {}, r.left - 1 = 0 \/ r.next = {}
    PROVE  /\ r.depth > 0 /\ r.root \in GraphNodes
           /\ r.found \subseteq Within(m.everEdges, r.root, r.depth)
           /\ Within(m.steadyEdges, r.root, r.depth) \subseteq r.found
<1>1. PICK k, root, last : k = r.depth - r.left /\ root = r.root /\ last = r.depth - 1
  OBVIOUS
<1>2. /\ k \in Nat /\ last \in Nat /\ k <= last /\ r.depth \in Nat /\ r.depth > 0
      /\ r.left - 1 = 0 => k = last
  <2>1. r.left \in 1..r.depth /\ r.depth \in Nat
    BY DEF Explored, Readers
  <2> QED BY <1>1, <2>1
<1>3. r.root \in r.visited /\ r.root \in GraphNodes
  BY DEF Explored, Readers
<1>4. /\ Within(m.everEdges, r.root, r.depth) = EdgesAt(m.everEdges, Reach(m.everEdges, root, last))
      /\ Within(m.steadyEdges, r.root, r.depth) = EdgesAt(m.steadyEdges, Reach(m.steadyEdges, root, last))
  BY <1>1, <1>2, WithinReach
<1>5. Reach(m.everEdges, root, k) \subseteq Reach(m.everEdges, root, last)
  BY <1>2, ReachLater
<1>6. r.found \subseteq Within(m.everEdges, r.root, r.depth)
  BY <1>1, <1>4, <1>5 DEF Explored, EdgesAt
<1>7. EdgesAt(m.steadyEdges, r.visited) \subseteq r.found
  <2>1. r.visited \ r.frontier = r.visited
    OBVIOUS
  <2> QED BY <2>1 DEF Explored
<1>8. Reach(m.steadyEdges, root, last) \subseteq r.visited
  <2>1. CASE r.left - 1 = 0
    BY <1>1, <1>2, <2>1 DEF Explored
  <2>2. CASE r.next = {}
    <3>1. ASSUME NEW e \in m.steadyEdges, NEW n \in Ends(e), NEW o \in Ends(e), n \in r.visited
          PROVE  o \in r.visited
      <4>1. e \in r.found
        BY <1>7, <3>1 DEF EdgesAt
      <4> QED BY <2>2, <4>1 DEF Explored
    <3> QED BY <1>1, <1>2, <1>3, <3>1, ReachClosed
  <2> QED BY <2>1, <2>2
<1>9. Within(m.steadyEdges, r.root, r.depth) \subseteq r.found
  BY <1>4, <1>7, <1>8 DEF EdgesAt
<1> QED BY <1>2, <1>3, <1>6, <1>9

(* What Rank makes of what was found. *)
LEMMA RankFound ==
    ASSUME NEW r \in Readers, r.root \in GraphNodes
    PROVE  /\ Rank(r) \in Readers /\ Rank(r).stage = "look up" /\ Rank(r).edges \subseteq r.found
           /\ ~Rank(r).truncated => Rank(r).edges = r.found
           /\ Rank(r).lookups = {r.root} \cup UNION {Ends(e) : e \in Rank(r).edges}
           /\ Rank(r).kind = r.kind /\ Rank(r).nodes = r.nodes
           /\ Rank(r).root = r.root /\ Rank(r).depth = r.depth
<1> DEFINE kept == r.found \ Weak(r.found, r.floor)
           some == {e \in kept : Cardinality({f \in kept : Stronger(f, e)}) < r.limit}
<1>1. PICK shown, lookups, hidden :
         /\ shown = some
         /\ lookups = {r.root} \cup UNION {Ends(e) : e \in shown}
         /\ hidden = Cardinality(r.found) - Cardinality(shown)
  OBVIOUS
<1>2. PICK cut : cut = (shown # r.found)
  OBVIOUS
<1>3. shown \subseteq r.found /\ r.found \subseteq GraphEdges
  BY <1>1 DEF Readers
<1>4. Rank(r) = [r EXCEPT !.stage = "look up", !.edges = shown, !.lookups = lookups, !.hidden = hidden,
                          !.truncated = cut, !.found = {}, !.frontier = {}, !.next = {}]
  BY <1>2, <1>1 DEF Rank
<1> HIDE DEF kept, some
<1>5. hidden \in Int
  <2>1. IsFiniteSet(r.found) /\ IsFiniteSet(shown)
    BY <1>3, GraphFacts, FS_Subset
  <2>2. Cardinality(r.found) \in Nat /\ Cardinality(shown) \in Nat
    BY <2>1, FS_CardinalityType
  <2> QED BY <1>1, <2>2
<1>6. lookups \subseteq GraphNodes /\ shown \subseteq GraphEdges
  BY <1>1, <1>3, GraphFacts
<1>7. cut \in BOOLEAN
  BY <1>2, Zenon
<1>8. PICK q : q = Rank(r)
  OBVIOUS
<1>9. q = [r EXCEPT !.stage = "look up", !.edges = shown, !.lookups = lookups, !.hidden = hidden,
                     !.truncated = cut, !.found = {}, !.frontier = {}, !.next = {}]
  BY <1>4, <1>8
<1>10. q \in Readers
  BY <1>5, <1>6, <1>7, <1>9 DEF Readers
<1>11. /\ q.stage = "look up" /\ q.edges = shown /\ q.lookups = lookups
      /\ q.kind = r.kind /\ q.nodes = r.nodes /\ q.root = r.root /\ q.depth = r.depth
  BY <1>4, <1>8 DEF Readers
<1>12. q.truncated = cut
  BY <1>4, <1>8 DEF Readers
<1>13. ~q.truncated => shown = r.found
  BY <1>2, <1>12, Zenon
<1> QED BY <1>1, <1>3, <1>8, <1>10, <1>11, <1>13

(* However a round ends. *)
LEMMA RoundEnds ==
    ASSUME NEW r \in Readers, NEW m, Explored(r, m), r.stage = "expand", r.kind = "neighborhood", r.nodes = <<>>,
           NEW sees
    PROVE  /\ EndRound(r) \in Readers /\ EndRound(r).nodes = <<>> /\ EndRound(r).stage # "idle"
           /\ ReadingIs(EndRound(r), m, sees)
<1>1. CASE r.frontier # {}
  <2>1. EndRound(r) = r
    BY <1>1 DEF EndRound
  <2> QED BY <2>1 DEF ReadingIs
<1>2. CASE r.frontier = {}
  <2>1. PICK round : round = [r EXCEPT !.visited = r.visited \cup r.next, !.frontier = r.next, !.next = {},
                                       !.left = r.left - 1]
    OBVIOUS
  <2>2. r.left - 1 \in Nat
    <3>1. r.left \in 1..r.depth /\ r.depth \in Nat
      BY DEF Explored, Readers
    <3> QED BY <3>1
  <2>3. round \in Readers
    BY <2>1, <2>2 DEF Readers
  <2>4. /\ round.left = r.left - 1 /\ round.visited = r.visited \cup r.next /\ round.frontier = r.next
        /\ round.next = {} /\ round.found = r.found /\ round.root = r.root /\ round.depth = r.depth
        /\ round.kind = r.kind /\ round.stage = r.stage /\ round.nodes = r.nodes
    BY <2>1 DEF Readers
  <2>5. EndRound(r) = IF round.left = 0 \/ round.frontier = {} THEN Rank(round) ELSE round
    BY <1>2, <2>1 DEF EndRound
  <2>6. CASE ~(round.left = 0 \/ round.frontier = {})
    <3>1. EndRound(r) = round
      BY <2>5, <2>6
    <3>2. Explored(round, m)
      BY <1>2, <2>3, <2>4, <2>6, NextRound
    <3> QED BY <2>3, <2>4, <3>1, <3>2 DEF ReadingIs
  <2>7. CASE round.left = 0 \/ round.frontier = {}
    <3>1. PICK q : q = Rank(round)
      OBVIOUS
    <3>2. EndRound(r) = q
      BY <2>5, <2>7, <3>1
    <3>3. /\ r.depth > 0 /\ r.root \in GraphNodes
          /\ r.found \subseteq Within(m.everEdges, r.root, r.depth)
          /\ Within(m.steadyEdges, r.root, r.depth) \subseteq r.found
      BY <1>2, <2>4, <2>7, LastRound
    <3>4. /\ q \in Readers /\ q.stage = "look up" /\ q.edges \subseteq r.found
          /\ ~q.truncated => q.edges = r.found
          /\ q.lookups = {r.root} \cup UNION {Ends(e) : e \in q.edges}
          /\ q.kind = "neighborhood" /\ q.nodes = <<>> /\ q.root = r.root /\ q.depth = r.depth
      BY <2>3, <2>4, <3>1, <3>3, RankFound
    <3>5. /\ q.edges \subseteq Within(m.everEdges, q.root, q.depth)
          /\ ~q.truncated => Within(m.steadyEdges, q.root, q.depth) \subseteq q.edges
      BY <3>3, <3>4
    <3>6. \A e \in q.edges : \A n \in Ends(e) : n \in q.lookups
      BY <3>4
    <3>7. Range(q.nodes) = {}
      <4>1. q.nodes = <<>>
        BY <3>4
      <4> QED BY <4>1 DEF Range
    <3>8. Ranked(q, m)
      BY <3>3, <3>4, <3>5, <3>6, <3>7 DEF Ranked
    <3> QED BY <3>2, <3>4, <3>8 DEF ReadingIs
  <2> QED BY <2>6, <2>7
<1> QED BY <1>1, <1>2

LEMMA ExpandNodeKeeps == ASSUME GraphInv, GraphReadsNext, ExpandNode PROVE GraphInv'
<1>1. /\ reader \in Readers /\ standing \in Graphs
      /\ ReadingIs(reader, moments, backend.sees) /\ MomentsWere
  BY DEF GraphInv
<1>2. reader.stage = "expand"
  BY DEF ExpandNode
<1>3. /\ reader.kind = "neighborhood" /\ reader.nodes = <<>> /\ Explored(reader, moments)
  BY <1>1, <1>2 DEF ReadingIs
<1>4. PICK edges : edges = standing.edges
  OBVIOUS
<1>5. /\ edges \subseteq GraphEdges /\ edges \subseteq moments.everEdges
      /\ moments.steadyEdges \subseteq edges
  BY <1>1, <1>2, <1>4 DEF Graphs, MomentsWere
<1>6. PICK n \in reader.frontier :
         LET new == IncidentEdges(n) \ reader.found IN
         reader' = EndRound([reader EXCEPT
             !.frontier = @ \ {n}, !.found = @ \cup new,
             !.next = @ \cup ((UNION {Ends(e) : e \in new}) \ (reader.visited \cup {n}))])
  BY DEF ExpandNode
<1>7. PICK new : new = IncidentEdges(n) \ reader.found
  OBVIOUS
<1>8. PICK next : next = reader.next \cup ((UNION {Ends(e) : e \in new}) \ (reader.visited \cup {n}))
  OBVIOUS
<1>9. /\ reader.next \subseteq next /\ \A o \in next : o \in reader.next \/ \E e \in new : o \in Ends(e)
      /\ \A e \in new : Ends(e) \subseteq reader.visited \cup {n} \cup next
  <2>1. PICK ends : ends = UNION {Ends(e) : e \in new}
    OBVIOUS
  <2>2. next = reader.next \cup (ends \ (reader.visited \cup {n}))
    BY <1>8, <2>1
  <2>3. \A o \in ends : \E e \in new : o \in Ends(e)
    BY <2>1
  <2>4. \A e \in new : Ends(e) \subseteq ends
    BY <2>1
  <2> QED BY <2>2, <2>3, <2>4
<1>10. PICK q : q = [reader EXCEPT !.frontier = reader.frontier \ {n}, !.found = reader.found \cup new, !.next = next]
  OBVIOUS
<1>11. reader' = EndRound(q)
  <2>1. reader' = EndRound([reader EXCEPT
             !.frontier = reader.frontier \ {n}, !.found = reader.found \cup new,
             !.next = reader.next \cup ((UNION {Ends(e) : e \in new}) \ (reader.visited \cup {n}))])
    BY <1>6, <1>7
  <2> QED BY <1>8, <1>10, <2>1
<1>12. new = {e \in edges : n \in Ends(e)} \ reader.found
  BY <1>4, <1>7 DEF IncidentEdges
<1>13. new \subseteq GraphEdges /\ next \subseteq GraphNodes
  <2>1. new \subseteq GraphEdges
    BY <1>5, <1>12
  <2>2. reader.next \subseteq GraphNodes
    BY <1>1 DEF Readers
  <2> QED BY <1>9, <2>1, <2>2, GraphFacts
<1>14. q \in Readers
  BY <1>1, <1>10, <1>13 DEF Readers
<1>15. /\ q.frontier = reader.frontier \ {n} /\ q.found = reader.found \cup new /\ q.next = next
       /\ q.visited = reader.visited /\ q.root = reader.root /\ q.depth = reader.depth /\ q.left = reader.left
       /\ q.stage = reader.stage /\ q.kind = reader.kind /\ q.nodes = reader.nodes
  BY <1>1, <1>10 DEF Readers
<1>16. /\ reader.next \subseteq q.next /\ \A o \in q.next : o \in reader.next \/ \E e \in new : o \in Ends(e)
       /\ \A e \in new : Ends(e) \subseteq reader.visited \cup {n} \cup q.next
  BY <1>9, <1>15
<1>17. Explored(q, moments)
  BY <1>1, <1>3, <1>5, <1>14, <1>15, <1>12, <1>16, NodeExpanded
<1>18. PICK sees : sees = backend.sees
  OBVIOUS
<1>19. /\ reader' \in Readers /\ reader'.nodes = <<>> /\ reader'.stage # "idle"
       /\ ReadingIs(reader', moments, backend.sees)
  BY <1>2, <1>3, <1>11, <1>14, <1>15, <1>17, <1>18, RoundEnds
<1>20. IsInjective(reader'.nodes)
  BY <1>19, NothingAskedFacts
<1> QED BY <1>2, <1>19, <1>20, ReadingGoesOn DEF BeingRead

LEMMA LookUpNodeKeeps == ASSUME GraphInv, GraphReadsNext, LookUpNode PROVE GraphInv'
<1>1. /\ reader \in Readers /\ standing \in Graphs /\ IsInjective(reader.nodes)
      /\ ReadingIs(reader, moments, backend.sees) /\ MomentsWere
  BY DEF GraphInv
<1>2. reader.stage = "look up"
  BY DEF LookUpNode
<1>3. reader.kind = "neighborhood" /\ Ranked(reader, moments)
  BY <1>1, <1>2 DEF ReadingIs
<1>4. PICK n \in reader.lookups :
          reader' = [reader EXCEPT
             !.lookups = @ \ {n},
             !.nodes = IF n \in standing.nodes THEN Append(@, n) ELSE @,
             !.stage = IF reader.lookups = {n} THEN "done" ELSE @]
  BY DEF LookUpNode
<1>5. PICK nodes, stage : /\ nodes = IF n \in standing.nodes THEN Append(reader.nodes, n) ELSE reader.nodes
                          /\ stage = IF reader.lookups = {n} THEN "done" ELSE reader.stage
  OBVIOUS
<1>6. reader' = [reader EXCEPT !.lookups = reader.lookups \ {n}, !.nodes = nodes, !.stage = stage]
  BY <1>4, <1>5
<1>7. n \in GraphNodes /\ reader.nodes \in Seq(GraphNodes) /\ n \notin Range(reader.nodes)
  BY <1>1, <1>3 DEF Readers, Ranked
<1>8. /\ nodes \in Seq(GraphNodes) /\ IsInjective(nodes)
      /\ Range(nodes) = Range(reader.nodes) \cup (IF n \in standing.nodes THEN {n} ELSE {})
  <2>1. CASE n \notin standing.nodes
    BY <1>1, <1>5, <1>7, <2>1
  <2>2. CASE n \in standing.nodes
    <3>1. nodes = Append(reader.nodes, n)
      BY <1>5, <2>2
    <3>2. PICK old : old = reader.nodes
      OBVIOUS
    <3>3. old \in Seq(GraphNodes) /\ n \notin Range(old) /\ IsInjective(old) /\ nodes = Append(old, n)
      BY <1>1, <1>7, <3>1, <3>2
    <3>4. /\ nodes \in Seq(GraphNodes) /\ Len(old) \in Nat /\ DOMAIN old = 1..Len(old)
          /\ DOMAIN nodes = 1..(Len(old) + 1) /\ nodes[Len(old) + 1] = n
          /\ \A i \in 1..Len(old) : nodes[i] = old[i]
      BY <1>7, <3>3
    <3>5. \A i \in 1..(Len(old) + 1) : i = Len(old) + 1 \/ i \in 1..Len(old)
      BY <3>4
    <3>6. \A i \in 1..Len(old) : old[i] # n
      BY <3>3, <3>4 DEF Range
    <3>7. IsInjective(nodes)
      BY <3>3, <3>4, <3>5, <3>6 DEF IsInjective
    <3>8. 1..Len(old) \subseteq 1..(Len(old) + 1) /\ Len(old) + 1 \in 1..(Len(old) + 1)
      BY <3>4
    <3>9. Range(nodes) = Range(old) \cup {n}
      BY <3>4, <3>5, <3>8 DEF Range
    <3> QED BY <2>2, <3>2, <3>4, <3>7, <3>9
  <2> QED BY <2>1, <2>2
<1>9. stage \in {"look up", "done"} /\ (stage = "done" => reader.lookups \ {n} = {})
  BY <1>2, <1>5
<1>10. reader' \in Readers
  BY <1>1, <1>6, <1>8, <1>9 DEF Readers
<1>11. /\ reader'.lookups = reader.lookups \ {n} /\ reader'.nodes = nodes /\ reader'.stage = stage
       /\ reader'.kind = reader.kind /\ reader'.root = reader.root /\ reader'.depth = reader.depth
       /\ reader'.edges = reader.edges
  BY <1>1, <1>6 DEF Readers
<1>12. reader'.truncated = reader.truncated
  BY <1>1, <1>6 DEF Readers
<1>13. moments.steadyNodes \subseteq standing.nodes
  BY <1>1, <1>2 DEF MomentsWere
<1>14. ASSUME NEW e \in reader'.edges, NEW o \in Ends(e)
       PROVE  o \in reader'.lookups \/ o \in Range(reader'.nodes) \/ o \notin moments.steadyNodes
  <2>1. o \in reader.lookups \/ o \in Range(reader.nodes) \/ o \notin moments.steadyNodes
    BY <1>3, <1>11 DEF Ranked
  <2> QED BY <1>8, <1>11, <1>13, <2>1
<1>15. reader'.lookups \cap Range(reader'.nodes) = {}
  BY <1>3, <1>8, <1>11 DEF Ranked
<1>16. /\ reader'.edges \subseteq Within(moments.everEdges, reader'.root, reader'.depth)
       /\ ~reader'.truncated => Within(moments.steadyEdges, reader'.root, reader'.depth) \subseteq reader'.edges
       /\ reader'.depth > 0
  BY <1>3, <1>11, <1>12 DEF Ranked
<1>17. Ranked(reader', moments)
  BY <1>14, <1>15, <1>16 DEF Ranked
<1>18. ReadingIs(reader', moments, backend.sees)
  BY <1>3, <1>9, <1>11, <1>17 DEF ReadingIs
<1> QED BY <1>2, <1>8, <1>9, <1>10, <1>11, <1>18, ReadingGoesOn DEF BeingRead

(* A page of the nodes after a cursor: its nodes once, all up to its last   *)
(* one, and all there are when there is no cursor to go on from.           *)
LEMMA NodePage ==
    ASSUME standing \in Graphs, NEW cursor \in Nat
    PROVE  /\ PageAfter(cursor) \in Seq(NodesAfter(cursor)) /\ IsInjective(PageAfter(cursor))
           /\ CursorAfter(cursor) \in Nat
           /\ CursorAfter(cursor) = 0 => \A n \in NodesAfter(cursor) : n \in Range(PageAfter(cursor))
           /\ CursorAfter(cursor) # 0 =>
                 /\ CursorAfter(cursor) > cursor
                 /\ \A n \in Range(PageAfter(cursor)) : n <= CursorAfter(cursor)
                 /\ \A n \in NodesAfter(cursor) : n <= CursorAfter(cursor) => n \in Range(PageAfter(cursor))
<1> DEFINE S == NodesAfter(cursor)
           order == Ascending(GraphNodes)
           s == InOrder(S, order)
           few == PageAfter(cursor)
<1>1. S \in SUBSET GraphNodes /\ \A n \in S : n \in Nat /\ n > cursor
  <2>1. \A n \in GraphNodes : n \in Nat
    BY GraphFacts
  <2> QED BY <2>1 DEF Graphs, NodesAfter
<1>2. /\ IsFiniteSet(S) /\ Total(order, S)
      /\ \A n, o \in GraphNodes : <<n, o>> \in order <=> n < o
  <2>1. GraphNodes \in SUBSET Int /\ IsFiniteSet(GraphNodes)
    BY GraphFacts
  <2> HIDE DEF S
  <2> QED BY <1>1, <2>1, AscendingFacts, FS_Subset
<1>3. few = FirstFew(s, NodesPerPage) /\ NodesPerPage \in Nat /\ NodesPerPage > 0
  <2>1. NodesPerPage \in Nat \ {0}
    BY GraphReadsAssumption
  <2> QED BY <2>1 DEF PageAfter
<1> HIDE DEF S, order, few
<1>4. s \in Seq(S) /\ IsInjective(s) /\ Len(s) = Cardinality(S)
  BY <1>2, InOrderFacts, InOrderOnce
<1>5. /\ few \in Seq(S) /\ Ascends(few, order)
      /\ Len(few) = IF Len(s) < NodesPerPage THEN Len(s) ELSE NodesPerPage
      /\ \A n \in S : \/ \E i \in 1..Len(few) : few[i] = n
                      \/ /\ Len(few) = NodesPerPage /\ NodesPerPage < Len(s)
                         /\ \A i \in 1..Len(few) : <<few[i], n>> \in order
  <2>1. few = FirstFew(InOrder(S, order), NodesPerPage) /\ s = InOrder(S, order)
    BY <1>3
  <2>2. NodesPerPage \in Nat
    BY <1>3
  <2> HIDE DEF s
  <2>3. LET t == InOrder(S, order)
            first == FirstFew(t, NodesPerPage)
        IN  /\ first \in Seq(S) /\ Ascends(first, order)
            /\ Len(first) = IF Len(t) < NodesPerPage THEN Len(t) ELSE NodesPerPage
            /\ \A n \in S : \/ \E i \in 1..Len(first) : first[i] = n
                            \/ /\ Len(first) = NodesPerPage /\ NodesPerPage < Len(t)
                               /\ \A i \in 1..Len(first) : <<first[i], n>> \in order
    BY <1>2, <2>2, PageFacts
  <2> QED BY <2>1, <2>3, Zenon
<1> HIDE DEF s
<1>6. IsInjective(few)
  BY <1>3, <1>4, FirstFewRows
<1>7. Len(few) \in Nat /\ DOMAIN few = 1..Len(few) /\ \A i \in 1..Len(few) : few[i] \in S
  BY <1>5
<1>8. PICK more \in BOOLEAN, full \in BOOLEAN :
         /\ full <=> Len(few) = NodesPerPage
         /\ more <=> full /\ (backend.store = "neo4j" \/ Len(few) < Cardinality(S))
  OBVIOUS
<1>9. CursorAfter(cursor) = IF more THEN Last(few) ELSE 0
  BY <1>8 DEF CursorAfter, few, S
<1>10. \A n \in S : n \in Range(few) \/ (full /\ Len(few) < Len(s) /\ \A i \in 1..Len(few) : <<few[i], n>> \in order)
  <2> SUFFICES ASSUME NEW n \in S
               PROVE  \/ n \in Range(few)
                      \/ full /\ Len(few) < Len(s) /\ \A i \in 1..Len(few) : <<few[i], n>> \in order
    OBVIOUS
  <2>1. CASE \E i \in 1..Len(few) : few[i] = n
    BY <1>7, <2>1 DEF Range
  <2>2. CASE ~ \E i \in 1..Len(few) : few[i] = n
    BY <1>5, <1>8, <2>2
  <2> QED BY <2>1, <2>2
<1>11. CASE ~more
  <2>1. CursorAfter(cursor) = 0
    BY <1>9, <1>11
  <2>2. ~(full /\ Len(few) < Len(s))
    BY <1>4, <1>8, <1>11
  <2> QED BY <1>5, <1>6, <1>10, <2>1, <2>2 DEF S, few
<1>12. CASE more
  <2>1. Len(few) \in 1..Len(few)
    <3>1. Len(few) = NodesPerPage
      BY <1>8, <1>12
    <3> QED BY <1>3, <3>1
  <2>2. PICK last : last = few[Len(few)]
    OBVIOUS
  <2>3. CursorAfter(cursor) = last /\ last \in S
    BY <1>7, <1>9, <1>12, <2>1, <2>2 DEF Last
  <2>4. last \in Nat /\ last > cursor /\ last # 0 /\ last \in GraphNodes
    BY <1>1, <2>3
  <2>5. ASSUME NEW n \in Range(few) PROVE n <= last
    <3>1. PICK i \in 1..Len(few) : n = few[i]
      BY <1>7, <2>5 DEF Range
    <3>2. n \in S /\ n \in GraphNodes /\ n \in Nat
      BY <1>1, <1>7, <3>1
    <3>3. CASE i < Len(few)
      <4>1. <<n, last>> \in order
        BY <1>5, <2>1, <2>2, <3>1, <3>3 DEF Ascends
      <4>2. n < last
        BY <1>2, <2>4, <3>2, <4>1
      <4> QED BY <2>4, <3>2, <4>2
    <3>4. CASE i = Len(few)
      BY <2>2, <2>4, <3>1, <3>4
    <3>5. i < Len(few) \/ i = Len(few)
      <4>1. i \in 1..Len(few)
        BY <3>1
      <4>2. Len(few) \in Nat
        BY <1>7
      <4>3. \A size \in Nat : \A j \in 1..size : j < size \/ j = size
        OBVIOUS
      <4> QED BY <4>1, <4>2, <4>3
    <3> QED BY <3>3, <3>4, <3>5
  <2>6. ASSUME NEW n \in S, n <= last PROVE n \in Range(few)
    <3>1. CASE \A i \in 1..Len(few) : <<few[i], n>> \in order
      <4>1. <<last, n>> \in order
        BY <2>1, <2>2, <3>1
      <4>2. n \in GraphNodes /\ n \in Nat
        BY <1>1, <2>6
      <4>3. last < n
        BY <1>2, <2>4, <4>1, <4>2
      <4> QED BY <2>4, <2>6, <4>2, <4>3
    <3>2. CASE ~ \A i \in 1..Len(few) : <<few[i], n>> \in order
      BY <1>10, <3>2
    <3> QED BY <3>1, <3>2
  <2> QED BY <1>5, <1>6, <2>3, <2>4, <2>5, <2>6 DEF S, few
<1> QED BY <1>11, <1>12

LEMMA ReadPageKeeps == ASSUME GraphInv, GraphReadsNext, ReadPage PROVE GraphInv'
<1>1. /\ reader \in Readers /\ standing \in Graphs /\ IsInjective(reader.nodes)
      /\ ReadingIs(reader, moments, backend.sees) /\ MomentsWere
  BY DEF GraphInv
<1>2. reader.stage = "page"
  BY DEF ReadPage
<1>3. reader.kind = "pages" /\ PagedTo(reader, moments, backend.sees)
  BY <1>1, <1>2 DEF ReadingIs
<1>4. reader.cursor \in Nat /\ reader.nodes \in Seq(GraphNodes) /\ reader.edges \subseteq GraphEdges
  BY <1>1 DEF Readers
<1>5. PICK old, few, cursor, seen : /\ old = reader.cursor /\ few = PageAfter(reader.cursor)
                                    /\ cursor = CursorAfter(reader.cursor) /\ seen = {n \in GraphNodes : MaySee(n)}
  OBVIOUS
<1>6. PICK shown, touched :
         /\ shown = Where(few, seen)
         /\ touched = {e \in {f \in standing.edges : Ends(f) \cap Range(few) # {}} :
                         Ends(e) \cap {n \in Range(few) : ~MaySee(n)} = {}}
  OBVIOUS
<1>7. reader' = [reader EXCEPT !.nodes = reader.nodes \o shown, !.edges = reader.edges \cup touched,
                               !.cursor = cursor, !.stage = IF cursor = 0 THEN "done" ELSE "page"]
  BY <1>5, <1>6 DEF ReadPage
<1>8. PICK nodes, stage : nodes = reader.nodes \o shown /\ stage = IF cursor = 0 THEN "done" ELSE "page"
  OBVIOUS
<1>9. reader' = [reader EXCEPT !.nodes = nodes, !.edges = reader.edges \cup touched,
                               !.cursor = cursor, !.stage = stage]
  BY <1>7, <1>8
<1> DEFINE S == NodesAfter(old)
<1>10. \A n \in S : n \in standing.nodes /\ n \in GraphNodes /\ n > old
  BY <1>1, <1>5 DEF Graphs, NodesAfter
<1>11. \A n \in standing.nodes : n > old => n \in S
  BY <1>5 DEF NodesAfter
<1> HIDE DEF S
<1>12. /\ old \in Nat /\ few \in Seq(S) /\ IsInjective(few) /\ cursor \in Nat
       /\ cursor = 0 => \A n \in S : n \in Range(few)
       /\ cursor # 0 => /\ cursor > old
                        /\ \A n \in Range(few) : n <= cursor
                        /\ \A n \in S : n <= cursor => n \in Range(few)
  BY <1>1, <1>4, <1>5, NodePage DEF S
<1>13. shown \in Seq(S \cap seen) /\ Range(shown) = Range(few) \cap seen /\ IsInjective(shown)
  BY <1>6, <1>12, WhereFacts
<1>14. shown \in Seq(GraphNodes)
  <2>1. S \cap seen \subseteq GraphNodes
    BY <1>10
  <2> QED BY <1>13, <2>1
<1>15. Range(few) \subseteq S
  <2>1. DOMAIN few = 1..Len(few) /\ \A i \in 1..Len(few) : few[i] \in S
    BY <1>12
  <2> QED BY <2>1 DEF Range
<1>16. nodes \in Seq(GraphNodes) /\ Range(nodes) = Range(reader.nodes) \cup Range(shown)
  <2>1. \A t \in Seq(GraphNodes) : ToSet(t) = Range(t)
    BY DEF ToSet, Range
  <2>2. nodes \in Seq(GraphNodes) /\ ToSet(nodes) = ToSet(reader.nodes) \cup ToSet(shown)
    BY <1>4, <1>8, <1>14, JoinFacts
  <2> QED BY <1>4, <1>14, <2>1, <2>2
<1>17. Range(reader.nodes) \subseteq GraphNodes /\ \A n \in Range(reader.nodes) : n <= old
  <2>1. DOMAIN reader.nodes = 1..Len(reader.nodes) /\ \A i \in 1..Len(reader.nodes) : reader.nodes[i] \in GraphNodes
    BY <1>4
  <2>2. Range(reader.nodes) \subseteq GraphNodes
    BY <2>1 DEF Range
  <2> QED BY <1>3, <1>5, <2>2 DEF PagedTo
<1>18. \A n \in GraphNodes : n \in Nat
  BY GraphFacts
<1>19. IsInjective(nodes)
  <2>1. ASSUME NEW n \in Range(reader.nodes), n \in Range(shown) PROVE FALSE
    <3>1. n \in S /\ n <= old /\ n > old /\ n \in Nat
      BY <1>10, <1>13, <1>15, <1>17, <1>18, <2>1
    <3> QED BY <1>12, <3>1
  <2>2. \A t \in Seq(GraphNodes) : ToSet(t) = Range(t)
    BY DEF ToSet, Range
  <2>3. \A n \in ToSet(reader.nodes) : n \notin ToSet(shown)
    BY <1>4, <1>14, <2>1, <2>2
  <2> QED BY <1>1, <1>4, <1>8, <1>13, <1>14, <2>3, JoinInjective
<1>20. touched \subseteq GraphEdges
  BY <1>1, <1>6 DEF Graphs
<1>21. reader' \in Readers
  BY <1>1, <1>4, <1>8, <1>9, <1>12, <1>16, <1>20 DEF Readers
<1>22. /\ reader'.nodes = nodes /\ reader'.edges = reader.edges \cup touched /\ reader'.cursor = cursor
       /\ reader'.stage = stage /\ reader'.kind = "pages"
  BY <1>1, <1>3, <1>9 DEF Readers
<1>23. PICK lasting, stayed : lasting = Lasting(moments, backend.sees) /\ stayed = moments.steadyEdges
  OBVIOUS
<1>24. /\ \A n \in lasting : n \in standing.nodes /\ n \in seen /\ n \in GraphNodes /\ MaySee(n)
       /\ stayed \subseteq standing.edges
  BY <1>1, <1>2, <1>5, <1>23 DEF MomentsWere, Lasting, MaySee, Graphs
<1>25. ASSUME NEW n \in lasting, n <= old \/ n \in Range(few) PROVE n \in Range(nodes)
  <2>1. n <= old => n \in Range(reader.nodes)
    BY <1>3, <1>5, <1>23 DEF PagedTo
  <2> QED BY <1>13, <1>16, <1>24, <1>25, <2>1
<1>26. ASSUME NEW e \in stayed, Ends(e) \subseteq lasting, NEW n \in Ends(e), n <= old \/ n \in Range(few)
       PROVE  e \in reader'.edges
  <2>1. CASE n <= old
    BY <1>3, <1>5, <1>22, <1>23, <1>26, <2>1 DEF PagedTo
  <2>2. CASE n \in Range(few)
    <3>1. e \in {f \in standing.edges : Ends(f) \cap Range(few) # {}}
      BY <1>24, <1>26, <2>2
    <3>2. Ends(e) \cap {o \in Range(few) : ~MaySee(o)} = {}
      BY <1>24, <1>26
    <3>3. e \in touched
      BY <1>6, <3>1, <3>2
    <3> QED BY <1>22, <3>3
  <2> QED BY <1>26, <2>1, <2>2
<1>27. CASE cursor = 0
  <2>1. ASSUME NEW n \in lasting PROVE n <= old \/ n \in Range(few)
    <3>1. n \in Nat /\ old \in Nat
      BY <1>12, <1>18, <1>24
    <3>2. n > old => n \in S
      BY <1>11, <1>24
    <3> QED BY <1>12, <1>27, <3>1, <3>2
  <2>2. lasting \subseteq Range(nodes)
    BY <1>25, <2>1
  <2>3. ASSUME NEW e \in stayed, Ends(e) \subseteq lasting PROVE e \in reader'.edges
    <3>1. PICK n : n \in Ends(e)
      BY DEF Ends
    <3> QED BY <1>26, <2>1, <2>3, <3>1
  <2>4. PagedWhole(reader', moments, backend.sees)
    BY <1>22, <1>23, <2>2, <2>3 DEF PagedWhole
  <2>5. ReadingIs(reader', moments, backend.sees)
    BY <1>8, <1>22, <1>27, <2>4 DEF ReadingIs
  <2> QED BY <1>2, <1>8, <1>19, <1>21, <1>22, <1>27, <2>5, ReadingGoesOn DEF BeingRead
<1>28. CASE cursor # 0
  <2>1. ASSUME NEW n \in lasting, n <= cursor PROVE n <= old \/ n \in Range(few)
    <3>1. n \in Nat /\ old \in Nat
      BY <1>12, <1>18, <1>24
    <3>2. n > old => n \in S
      BY <1>11, <1>24
    <3> QED BY <1>12, <1>28, <2>1, <3>1, <3>2
  <2>2. ASSUME NEW n \in Range(nodes) PROVE n <= cursor
    <3>1. CASE n \in Range(reader.nodes)
      <4>1. n <= old /\ n \in Nat /\ old \in Nat /\ cursor \in Nat /\ cursor > old
        BY <1>12, <1>17, <1>18, <1>28, <3>1
      <4> QED BY <4>1
    <3>2. CASE n \in Range(shown)
      BY <1>12, <1>13, <1>28, <3>2
    <3> QED BY <1>16, <2>2, <3>1, <3>2
  <2>3. \A n \in lasting : n <= cursor => n \in Range(nodes)
    BY <1>25, <2>1
  <2>4. ASSUME NEW e \in stayed, Ends(e) \subseteq lasting, NEW n \in Ends(e), n <= cursor
        PROVE  e \in reader'.edges
    BY <1>26, <2>1, <2>4
  <2>5. PagedTo(reader', moments, backend.sees)
    BY <1>22, <1>23, <2>2, <2>3, <2>4 DEF PagedTo
  <2>6. ReadingIs(reader', moments, backend.sees)
    BY <1>8, <1>22, <1>28, <2>5 DEF ReadingIs
  <2> QED BY <1>2, <1>8, <1>19, <1>21, <1>22, <1>28, <2>6, ReadingGoesOn DEF BeingRead
<1> QED BY <1>27, <1>28

-----------------------------------------------------------------------------
LEMMA GraphStarts == GraphReadsInit => GraphInv
<1> SUFFICES ASSUME GraphReadsInit PROVE GraphInv
  OBVIOUS
<1>1. reader = NothingAsked /\ standing = [nodes |-> {}, edges |-> {}, writing |-> {}]
  BY DEF GraphReadsInit
<1>2. reader \in Readers /\ IsInjective(reader.nodes) /\ reader.stage = "idle"
  BY <1>1, NothingAskedFacts
<1>3. standing \in Graphs
  BY <1>1 DEF Graphs
<1> QED BY <1>2, <1>3 DEF GraphInv, ReadingIs, MomentsWere

LEMMA GraphInvariant == GraphReadsSpec => []GraphInv
<1>1. GraphInv /\ UNCHANGED graphReadVars => GraphInv'
  BY DEF GraphInv, graphReadVars, MomentsWere, ReadingIs, Explored, Ranked, PagedTo, PagedWhole, Lasting
<1>2. GraphInv /\ GraphReadsNext => GraphInv'
  <2> SUFFICES ASSUME GraphInv, GraphReadsNext PROVE GraphInv'
    OBVIOUS
  <2>1. ASSUME NEW r \in Roots, NEW d \in Depths, NEW l \in EdgeLimits, NEW f \in Floors,
               AskNeighborhood(r, d, l, f)
        PROVE  GraphInv'
    BY <2>1, AskNeighborhoodKeeps
  <2>2. CASE FetchRoot \/ CheckRootAccess
    BY <2>2, RootKeeps
  <2>3. CASE FindRoot
    BY <2>3, FindRootKeeps
  <2>4. CASE ExpandNode
    BY <2>4, ExpandNodeKeeps
  <2>5. CASE LookUpNode
    BY <2>5, LookUpNodeKeeps
  <2>6. CASE AskPages
    BY <2>6, AskPagesKeeps
  <2>7. CASE ReadPage
    BY <2>7, ReadPageKeeps
  <2>8. CASE CloseReading
    BY <2>8, CloseReadingKeeps
  <2>9. ASSUME NEW d \in GraphOwners, ReadDocument(d) PROVE GraphInv'
    BY <2>9, ReadDocumentKeeps
  <2>10. ASSUME NEW d \in GraphOwners, WriteNodes(d) \/ WriteEdges(d) \/ DropGraph(d) PROVE GraphInv'
    BY <2>10, ChangedGraphKeeps DEF WriteNodes, WriteEdges, DropGraph
  <2> QED BY <2>1, <2>2, <2>3, <2>4, <2>5, <2>6, <2>7, <2>8, <2>9, <2>10 DEF GraphReadsNext
<1> QED BY <1>1, <1>2, GraphStarts, PTL DEF GraphReadsSpec

(* A reading of the graph, however the graph changes under it, answers       *)
(* what was near enough at some moment and all that was at every moment,    *)
(* no node twice; its pages leave out nothing that stood throughout         *)
(* (get_neighborhood, find_subgraph and the routes over them).              *)
THEOREM ReadingsAlwaysAddUp == GraphReadsSpec => []ReadingsAddUp
<1>1. GraphInv => ReadingsAddUp
  <2> SUFFICES ASSUME GraphInv, reader.stage = "done"
               PROVE  /\ Cardinality(Range(reader.nodes)) = Len(reader.nodes)
                      /\ reader.kind = "neighborhood" =>
                            /\ reader.edges \subseteq Within(moments.everEdges, reader.root, reader.depth)
                            /\ ~reader.truncated =>
                                  Within(moments.steadyEdges, reader.root, reader.depth) \subseteq reader.edges
                            /\ moments.steadyNodes \cap UNION {Ends(e) : e \in reader.edges}
                                  \subseteq Range(reader.nodes)
                      /\ reader.kind = "pages" =>
                            /\ {n \in moments.steadyNodes : MaySee(n)} \subseteq Range(reader.nodes)
                            /\ {e \in moments.steadyEdges :
                                   Ends(e) \subseteq {n \in moments.steadyNodes : MaySee(n)}} \subseteq reader.edges
    BY DEF ReadingsAddUp
  <2>1. reader \in Readers /\ IsInjective(reader.nodes) /\ ReadingIs(reader, moments, backend.sees)
    BY DEF GraphInv
  <2>2. Cardinality(Range(reader.nodes)) = Len(reader.nodes)
    <3>1. reader.nodes \in Seq(GraphNodes)
      BY <2>1 DEF Readers
    <3> QED BY <2>1, <3>1, DistinctCount
  <2>3. ASSUME reader.kind = "neighborhood"
        PROVE  /\ reader.edges \subseteq Within(moments.everEdges, reader.root, reader.depth)
               /\ ~reader.truncated =>
                     Within(moments.steadyEdges, reader.root, reader.depth) \subseteq reader.edges
               /\ moments.steadyNodes \cap UNION {Ends(e) : e \in reader.edges} \subseteq Range(reader.nodes)
    <3>1. Ranked(reader, moments) /\ reader.lookups = {}
      BY <2>1, <2>3 DEF ReadingIs
    <3>2. moments.steadyNodes \cap UNION {Ends(e) : e \in reader.edges} \subseteq Range(reader.nodes)
      BY <3>1 DEF Ranked
    <3> QED BY <3>1, <3>2 DEF Ranked
  <2>4. ASSUME reader.kind = "pages"
        PROVE  /\ {n \in moments.steadyNodes : MaySee(n)} \subseteq Range(reader.nodes)
               /\ {e \in moments.steadyEdges :
                      Ends(e) \subseteq {n \in moments.steadyNodes : MaySee(n)}} \subseteq reader.edges
    <3>1. PagedWhole(reader, moments, backend.sees)
      BY <2>1, <2>4 DEF ReadingIs
    <3>2. Lasting(moments, backend.sees) = {n \in moments.steadyNodes : MaySee(n)}
      BY DEF Lasting, MaySee
    <3> QED BY <3>1, <3>2 DEF PagedWhole
  <2> QED BY <2>2, <2>3, <2>4
<1> QED BY <1>1, GraphInvariant, PTL

-----------------------------------------------------------------------------
(* Topics.                                                                 *)

(* Parents lead down, so every chunk has a root. *)
Forest(parent) == parent \in [Grouped -> Grouped] /\ \A c \in Grouped : parent[c] <= c

(* The chunks with the same root. *)
Component(parent, c) == {d \in Grouped : Root(parent, d) = Root(parent, c)}

(* The roots tell which chunks the edges hold together. *)
HeldTogether(parent, edges) == \A c \in Grouped : Component(parent, c) = Linked(edges, c)

ClusteringIn(s) == {r \in Range(s) : Clusters(r)}

(* What has been united so far is what the chains of the relations gone     *)
(* through hold together.                                                  *)
GroupingInv ==
    /\ DOMAIN grouping = {"stage", "relations", "left", "parent", "topics", "orphan", "coherent"}
    /\ texts \in [Grouped -> Texts]
    /\ grouping.relations \in Seq(Relation) /\ grouping.left \in Seq(Relation)
    /\ Forest(grouping.parent)
    /\ grouping.stage = "relate" => ClusteringIn(grouping.relations) = {}
    /\ grouping.stage \in {"relate", "union"} =>
          \E done \in SUBSET Relation :
             /\ ClusteringIn(grouping.relations) = done \cup ClusteringIn(grouping.left)
             /\ HeldTogether(grouping.parent, done)
    /\ grouping.stage = "grouped" =>
          /\ grouping.topics = TopicsOf(grouping.parent)
          /\ HeldTogether(grouping.parent, ClusteringIn(grouping.relations))

LEMMA GroupedFacts == Grouped \in SUBSET Nat /\ IsFiniteSet(Grouped)
<1>1. Len(ChunkOrder) \in Nat
  BY TopicGroupingAssumption
<1> QED BY <1>1, FS_Interval DEF Grouped

(* What find passes is the least set with the chunk that keeps to parents. *)
LEMMA PassedFacts ==
    ASSUME NEW parent \in [Grouped -> Grouped], NEW c \in Grouped
    PROVE  /\ Passed(parent, c) \in SUBSET Grouped /\ c \in Passed(parent, c)
           /\ \A m \in Passed(parent, c) : parent[m] \in Passed(parent, c)
           /\ \A S \in SUBSET Grouped :
                 c \in S /\ (\A m \in S : parent[m] \in S) => Passed(parent, c) \subseteq S
<1> DEFINE closed(S) == c \in S /\ \A m \in S : parent[m] \in S
<1>1. \A n : n \in Passed(parent, c) <=> n \in Grouped /\ \A S \in SUBSET Grouped : closed(S) => n \in S
  BY DEF Passed
<1>2. ASSUME NEW m \in Passed(parent, c) PROVE parent[m] \in Passed(parent, c)
  <2>1. m \in Grouped /\ parent[m] \in Grouped
    BY <1>1
  <2>2. ASSUME NEW S \in SUBSET Grouped, closed(S) PROVE parent[m] \in S
    <3>1. m \in S
      BY <1>1, <2>2
    <3> QED BY <2>2, <3>1
  <2> HIDE DEF closed
  <2> QED BY <1>1, <2>1, <2>2
<1> QED BY <1>1, <1>2

(* Of the chunks passed, one only is its own parent. *)
LEMMA OneRoot ==
    ASSUME NEW parent \in [Grouped -> Grouped], NEW c \in Grouped,
           NEW r \in Passed(parent, c), parent[r] = r,
           NEW q \in Passed(parent, c), parent[q] = q
    PROVE  q = r
<1> DEFINE S == {m \in Grouped : r \in Passed(parent, m)}
<1>1. r \in Grouped /\ q \in Grouped
  BY PassedFacts
<1>2. ASSUME NEW m \in S PROVE parent[m] \in S
  <2>1. m \in Grouped /\ parent[m] \in Grouped /\ r \in Passed(parent, m)
    OBVIOUS
  <2>2. PICK T : T = Passed(parent, parent[m])
    OBVIOUS
  <2>3. T \in SUBSET Grouped /\ parent[m] \in T /\ \A n \in T : parent[n] \in T
    BY <2>1, <2>2, PassedFacts
  <2>4. {m} \cup T \in SUBSET Grouped /\ m \in {m} \cup T /\ \A n \in {m} \cup T : parent[n] \in {m} \cup T
    BY <2>1, <2>3
  <2>5. Passed(parent, m) \subseteq {m} \cup T
    BY <2>1, <2>4, PassedFacts
  <2>6. r \in T
    <3>1. CASE r = m
      <4>1. parent[m] = r
        BY <3>1
      <4> QED BY <2>3, <4>1
    <3>2. CASE r # m
      BY <2>1, <2>5, <3>2
    <3> QED BY <3>1, <3>2
  <2> QED BY <2>1, <2>2, <2>6
<1>3. S \in SUBSET Grouped /\ c \in S
  OBVIOUS
<1>4. Passed(parent, c) \subseteq S
  BY <1>2, <1>3, PassedFacts
<1>5. r \in Passed(parent, q)
  BY <1>4
<1>6. {q} \in SUBSET Grouped /\ q \in {q} /\ \A n \in {q} : parent[n] \in {q}
  BY <1>1
<1>7. Passed(parent, q) \subseteq {q}
  BY <1>1, <1>6, PassedFacts
<1> QED BY <1>5, <1>7

LEMMA RootFacts ==
    ASSUME NEW parent, Forest(parent), NEW c \in Grouped
    PROVE  /\ Root(parent, c) \in Passed(parent, c) /\ Root(parent, c) \in Grouped
           /\ parent[Root(parent, c)] = Root(parent, c) /\ Root(parent, c) <= c
           /\ Root(parent, parent[c]) = Root(parent, c)
           /\ parent[c] = c => Root(parent, c) = c
<1>1. parent \in [Grouped -> Grouped] /\ \A n \in Grouped : parent[n] <= n
  BY DEF Forest
<1>2. ASSUME NEW n \in Grouped
      PROVE  Root(parent, n) \in Passed(parent, n) /\ parent[Root(parent, n)] = Root(parent, n)
  <2>1. /\ Passed(parent, n) \in SUBSET Nat /\ Passed(parent, n) # {}
        /\ \A m \in Passed(parent, n) : m \in Grouped /\ parent[m] \in Passed(parent, n)
    BY <1>1, GroupedFacts, PassedFacts
  <2>2. PICK r \in Passed(parent, n) : \A m \in Passed(parent, n) : r <= m
    BY <2>1, LeastOf
  <2>3. r <= parent[r] /\ parent[r] <= r /\ r \in Nat /\ parent[r] \in Nat
    BY <1>1, <2>1, <2>2
  <2>4. parent[r] = r
    BY <2>3
  <2> QED BY <2>4 DEF Root
<1>3. Root(parent, c) \in Grouped
  BY <1>1, <1>2, PassedFacts
<1>4. Root(parent, c) <= c
  <2> DEFINE S == {m \in Grouped : m <= c}
  <2>1. S \in SUBSET Grouped /\ c \in S
    BY GroupedFacts
  <2>2. ASSUME NEW m \in S PROVE parent[m] \in S
    <3>1. parent[m] <= m /\ m <= c /\ parent[m] \in Grouped /\ m \in Nat /\ c \in Nat /\ parent[m] \in Nat
      BY <1>1, GroupedFacts
    <3>2. parent[m] <= c
      BY <3>1
    <3> QED BY <3>1, <3>2
  <2>3. Passed(parent, c) \subseteq S
    BY <1>1, <2>1, <2>2, PassedFacts
  <2> QED BY <1>2, <2>3
<1>5. Root(parent, parent[c]) = Root(parent, c)
  <2>1. parent[c] \in Grouped /\ parent[c] \in Passed(parent, c) /\ Passed(parent, c) \in SUBSET Grouped
    BY <1>1, PassedFacts
  <2>2. \A m \in Passed(parent, c) : parent[m] \in Passed(parent, c)
    BY <1>1, PassedFacts
  <2>3. Passed(parent, parent[c]) \subseteq Passed(parent, c)
    BY <1>1, <2>1, <2>2, PassedFacts
  <2>4. Root(parent, parent[c]) \in Passed(parent, c) /\ Root(parent, c) \in Passed(parent, c)
    BY <1>2, <2>1, <2>3
  <2> QED BY <1>1, <1>2, <2>1, <2>4, OneRoot
<1>6. ASSUME parent[c] = c PROVE Root(parent, c) = c
  <2>1. c \in Passed(parent, c)
    BY <1>1, PassedFacts
  <2> QED BY <1>1, <1>2, <1>6, <2>1, OneRoot
<1> QED BY <1>2, <1>3, <1>4, <1>5, <1>6

(* What stays the same from a chunk to its parent is the same at the root;  *)
(* and if roots are told by themselves, it tells the root.                 *)
LEMMA RootIs ==
    ASSUME NEW parent, Forest(parent), NEW f, \A m \in Grouped : f[parent[m]] = f[m],
           \A m \in Grouped : parent[m] = m => f[m] = m, NEW c \in Grouped
    PROVE  Root(parent, c) = f[c]
<1> DEFINE S == {m \in Grouped : f[m] = f[c]}
<1>1. parent \in [Grouped -> Grouped]
  BY DEF Forest
<1>2. S \in SUBSET Grouped /\ c \in S /\ \A m \in S : parent[m] \in S
  BY <1>1
<1>3. Passed(parent, c) \subseteq S
  BY <1>1, <1>2, PassedFacts
<1>4. Root(parent, c) \in S /\ parent[Root(parent, c)] = Root(parent, c)
  BY <1>3, RootFacts
<1> QED BY <1>4

(* Compressing moves no root. *)
LEMMA CompressFacts ==
    ASSUME NEW parent, Forest(parent), NEW c \in Grouped
    PROVE  /\ Forest(Compress(parent, c))
           /\ \A n \in Grouped : Root(Compress(parent, c), n) = Root(parent, n)
<1> DEFINE short == Compress(parent, c)
           f == [n \in Grouped |-> Root(parent, n)]
<1>1. parent \in [Grouped -> Grouped] /\ \A n \in Grouped : parent[n] <= n
  BY DEF Forest
<1>2. ASSUME NEW n \in Grouped
      PROVE  /\ f[n] = Root(parent, n) /\ f[n] \in Grouped /\ f[n] <= n
             /\ f[f[n]] = f[n] /\ f[parent[n]] = f[n]
             /\ parent[n] = n => f[n] = n
  BY <1>1, RootFacts
<1>3. f[c] = Root(parent, c)
  OBVIOUS
<1>4. \A n \in Grouped : f[n] = Root(parent, n)
  OBVIOUS
<1> HIDE DEF f
<1>5. ASSUME NEW n \in Passed(parent, c) PROVE f[n] = f[c]
  <2> DEFINE S == {m \in Grouped : f[m] = f[c]}
  <2>1. S \in SUBSET Grouped /\ c \in S /\ \A m \in S : parent[m] \in S
    BY <1>1, <1>2
  <2>2. Passed(parent, c) \subseteq S
    BY <1>1, <2>1, PassedFacts
  <2> QED BY <2>2
<1>6. ASSUME NEW n \in Grouped PROVE short[n] = f[n] \/ short[n] = parent[n]
  <2>1. short[n] = IF n \in Passed(parent, c) THEN Root(parent, c) ELSE parent[n]
    BY DEF Compress
  <2> QED BY <1>3, <1>5, <2>1
<1>7. Forest(short)
  <2>1. short = [n \in Grouped |-> short[n]]
    BY DEF Compress
  <2>2. \A n \in Grouped : short[n] \in Grouped /\ short[n] <= n
    BY <1>1, <1>2, <1>6
  <2> HIDE DEF short
  <2> QED BY <2>1, <2>2 DEF Forest
<1>8. \A m \in Grouped : f[short[m]] = f[m] /\ (short[m] = m => f[m] = m)
  BY <1>2, <1>6
<1> HIDE DEF short
<1>9. \A n \in Grouped : Root(short, n) = f[n]
  BY <1>7, <1>8, RootIs
<1> QED BY <1>7, <1>4, <1>9 DEF short

(* The lesser and the greater of two numbers. *)
LEMMA MinMaxOfTwo ==
    ASSUME NEW a \in Nat, NEW b \in Nat
    PROVE  \/ a <= b /\ Min({a, b}) = a /\ Max({a, b}) = b
           \/ b <= a /\ Min({a, b}) = b /\ Max({a, b}) = a
<1>1. ASSUME NEW x \in Nat, NEW y \in Nat, x <= y PROVE Min({x, y}) = x /\ Max({x, y}) = y
  <2>1. \A z \in {x, y} : x <= z /\ z <= y
    BY <1>1
  <2>2. \A m \in {x, y} : ((\A z \in {x, y} : m <= z) => m = x) /\ ((\A z \in {x, y} : m >= z) => m = y)
    BY <1>1
  <2>3. \A z \in {x, y} : y >= z
    BY <2>1
  <2> QED BY <2>1, <2>2, <2>3 DEF Min, Max
<1>2. a <= b \/ b <= a
  OBVIOUS
<1>3. {a, b} = {b, a}
  OBVIOUS
<1>4. CASE a <= b
  BY <1>1, <1>4
<1>5. CASE b <= a
  <2>1. Min({b, a}) = b /\ Max({b, a}) = a
    BY <1>1, <1>5
  <2> QED BY <1>3, <1>5, <2>1
<1> QED BY <1>2, <1>4, <1>5

LEMMA UnionFacts ==
    ASSUME NEW parent, Forest(parent), NEW a \in Grouped, NEW b \in Grouped
    PROVE  /\ Forest(Union(parent, a, b))
           /\ \A m, n \in Grouped :
                 Root(Union(parent, a, b), m) = Root(Union(parent, a, b), n) <=>
                    \/ Root(parent, m) = Root(parent, n)
                    \/ Root(parent, m) = Root(parent, a) /\ Root(parent, n) = Root(parent, b)
                    \/ Root(parent, m) = Root(parent, b) /\ Root(parent, n) = Root(parent, a)
<1> DEFINE R == [n \in Grouped |-> Root(parent, n)]
<1>1. PICK found : found = Compress(Compress(parent, a), b)
  OBVIOUS
<1>2. Forest(found) /\ \A n \in Grouped : Root(found, n) = R[n]
  <2>1. Forest(Compress(parent, a)) /\ \A n \in Grouped : Root(Compress(parent, a), n) = R[n]
    BY CompressFacts
  <2> QED BY <1>1, <2>1, CompressFacts
<1>3. R[a] = Root(parent, a) /\ R[b] = Root(parent, b) /\ \A n \in Grouped : R[n] = Root(parent, n)
  OBVIOUS
<1>4. \A n \in Grouped : R[n] \in Grouped /\ R[R[n]] = R[n]
  BY RootFacts
<1> HIDE DEF R
<1>5. R[a] \in Nat /\ R[b] \in Nat
  BY <1>4, GroupedFacts
<1>6. PICK low, high \in Grouped :
         /\ low = Min({R[a], R[b]}) /\ high = Max({R[a], R[b]}) /\ low <= high
         /\ (low = R[a] /\ high = R[b]) \/ (low = R[b] /\ high = R[a])
         /\ R[low] = low /\ R[high] = high
  <2>1. CASE R[a] <= R[b] /\ Min({R[a], R[b]}) = R[a] /\ Max({R[a], R[b]}) = R[b]
    BY <1>4, <2>1
  <2>2. CASE R[b] <= R[a] /\ Min({R[a], R[b]}) = R[b] /\ Max({R[a], R[b]}) = R[a]
    BY <1>4, <2>2
  <2> QED BY <1>5, <2>1, <2>2, MinMaxOfTwo
<1>7. PICK joined : joined = [found EXCEPT ![high] = low]
  OBVIOUS
<1>8. Union(parent, a, b) = joined
  BY <1>1, <1>3, <1>6, <1>7 DEF Union
<1>9. /\ joined \in [Grouped -> Grouped] /\ joined[high] = low
      /\ \A n \in Grouped : n # high => joined[n] = found[n]
  BY <1>2, <1>7 DEF Forest
<1>10. \A n \in Grouped : found[n] \in Grouped /\ found[n] <= n /\ R[found[n]] = R[n] /\ (found[n] = n => R[n] = n)
  <2>1. \A n \in Grouped : found[n] \in Grouped /\ found[n] <= n
    BY <1>2 DEF Forest
  <2>2. ASSUME NEW n \in Grouped PROVE R[found[n]] = R[n] /\ (found[n] = n => R[n] = n)
    <3>1. Root(found, found[n]) = Root(found, n) /\ (found[n] = n => Root(found, n) = n)
      BY <1>2, RootFacts
    <3> QED BY <1>2, <2>1, <3>1
  <2> QED BY <2>1, <2>2
<1>11. Forest(joined)
  <2>1. ASSUME NEW n \in Grouped PROVE joined[n] <= n
    BY <1>6, <1>9, <1>10
  <2> QED BY <1>9, <2>1 DEF Forest
<1> DEFINE f == [n \in Grouped |-> IF R[n] = high THEN low ELSE R[n]]
<1>12. \A n \in Grouped : f[n] = IF R[n] = high THEN low ELSE R[n]
  OBVIOUS
<1> HIDE DEF f
<1>13. ASSUME NEW n \in Grouped PROVE f[joined[n]] = f[n] /\ (joined[n] = n => f[n] = n)
  <2>1. CASE n = high
    <3>1. joined[n] = low /\ f[low] = low /\ f[n] = low
      BY <1>6, <1>9, <1>12, <2>1
    <3> QED BY <3>1
  <2>2. CASE n # high
    <3>1. joined[n] = found[n] /\ found[n] \in Grouped /\ R[found[n]] = R[n]
      BY <1>9, <1>10, <2>2
    <3>2. f[found[n]] = f[n]
      BY <1>12, <3>1
    <3>3. found[n] = n => f[n] = n
      BY <1>10, <1>12, <2>2
    <3> QED BY <3>1, <3>2, <3>3
  <2> QED BY <2>1, <2>2
<1>14. \A n \in Grouped : Root(joined, n) = f[n]
  BY <1>11, <1>13, RootIs
<1>15. ASSUME NEW m \in Grouped, NEW n \in Grouped
       PROVE  Root(joined, m) = Root(joined, n) <=>
                 \/ R[m] = R[n]
                 \/ R[m] = R[a] /\ R[n] = R[b]
                 \/ R[m] = R[b] /\ R[n] = R[a]
  <2>1. /\ Root(joined, m) = IF R[m] = high THEN low ELSE R[m]
        /\ Root(joined, n) = IF R[n] = high THEN low ELSE R[n]
    BY <1>12, <1>14
  <2> QED BY <1>6, <2>1
<1>16. \A m, n \in Grouped :
          Root(joined, m) = Root(joined, n) <=>
             \/ Root(parent, m) = Root(parent, n)
             \/ Root(parent, m) = Root(parent, a) /\ Root(parent, n) = Root(parent, b)
             \/ Root(parent, m) = Root(parent, b) /\ Root(parent, n) = Root(parent, a)
  BY <1>3, <1>15
<1> QED BY <1>8, <1>11, <1>16

(* A union joins the chunks of two roots, and no others. *)
LEMMA UnionJoins ==
    ASSUME NEW parent, Forest(parent), NEW a \in Grouped, NEW b \in Grouped
    PROVE  \A m, n \in Grouped :
              Root(Union(parent, a, b), m) = Root(Union(parent, a, b), n) <=>
                 \/ Root(parent, m) = Root(parent, n)
                 \/ Root(parent, m) = Root(parent, a) /\ Root(parent, n) = Root(parent, b)
                 \/ Root(parent, m) = Root(parent, b) /\ Root(parent, n) = Root(parent, a)
BY UnionFacts

-----------------------------------------------------------------------------
(* Linked is the least set with the chunk that no edge leaves.             *)
LEMMA LinkedFacts ==
    ASSUME NEW edges \in SUBSET Relation, NEW c \in Grouped
    PROVE  /\ Linked(edges, c) \in SUBSET Grouped /\ c \in Linked(edges, c)
           /\ \A r \in edges : r.source \in Linked(edges, c) <=> r.target \in Linked(edges, c)
           /\ \A S \in SUBSET Grouped :
                 c \in S /\ (\A r \in edges : r.source \in S <=> r.target \in S) => Linked(edges, c) \subseteq S
<1> DEFINE closed(S) == c \in S /\ \A r \in edges : r.source \in S <=> r.target \in S
<1>1. \A n : n \in Linked(edges, c) <=> n \in Grouped /\ \A S \in SUBSET Grouped : closed(S) => n \in S
  BY DEF Linked
<1>2. \A r \in edges : r.source \in Grouped /\ r.target \in Grouped
  BY DEF Relation
<1>3. ASSUME NEW r \in edges PROVE r.source \in Linked(edges, c) <=> r.target \in Linked(edges, c)
  <2>1. \A S \in SUBSET Grouped : closed(S) => (r.source \in S <=> r.target \in S)
    OBVIOUS
  <2> HIDE DEF closed
  <2> QED BY <1>1, <1>2, <2>1
<1> QED BY <1>1, <1>3

(* One relation more, and its ends united. *)
LEMMA UniteKeepsComponents ==
    ASSUME NEW parent, Forest(parent), NEW done \in SUBSET Relation, NEW r \in Relation,
           HeldTogether(parent, done)
    PROVE  HeldTogether(Union(parent, r.source, r.target), done \cup {r})
<1> SUFFICES ASSUME NEW c \in Grouped
             PROVE  Component(Union(parent, r.source, r.target), c) = Linked(done \cup {r}, c)
  BY DEF HeldTogether
<1>1. r.source \in Grouped /\ r.target \in Grouped
  BY DEF Relation
<1>2. PICK a, b \in Grouped : a = r.source /\ b = r.target
  BY <1>1
<1>3. PICK joined : joined = Union(parent, a, b)
  OBVIOUS
<1>4. \A m, n \in Grouped :
         Root(joined, m) = Root(joined, n) <=>
            \/ Root(parent, m) = Root(parent, n)
            \/ Root(parent, m) = Root(parent, a) /\ Root(parent, n) = Root(parent, b)
            \/ Root(parent, m) = Root(parent, b) /\ Root(parent, n) = Root(parent, a)
  BY <1>2, <1>3, UnionJoins
<1> DEFINE R == [n \in Grouped |-> Root(parent, n)]
<1>5. \A n \in Grouped : Root(parent, n) = R[n]
  OBVIOUS
<1> HIDE DEF R
<1>6. \A m, n \in Grouped :
         Root(joined, m) = Root(joined, n) <=>
            \/ R[m] = R[n]
            \/ R[m] = R[a] /\ R[n] = R[b]
            \/ R[m] = R[b] /\ R[n] = R[a]
  BY <1>2, <1>4, <1>5
<1>7. ASSUME NEW d \in Grouped, NEW e \in Grouped PROVE e \in Linked(done, d) <=> R[e] = R[d]
  <2>1. e \in Linked(done, d) <=> Root(parent, e) = Root(parent, d)
    BY DEF Component, HeldTogether
  <2> QED BY <1>5, <2>1
<1>8. PICK edges \in SUBSET Relation : edges = done \cup {r}
  OBVIOUS
<1>9. PICK L : L = Linked(edges, c)
  OBVIOUS
<1>10. /\ L \in SUBSET Grouped /\ c \in L /\ \A e \in edges : e.source \in L <=> e.target \in L
      /\ \A S \in SUBSET Grouped : c \in S /\ (\A e \in edges : e.source \in S <=> e.target \in S) => L \subseteq S
  BY <1>8, <1>9, LinkedFacts
<1>11. PICK K : K = Component(joined, c)
  OBVIOUS
<1>12. K \in SUBSET Grouped /\ \A d \in Grouped : d \in K <=> Root(joined, d) = Root(joined, c)
  BY <1>11 DEF Component
<1>13. L \subseteq K
  <2>1. c \in K
    BY <1>12
  <2>2. ASSUME NEW e \in edges PROVE Root(joined, e.source) = Root(joined, e.target)
    <3>1. e.source \in Grouped /\ e.target \in Grouped
      BY DEF Relation
    <3>2. CASE e \in done
      <4>1. e.source \in Linked(done, e.source) /\ (e.source \in Linked(done, e.source) <=> e.target \in Linked(done, e.source))
        BY <3>1, <3>2, LinkedFacts
      <4>2. R[e.target] = R[e.source]
        BY <1>7, <3>1, <4>1
      <4> QED BY <1>6, <3>1, <4>2
    <3>3. CASE e = r
      <4>1. Root(joined, a) = Root(joined, b)
        BY <1>2, <1>6
      <4> QED BY <1>2, <3>3, <4>1
    <3> QED BY <1>8, <3>2, <3>3
  <2>3. \A e \in edges : e.source \in Grouped /\ e.target \in Grouped
    BY DEF Relation
  <2>4. \A e \in edges : e.source \in K <=> e.target \in K
    BY <1>12, <2>2, <2>3
  <2> QED BY <1>10, <1>12, <2>1, <2>4
<1>14. ASSUME NEW d \in Grouped, d \in L PROVE Linked(done, d) \subseteq L
  <2>1. \A e \in done : e.source \in L <=> e.target \in L
    BY <1>8, <1>10
  <2> QED BY <1>10, <1>14, <2>1, LinkedFacts
<1>15. ASSUME NEW d \in K PROVE d \in L
  <2>1. d \in Grouped /\ Root(joined, d) = Root(joined, c)
    BY <1>12
  <2>2. CASE R[d] = R[c]
    BY <1>7, <1>10, <1>14, <2>1, <2>2
  <2>3. CASE R[d] # R[c]
    <3>1. \/ R[c] = R[r.source] /\ R[d] = R[r.target]
          \/ R[c] = R[r.target] /\ R[d] = R[r.source]
      BY <1>2, <1>6, <2>1, <2>3
    <3>2. r.source \in L <=> r.target \in L
      BY <1>8, <1>10
    <3>3. CASE R[c] = R[r.source] /\ R[d] = R[r.target]
      <4>1. r.source \in L
        BY <1>1, <1>7, <1>10, <1>14, <3>3
      <4> QED BY <1>1, <1>7, <1>14, <2>1, <3>2, <3>3, <4>1
    <3>4. CASE R[c] = R[r.target] /\ R[d] = R[r.source]
      <4>1. r.target \in L
        BY <1>1, <1>7, <1>10, <1>14, <3>4
      <4> QED BY <1>1, <1>7, <1>14, <2>1, <3>2, <3>4, <4>1
    <3> QED BY <3>1, <3>3, <3>4
  <2> QED BY <2>2, <2>3
<1> QED BY <1>2, <1>3, <1>8, <1>9, <1>11, <1>13, <1>15

-----------------------------------------------------------------------------
(* The relations of a document.                                            *)

LEMMA ChunkOrderFacts ==
    /\ DOMAIN ChunkOrder = Grouped /\ \A i \in Grouped : ChunkOrder[i] \in Grouped
    /\ \A i, j \in Grouped : ChunkOrder[i] = ChunkOrder[j] => i = j
<1>1. DOMAIN ChunkOrder = Grouped
  BY TopicGroupingAssumption DEF Grouped
<1>2. Range(ChunkOrder) = Grouped /\ IsInjective(ChunkOrder)
  BY TopicGroupingAssumption DEF Grouped
<1> QED BY <1>1, <1>2 DEF Range, IsInjective

(* Two chunks have one relation at most, from the first to the second. *)
LEMMA ClassifyFacts ==
    ASSUME texts \in [Grouped -> Texts], NEW a \in Grouped, NEW b \in Grouped
    PROVE  /\ ClassifyPair(a, b) \in SUBSET Relation
           /\ \A r, s \in ClassifyPair(a, b) : r = s
           /\ \A r \in ClassifyPair(a, b) : r.source = Min({a, b}) /\ r.target = Max({a, b})
<1>1. PICK low, high \in Grouped : low = Min({a, b}) /\ high = Max({a, b})
  <2>1. a \in Nat /\ b \in Nat
    BY GroupedFacts
  <2> QED BY <2>1, MinMaxOfTwo
<1>2. PICK k \in Nat : k = Cardinality(KeywordsOf(texts[a]) \cap KeywordsOf(texts[b]))
  <2>1. KeywordsOf(texts[a]) \cap KeywordsOf(texts[b]) \in SUBSET Words
    BY DEF KeywordsOf, MostFrequent
  <2>2. IsFiniteSet(KeywordsOf(texts[a]) \cap KeywordsOf(texts[b]))
    BY <2>1, TopicGroupingAssumption, FS_Subset
  <2> QED BY <2>2, FS_CardinalityType
<1>3. PICK n \in Nat : n = Cardinality(texts[a].standards \cap texts[b].standards)
  <2>1. IsFiniteSet(texts[a].standards)
    BY TopicGroupingAssumption
  <2>2. IsFiniteSet(texts[a].standards \cap texts[b].standards)
    BY <2>1, FS_Subset
  <2> QED BY <2>2, FS_CardinalityType
<1> DEFINE row(kind, common) == [kind |-> kind, source |-> low, target |-> high, shared |-> common]
<1>4. \/ ClassifyPair(a, b) = {}
      \/ \E kind \in RelationKinds, common \in Nat : ClassifyPair(a, b) = {row(kind, common)}
  <2>1. \/ ClassifyPair(a, b) = {row("related_to", k)}
        \/ ClassifyPair(a, b) = {row("shares_keyword", n + k)}
        \/ ClassifyPair(a, b) = {row("same_topic_as", k)}
        \/ ClassifyPair(a, b) = {row("shares_keyword", k)}
        \/ ClassifyPair(a, b) = {}
    BY <1>1, <1>2, <1>3 DEF ClassifyPair
  <2>2. n + k \in Nat /\ {"related_to", "shares_keyword", "same_topic_as"} = RelationKinds
    BY DEF RelationKinds
  <2> HIDE DEF row
  <2> QED BY <2>1, <2>2
<1>5. CASE ClassifyPair(a, b) = {}
  BY <1>5
<1>6. ASSUME NEW kind \in RelationKinds, NEW common \in Nat, ClassifyPair(a, b) = {row(kind, common)}
      PROVE  /\ ClassifyPair(a, b) \in SUBSET Relation
             /\ \A r, s \in ClassifyPair(a, b) : r = s
             /\ \A r \in ClassifyPair(a, b) : r.source = low /\ r.target = high
  <2>1. row(kind, common) \in Relation
    BY DEF Relation
  <2>2. row(kind, common).source = low /\ row(kind, common).target = high
    OBVIOUS
  <2> HIDE DEF row
  <2> QED BY <1>6, <2>1, <2>2
<1> HIDE DEF row
<1> QED BY <1>1, <1>4, <1>5, <1>6

(* No two relations have the same ends, so sorting them leaves no choice.  *)
LEMMA RelationsForFacts ==
    ASSUME texts \in [Grouped -> Texts]
    PROVE  RelationsFor \in Seq(Relation)
<1> DEFINE found == UNION {ClassifyPair(ChunkOrder[p[1]], ChunkOrder[p[2]]) : p \in OrderedPairs}
           order == {p \in found \X found :
                        \/ p[1].source < p[2].source
                        \/ p[1].source = p[2].source /\ p[1].target < p[2].target}
<1>1. \A r : r \in found <=>
               \E i, j \in Grouped : i < j /\ r \in ClassifyPair(ChunkOrder[i], ChunkOrder[j])
  <2>1. ASSUME NEW r \in found
        PROVE  \E i, j \in Grouped : i < j /\ r \in ClassifyPair(ChunkOrder[i], ChunkOrder[j])
    <3>1. PICK p \in OrderedPairs : r \in ClassifyPair(ChunkOrder[p[1]], ChunkOrder[p[2]])
      OBVIOUS
    <3>2. p[1] \in Grouped /\ p[2] \in Grouped /\ p[1] < p[2]
      BY DEF OrderedPairs
    <3> QED BY <3>1, <3>2
  <2>2. ASSUME NEW i \in Grouped, NEW j \in Grouped, i < j,
               NEW r \in ClassifyPair(ChunkOrder[i], ChunkOrder[j])
        PROVE  r \in found
    <3>1. <<i, j>> \in OrderedPairs
      BY <2>2 DEF OrderedPairs
    <3>2. PICK p \in OrderedPairs : p[1] = i /\ p[2] = j
      BY <3>1
    <3>3. r \in ClassifyPair(ChunkOrder[p[1]], ChunkOrder[p[2]])
      BY <3>2
    <3> QED BY <3>3
  <2> HIDE DEF found
  <2> QED BY <2>1, <2>2
<1>2. RelationsFor = InOrder(found, order)
  BY DEF RelationsFor
<1>3. \A r, s \in found : <<r, s>> \in order <=>
         r.source < s.source \/ (r.source = s.source /\ r.target < s.target)
  OBVIOUS
<1> HIDE DEF found, order
<1>4. ASSUME NEW r \in found
      PROVE  r \in Relation /\ r.source \in Grouped /\ r.target \in Grouped /\ r.source \in Nat /\ r.target \in Nat
  <2>1. PICK i, j \in Grouped : r \in ClassifyPair(ChunkOrder[i], ChunkOrder[j])
    BY <1>1
  <2>2. r \in Relation
    BY <2>1, ChunkOrderFacts, ClassifyFacts
  <2>3. r.source \in Grouped /\ r.target \in Grouped
    BY <2>2 DEF Relation
  <2> QED BY <2>2, <2>3, GroupedFacts
<1>5. ASSUME NEW r \in found, NEW s \in found, r.source = s.source, r.target = s.target
      PROVE  r = s
  <2>1. PICK i, j \in Grouped : i < j /\ r \in ClassifyPair(ChunkOrder[i], ChunkOrder[j])
    BY <1>1
  <2>2. PICK k, l \in Grouped : k < l /\ s \in ClassifyPair(ChunkOrder[k], ChunkOrder[l])
    BY <1>1
  <2>3. PICK a, b \in Grouped : a = ChunkOrder[i] /\ b = ChunkOrder[j]
    BY <2>1, ChunkOrderFacts
  <2>4. PICK c, d \in Grouped : c = ChunkOrder[k] /\ d = ChunkOrder[l]
    BY <2>2, ChunkOrderFacts
  <2>5. a \in Nat /\ b \in Nat /\ c \in Nat /\ d \in Nat /\ i \in Nat /\ j \in Nat /\ k \in Nat /\ l \in Nat
    BY <2>1, <2>2, <2>3, <2>4, GroupedFacts
  <2>6. r.source = Min({a, b}) /\ r.target = Max({a, b})
    BY <2>1, <2>3, ClassifyFacts
  <2>7. s.source = Min({c, d}) /\ s.target = Max({c, d})
    BY <2>2, <2>4, ClassifyFacts
  <2>8. \/ r.source = a /\ r.target = b
        \/ r.source = b /\ r.target = a
    BY <2>5, <2>6, MinMaxOfTwo
  <2>9. \/ s.source = c /\ s.target = d
        \/ s.source = d /\ s.target = c
    BY <2>5, <2>7, MinMaxOfTwo
  <2>10. CASE a = c /\ b = d
    <3>1. s \in ClassifyPair(a, b)
      BY <2>2, <2>4, <2>10
    <3> QED BY <2>1, <2>3, <3>1, ClassifyFacts
  <2>11. CASE a = d /\ b = c
    <3>1. i = l /\ j = k
      BY <2>1, <2>2, <2>3, <2>4, <2>11, ChunkOrderFacts
    <3> QED BY <2>1, <2>2, <2>5, <3>1
  <2>12. (a = c /\ b = d) \/ (a = d /\ b = c)
    BY <1>5, <2>8, <2>9
  <2> QED BY <2>10, <2>11, <2>12
<1>6. Total(order, found)
  <2>1. ASSUME NEW r \in found PROVE <<r, r>> \notin order
    BY <1>3, <1>4
  <2>2. ASSUME NEW r \in found, NEW s \in found, NEW t \in found, <<r, s>> \in order, <<s, t>> \in order
        PROVE  <<r, t>> \in order
    <3>1. /\ r.source < s.source \/ (r.source = s.source /\ r.target < s.target)
          /\ s.source < t.source \/ (s.source = t.source /\ s.target < t.target)
      BY <1>3, <2>2
    <3>2. /\ r.source \in Nat /\ s.source \in Nat /\ t.source \in Nat
          /\ r.target \in Nat /\ s.target \in Nat /\ t.target \in Nat
      BY <1>4
    <3>3. r.source < t.source \/ (r.source = t.source /\ r.target < t.target)
      BY <3>1, <3>2
    <3> QED BY <1>3, <3>3
  <2>3. ASSUME NEW r \in found, NEW s \in found PROVE r = s \/ <<r, s>> \in order \/ <<s, r>> \in order
    <3>1. r.source \in Nat /\ s.source \in Nat /\ r.target \in Nat /\ s.target \in Nat
      BY <1>4
    <3>2. \/ r.source = s.source /\ r.target = s.target
          \/ r.source < s.source \/ (r.source = s.source /\ r.target < s.target)
          \/ s.source < r.source \/ (s.source = r.source /\ s.target < r.target)
      BY <3>1
    <3> QED BY <1>3, <1>5, <3>2
  <2> QED BY <2>1, <2>2, <2>3 DEF Total
<1>7. IsFiniteSet(found)
  <2> DEFINE ends == {p \in Grouped \X Grouped : \E r \in found : r.source = p[1] /\ r.target = p[2]}
             f == [p \in ends |-> CHOOSE r \in found : r.source = p[1] /\ r.target = p[2]]
  <2>1. IsFiniteSet(Grouped \X Grouped)
    BY GroupedFacts, FS_Product
  <2>2. IsFiniteSet(ends)
    BY <2>1, FS_Subset
  <2>3. ASSUME NEW p \in ends PROVE f[p] \in found /\ f[p].source = p[1] /\ f[p].target = p[2]
    OBVIOUS
  <2>4. ASSUME NEW r \in found PROVE \E p \in ends : f[p] = r
    <3>1. <<r.source, r.target>> \in ends
      BY <1>4
    <3>2. f[<<r.source, r.target>>] \in found
      BY <2>3, <3>1
    <3>3. f[<<r.source, r.target>>].source = r.source /\ f[<<r.source, r.target>>].target = r.target
      BY <2>3, <3>1
    <3> HIDE DEF f, ends
    <3>4. f[<<r.source, r.target>>] = r
      BY <1>5, <3>2, <3>3
    <3> QED BY <3>1, <3>4
  <2>5. f \in [ends -> found]
    BY <2>3
  <2> HIDE DEF f, ends
  <2>6. f \in Surjection(ends, found)
    BY <2>4, <2>5 DEF Surjection
  <2> QED BY <2>2, <2>6, FS_Surjection
<1>8. RelationsFor \in Seq(found)
  BY <1>2, <1>6, <1>7, InOrderFacts
<1>9. found \in SUBSET Relation
  BY <1>4
<1> QED BY <1>8, <1>9

-----------------------------------------------------------------------------
(* The invariant.                                                          *)

LEMMA GroupingInit == TopicGroupingInit => GroupingInv
<1> SUFFICES ASSUME TopicGroupingInit PROVE GroupingInv
  OBVIOUS
<1>1. /\ DOMAIN grouping = {"stage", "relations", "left", "parent", "topics", "orphan", "coherent"}
      /\ texts \in [Grouped -> Texts] /\ grouping.stage = "relate"
      /\ grouping.relations = <<>> /\ grouping.left = <<>> /\ grouping.parent = [c \in Grouped |-> c]
  BY DEF TopicGroupingInit
<1>2. PICK own : own = grouping.parent
  OBVIOUS
<1>3. own \in [Grouped -> Grouped] /\ \A c \in Grouped : own[c] = c
  BY <1>1, <1>2
<1>4. Forest(own)
  BY <1>3, GroupedFacts DEF Forest
<1>5. ClusteringIn(<<>>) = {}
  BY DEF ClusteringIn, Range
<1>6. ASSUME NEW c \in Grouped PROVE Component(own, c) = Linked({}, c)
  <2>1. Component(own, c) = {c}
    BY <1>3, <1>4, RootFacts DEF Component
  <2>2. PICK none \in SUBSET Relation : none = {}
    OBVIOUS
  <2>3. Linked(none, c) \subseteq {c} /\ c \in Linked(none, c)
    <3>1. {c} \in SUBSET Grouped /\ c \in {c} /\ \A r \in none : r.source \in {c} <=> r.target \in {c}
      BY <2>2
    <3> QED BY <3>1, LinkedFacts
  <2> QED BY <2>1, <2>2, <2>3
<1>7. <<>> \in Seq(Relation)
  OBVIOUS
<1> QED BY <1>1, <1>2, <1>4, <1>5, <1>6, <1>7 DEF GroupingInv, HeldTogether

LEMMA RelateStep == GroupingInv /\ Relate => GroupingInv'
<1> SUFFICES ASSUME GroupingInv, Relate PROVE GroupingInv'
  OBVIOUS
<1>1. PICK done \in SUBSET Relation :
         /\ ClusteringIn(grouping.relations) = done \cup ClusteringIn(grouping.left)
         /\ HeldTogether(grouping.parent, done)
  BY DEF GroupingInv, Relate
<1>2. ClusteringIn(grouping.relations) = {}
  BY DEF GroupingInv, Relate
<1>3. done = {}
  BY <1>1, <1>2
<1>4. RelationsFor \in Seq(Relation)
  BY RelationsForFacts DEF GroupingInv
<1>5. /\ DOMAIN grouping' = {"stage", "relations", "left", "parent", "topics", "orphan", "coherent"}
      /\ grouping'.stage = "union" /\ grouping'.relations = RelationsFor /\ grouping'.left = RelationsFor
      /\ grouping'.parent = grouping.parent /\ texts' = texts
  BY DEF GroupingInv, Relate
<1>6. ClusteringIn(grouping'.relations) = done \cup ClusteringIn(grouping'.left)
  BY <1>3, <1>5
<1> QED BY <1>1, <1>4, <1>5, <1>6 DEF GroupingInv

LEMMA UnionStep == GroupingInv /\ UnionNext => GroupingInv'
<1> SUFFICES ASSUME GroupingInv, UnionNext PROVE GroupingInv'
  OBVIOUS
<1>1. PICK done \in SUBSET Relation :
         /\ ClusteringIn(grouping.relations) = done \cup ClusteringIn(grouping.left)
         /\ HeldTogether(grouping.parent, done)
  BY DEF GroupingInv, UnionNext
<1>2. PICK left \in Seq(Relation) : left = grouping.left /\ left # <<>>
  BY DEF GroupingInv, UnionNext
<1>3. PICK r \in Relation : r = Head(left)
  BY <1>2
<1>4. PICK parent : parent = grouping.parent /\ Forest(parent)
  BY DEF GroupingInv
<1>5. r.source \in Grouped /\ r.target \in Grouped
  BY DEF Relation
<1>6. /\ DOMAIN grouping' = {"stage", "relations", "left", "parent", "topics", "orphan", "coherent"}
      /\ grouping'.stage = "union" /\ grouping'.relations = grouping.relations
      /\ grouping'.left = Tail(left) /\ texts' = texts
      /\ grouping'.parent = IF Clusters(r) THEN Union(parent, r.source, r.target) ELSE parent
  BY <1>2, <1>3, <1>4 DEF GroupingInv, UnionNext
<1>7. Tail(left) \in Seq(Relation) /\ ClusteringIn(left) = {q \in {r} : Clusters(q)} \cup ClusteringIn(Tail(left))
  <2>1. /\ Len(left) \in Nat \ {0} /\ DOMAIN left = 1..Len(left) /\ left[1] = r
        /\ DOMAIN Tail(left) = 1..(Len(left) - 1) /\ \A i \in 1..(Len(left) - 1) : Tail(left)[i] = left[i + 1]
    BY <1>2, <1>3
  <2>2. \A q \in Range(left) : q = r \/ q \in Range(Tail(left))
    <3> SUFFICES ASSUME NEW i \in 1..Len(left) PROVE left[i] = r \/ left[i] \in Range(Tail(left))
      BY <2>1 DEF Range
    <3>1. CASE i # 1
      <4>1. i - 1 \in 1..(Len(left) - 1) /\ (i - 1) + 1 = i
        BY <2>1, <3>1
      <4>2. Tail(left)[i - 1] = left[i]
        BY <2>1, <4>1
      <4> QED BY <2>1, <4>1, <4>2 DEF Range
    <3> QED BY <2>1, <3>1
  <2>3. r \in Range(left)
    BY <2>1 DEF Range
  <2>4. \A q \in Range(Tail(left)) : q \in Range(left)
    <3> SUFFICES ASSUME NEW i \in 1..(Len(left) - 1) PROVE left[i + 1] \in Range(left)
      BY <2>1 DEF Range
    <3> QED BY <2>1 DEF Range
  <2>5. Tail(left) \in Seq(Relation)
    BY <1>2
  <2> QED BY <2>2, <2>3, <2>4, <2>5 DEF ClusteringIn
<1>8. CASE Clusters(r)
  <2>1. PICK more \in SUBSET Relation : more = done \cup {r}
    OBVIOUS
  <2>2. ClusteringIn(grouping'.relations) = more \cup ClusteringIn(grouping'.left)
    BY <1>1, <1>2, <1>6, <1>7, <1>8, <2>1
  <2>3. Forest(grouping'.parent)
    BY <1>4, <1>5, <1>6, <1>8, UnionFacts
  <2>4. HeldTogether(Union(parent, r.source, r.target), done \cup {r})
    BY <1>1, <1>4, UniteKeepsComponents
  <2>5. HeldTogether(grouping'.parent, more)
    BY <1>6, <1>8, <2>1, <2>4
  <2> QED BY <1>6, <1>7, <2>2, <2>3, <2>5 DEF GroupingInv
<1>9. CASE ~Clusters(r)
  <2>1. ClusteringIn(grouping'.relations) = done \cup ClusteringIn(grouping'.left)
    BY <1>1, <1>2, <1>6, <1>7, <1>9
  <2>2. grouping'.parent = grouping.parent
    BY <1>4, <1>6, <1>9
  <2> QED BY <1>1, <1>4, <1>6, <1>7, <2>1, <2>2 DEF GroupingInv
<1> QED BY <1>8, <1>9

LEMMA GroupStep == GroupingInv /\ Group => GroupingInv'
<1> SUFFICES ASSUME GroupingInv, Group PROVE GroupingInv'
  OBVIOUS
<1>1. PICK done \in SUBSET Relation :
         /\ ClusteringIn(grouping.relations) = done \cup ClusteringIn(grouping.left)
         /\ HeldTogether(grouping.parent, done)
  BY DEF GroupingInv, Group
<1>2. ClusteringIn(grouping.left) = {}
  BY DEF Group, ClusteringIn, Range
<1>3. HeldTogether(grouping.parent, ClusteringIn(grouping.relations))
  BY <1>1, <1>2
<1>4. /\ DOMAIN grouping' = {"stage", "relations", "left", "parent", "topics", "orphan", "coherent"}
      /\ grouping'.stage = "grouped" /\ grouping'.relations = grouping.relations
      /\ grouping'.left = grouping.left /\ grouping'.parent = grouping.parent /\ texts' = texts
      /\ grouping'.topics = TopicsOf(grouping.parent)
  BY DEF GroupingInv, Group
<1>5. grouping'.topics = TopicsOf(grouping.parent)'
  BY <1>4 DEF TopicsOf, AggregateKeywords
<1>6. HeldTogether(grouping'.parent, ClusteringIn(grouping'.relations))
  BY <1>3, <1>4
<1> QED BY <1>4, <1>5, <1>6 DEF GroupingInv

LEMMA GroupingInductive == TopicGroupingSpec => []GroupingInv
<1>1. ASSUME GroupingInv, UNCHANGED groupingVars PROVE GroupingInv'
  <2>1. grouping' = grouping /\ texts' = texts
    BY <1>1 DEF groupingVars
  <2>2. TopicsOf(grouping.parent)' = TopicsOf(grouping.parent)
    BY <2>1 DEF TopicsOf, AggregateKeywords
  <2> QED BY <1>1, <2>1, <2>2 DEF GroupingInv
<1>2. GroupingInv /\ [TopicGroupingNext]_groupingVars => GroupingInv'
  BY <1>1, RelateStep, UnionStep, GroupStep DEF TopicGroupingNext
<1> QED BY <1>2, GroupingInit, PTL DEF TopicGroupingSpec

(* Whatever the chunks say and however the document orders them, its        *)
(* topics are what chains of clustering relations hold together, each led   *)
(* down to its first chunk, with no orphan in it and no keyword from        *)
(* outside it.                                                             *)
THEOREM TopicsAlwaysComponents == TopicGroupingSpec => []TopicsAreComponents
<1>1. GroupingInv => TopicsAreComponents
  <2> SUFFICES ASSUME GroupingInv PROVE TopicsAreComponents
    OBVIOUS
  <2>1. PICK parent : parent = grouping.parent /\ Forest(parent)
    BY DEF GroupingInv
  <2>2. PICK edges \in SUBSET Relation : edges = {r \in Range(grouping.relations) : Clusters(r)}
    <3>1. Range(grouping.relations) \subseteq Relation
      BY DEF GroupingInv, Range
    <3> QED BY <3>1
  <2>3. \A c \in Grouped : grouping.parent[c] <= c
    BY <2>1 DEF Forest
  <2>4. ASSUME grouping.stage = "grouped"
        PROVE  /\ {t.chunks : t \in grouping.topics}
                     = {S \in {ClusteredWith(c) : c \in Grouped} : Cardinality(S) >= 2}
               /\ \A c \in Grouped : Root(grouping.parent, c) = Min(ClusteredWith(c))
               /\ Orphans(grouping.relations) \cap UNION {t.chunks : t \in grouping.topics} = {}
               /\ \A t \in grouping.topics : \A w \in t.keywords :
                     \E c \in t.chunks : w \in KeywordsOf(texts[c])
    <3> DEFINE component(r) == {c \in Grouped : Root(parent, c) = r}
    <3>1. /\ grouping.topics = TopicsOf(parent)
          /\ \A c \in Grouped : Component(parent, c) = ClusteredWith(c)
      BY <2>1, <2>4 DEF GroupingInv, HeldTogether, ClusteredWith, ClusteringIn
    <3>2. \A c \in Grouped : ClusteredWith(c) = component(Root(parent, c)) /\ Root(parent, c) \in Grouped
      BY <2>1, <3>1, RootFacts DEF Component
    <3>3. \A t : t \in grouping.topics <=>
             \E r \in Grouped : /\ Cardinality(component(r)) >= 2
                                /\ t = [chunks |-> component(r), keywords |-> AggregateKeywords(component(r))]
      BY <3>1 DEF TopicsOf
    <3>4. ASSUME NEW r \in Grouped, Cardinality(component(r)) >= 2
          PROVE  \E c \in Grouped : component(r) = ClusteredWith(c)
      <4>1. component(r) # {}
        BY <3>4, FS_EmptySet
      <4> QED BY <3>2, <4>1
    <3> HIDE DEF component
    <3>5. \A S : S \in {t.chunks : t \in grouping.topics} <=>
                    \E c \in Grouped : S = ClusteredWith(c) /\ Cardinality(S) >= 2
      <4>1. ASSUME NEW t \in grouping.topics
            PROVE  \E c \in Grouped : t.chunks = ClusteredWith(c) /\ Cardinality(t.chunks) >= 2
        BY <3>3, <3>4
      <4>2. ASSUME NEW c \in Grouped, Cardinality(ClusteredWith(c)) >= 2
            PROVE  \E t \in grouping.topics : t.chunks = ClusteredWith(c)
        <5>1. PICK r \in Grouped : ClusteredWith(c) = component(r)
          BY <3>2
        <5>2. PICK t : t = [chunks |-> component(r), keywords |-> AggregateKeywords(component(r))]
          OBVIOUS
        <5>3. t \in grouping.topics /\ t.chunks = component(r)
          BY <3>3, <4>2, <5>1, <5>2
        <5> QED BY <5>1, <5>3
      <4> QED BY <4>1, <4>2
    <3>6. {t.chunks : t \in grouping.topics} = {S \in {ClusteredWith(c) : c \in Grouped} : Cardinality(S) >= 2}
      <4>1. PICK A : A = {t.chunks : t \in grouping.topics}
        OBVIOUS
      <4>2. \A S : S \in A <=> \E c \in Grouped : S = ClusteredWith(c) /\ Cardinality(S) >= 2
        BY <3>5, <4>1
      <4>3. A = {S \in {ClusteredWith(c) : c \in Grouped} : Cardinality(S) >= 2}
        BY <4>2
      <4> QED BY <4>1, <4>3
    <3>7. ASSUME NEW c \in Grouped PROVE Root(grouping.parent, c) = Min(ClusteredWith(c))
      <4>1. ClusteredWith(c) = Component(parent, c)
        BY <3>1
      <4>2. ClusteredWith(c) \subseteq Nat
        BY <4>1, GroupedFacts DEF Component
      <4>3. Root(parent, c) \in ClusteredWith(c)
        <5>1. Root(parent, c) \in Grouped /\ parent[Root(parent, c)] = Root(parent, c)
          BY <2>1, RootFacts
        <5>2. Root(parent, Root(parent, c)) = Root(parent, c)
          BY <2>1, <5>1, RootFacts
        <5> QED BY <4>1, <5>1, <5>2 DEF Component
      <4>4. \A d \in ClusteredWith(c) : Root(parent, c) <= d
        <5> SUFFICES ASSUME NEW d \in ClusteredWith(c) PROVE Root(parent, c) <= d
          OBVIOUS
        <5>1. d \in Grouped /\ Root(parent, d) = Root(parent, c)
          BY <4>1 DEF Component
        <5>2. Root(parent, d) <= d
          BY <2>1, <5>1, RootFacts
        <5> QED BY <5>1, <5>2
      <4>5. \A x, y \in ClusteredWith(c) : x <= y /\ y <= x => x = y
        BY <4>2
      <4>6. PICK C, r : C = ClusteredWith(c) /\ r = Root(parent, c)
        OBVIOUS
      <4>7. Min(C) = r
        BY <4>3, <4>4, <4>5, <4>6 DEF Min
      <4> QED BY <2>1, <4>6, <4>7
    <3>8. ASSUME NEW c \in Orphans(grouping.relations), NEW t \in grouping.topics, c \in t.chunks PROVE FALSE
      <4>1. c \in Grouped /\ \A r \in edges : c # r.source /\ c # r.target
        BY <2>2 DEF Orphans
      <4>2. PICK d \in Grouped : t.chunks = Linked(edges, d) /\ Cardinality(t.chunks) >= 2
        BY <2>2, <3>5 DEF ClusteredWith
      <4>3. \A r \in edges : r.source \in Grouped /\ r.target \in Grouped
        BY DEF Relation
      <4>4. CASE d = c
        <5>1. Linked(edges, c) \subseteq {c} /\ c \in Linked(edges, c)
          <6>1. {c} \in SUBSET Grouped /\ c \in {c} /\ \A r \in edges : r.source \in {c} <=> r.target \in {c}
            BY <4>1
          <6> QED BY <4>1, <6>1, LinkedFacts
        <5>2. t.chunks = {c}
          BY <4>2, <4>4, <5>1
        <5>3. Cardinality({c}) = 1
          BY FS_Singleton
        <5> QED BY <4>2, <5>2, <5>3
      <4>5. CASE d # c
        <5>1. PICK S \in SUBSET Grouped : S = Grouped \ {c}
          OBVIOUS
        <5>2. d \in S /\ \A r \in edges : r.source \in S <=> r.target \in S
          BY <4>1, <4>3, <4>5, <5>1
        <5>3. Linked(edges, d) \subseteq S
          BY <5>2, LinkedFacts
        <5> QED BY <3>8, <4>2, <5>1, <5>3
      <4> QED BY <4>4, <4>5
    <3>9. ASSUME NEW t \in grouping.topics, NEW w \in t.keywords
          PROVE  \E c \in t.chunks : w \in KeywordsOf(texts[c])
      <4>1. w \in AggregateKeywords(t.chunks)
        BY <3>3
      <4> DEFINE with == {c \in t.chunks : w \in KeywordsOf(texts[c])}
      <4>2. Cardinality(with) > 0
        BY <4>1 DEF AggregateKeywords, MostFrequent
      <4>3. with # {}
        BY <4>2, FS_EmptySet
      <4> QED BY <4>3
    <3> QED BY <3>6, <3>7, <3>8, <3>9
  <2> QED BY <2>3, <2>4 DEF TopicsAreComponents
<1> QED BY <1>1, GroupingInductive, PTL

-----------------------------------------------------------------------------
(* Types.                                                                  *)

(* The rows of a file that loads are categories under categories. *)
LEMMA PublishedRows ==
    ASSUME NEW inserted \in Published, NEW r \in inserted
    PROVE  r.id \in CategoryIds /\ r.parent \in CategoryIds \cup {TopLevel}
<1>1. PICK doc \in Files : Loadable(doc) /\ inserted = InsertCategories(doc)
  BY DEF Published
<1> DEFINE order(i) == Cardinality({j \in 1..(i - 1) : ParentPosition(doc, j) = ParentPosition(doc, i)})
<1>2. PICK i \in DOMAIN doc : r.id = doc[i].id /\ r.parent = ParentOf(doc, i)
  <2>1. r \in {[id |-> doc[i].id, parent |-> ParentOf(doc, i), sortOrder |-> order(i)] : i \in DOMAIN doc}
    BY <1>1 DEF InsertCategories
  <2> HIDE DEF order
  <2> QED BY <2>1
<1>3. \A j \in DOMAIN doc : doc[j].id \in CategoryIds
  BY <1>1 DEF Loadable
<1>4. ParentPosition(doc, i) = 0 \/ ParentPosition(doc, i) \in DOMAIN doc
  BY <1>1, <1>2, DocFacts
<1> QED BY <1>2, <1>3, <1>4 DEF ParentOf

(* The tree of such a file is a forest of categories. *)
LEMMA TreesAreForests == Trees \subseteq Forests
<1> SUFFICES ASSUME NEW doc \in Files, Loadable(doc) PROVE AsAuthored(doc) \in Forests
  BY DEF Trees
<1>1. \A j \in DOMAIN doc : doc[j].id \in CategoryIds
  BY DEF Loadable
<1>2. Len(doc) \in Nat /\ DOMAIN doc = 1..Len(doc)
  BY FilesAssumption DEF FilesAssumption
<1> DEFINE below(p) == {i \in DOMAIN doc : ParentOf(doc, i) = p}
           row(p) == [k \in 1..Cardinality(below(p)) |-> doc[InOrder(below(p), Ascending(below(p)))[k]].id]
<1>3. ASSUME NEW p PROVE row(p) \in Seq(CategoryIds)
  <2>1. below(p) \subseteq 1..Len(doc)
    BY <1>2
  <2> HIDE DEF below
  <2>2. IsFiniteSet(below(p)) /\ below(p) \in SUBSET Int
    <3>1. IsFiniteSet(1..Len(doc))
      BY <1>2, FS_Interval
    <3>2. IsFiniteSet(below(p))
      BY <2>1, <3>1, FS_Subset
    <3> QED BY <1>2, <2>1, <3>2
  <2>3. PICK s : s = InOrder(below(p), Ascending(below(p)))
    OBVIOUS
  <2>4. s \in Seq(below(p)) /\ Len(s) = Cardinality(below(p))
    BY <2>2, <2>3, AscendingFacts, InOrderFacts
  <2>5. \A k \in 1..Cardinality(below(p)) : doc[s[k]].id \in CategoryIds
    BY <1>1, <1>2, <2>1, <2>4
  <2>6. Cardinality(below(p)) \in Nat
    BY <2>2, FS_CardinalityType
  <2> QED BY <2>3, <2>5, <2>6
<1> HIDE DEF row
<1>4. AsAuthored(doc) = [p \in CategoryIds \cup {TopLevel} |-> row(p)]
  BY DEF AsAuthored, row
<1> QED BY <1>3, <1>4 DEF Forests

FileIsKnown == file \in Files \cup {Missing}

(* What is published and what is served are categories, under categories.  *)
THEOREM PublicationIsTyped == PublicationSpec => []PublicationTypeOK
<1>1. PublicationInit => FileIsKnown
  BY DEF PublicationInit, FileIsKnown
<1>2. FileIsKnown /\ [PublicationNext]_publicationVars => FileIsKnown'
  BY DEF PublicationNext, EditFile, ImportYaml, Boot, publicationVars, FileIsKnown
<1>3. PublicationInv /\ FileIsKnown => PublicationTypeOK
  <2> SUFFICES ASSUME PublicationInv, FileIsKnown PROVE PublicationTypeOK
    OBVIOUS
  <2>1. ASSUME NEW i \in DOMAIN publications
        PROVE  publications[i].active \in BOOLEAN /\ publications[i].rows \in Published
    <3>1. publications[i] \in Publications
      BY <2>1 DEF PublicationInv
    <3> QED BY <3>1 DEF Publications
  <2>2. served \in Forests \cup {NotConfigured}
    BY TreesAreForests DEF PublicationInv
  <2> QED BY <2>1, <2>2, PublishedRows DEF PublicationTypeOK, FileIsKnown
<1> QED BY <1>1, <1>2, <1>3, PublicationInductive, PTL DEF PublicationSpec

(* No more hits are kept than were asked for, and the moments of a question *)
(* are of documents.                                                       *)
MomentsOfQuestions ==
    [shared : SUBSET SearchedDocuments, projected : SUBSET SearchedDocuments, chunks : SUBSET SearchedChunks]

SearchBeside ==
    /\ retrieval \in Retrievals
    /\ Len(question.hits) <= SearchLimit
    /\ during \in MomentsOfQuestions

LEMMA FoundWithinLimit ==
    ASSUME NEW order \in Orders, NEW words \in WordOrders, corpus \in Corpora
    PROVE  Len(FoundBy(order, words)) <= SearchLimit
<1>1. SearchLimit \in Nat /\ CandidatePool \in Nat
  BY KnowledgeSearchAssumption
<1>2. ASSUME NEW n \in Nat
      PROVE  /\ VectorSearch(order, n) \in Seq(SearchedChunks)
             /\ LexicalSearch(words, n) \in Seq(SearchedChunks)
  BY RetrieverFacts DEF VectorSearch, LexicalSearch
<1>3. \A n \in Nat : Len(VectorSearch(order, n)) <= n
  <2> TAKE n \in Nat
  <2>1. order \in Seq(SearchedChunks)
    BY KnowledgeSearchAssumption DEF SearchedChunks
  <2>2. Where(order, corpus.chunks) \in Seq(SearchedChunks)
    <3>1. Where(order, corpus.chunks) \in Seq(SearchedChunks \cap corpus.chunks)
      BY <2>1, WhereFacts
    <3> QED BY <3>1
  <2> QED BY <2>2, FirstFewRows DEF VectorSearch
<1>4. CASE retrieval.hybrid
  <2> DEFINE found == VectorSearch(order, CandidatePool)
             fused == Fuse(found, LexicalSearch(words, CandidatePool))
             first == FirstFew(fused, SearchLimit)
  <2>1. fused \in Seq(SearchedChunks)
    BY <1>1, <1>2, FuseFacts
  <2>2. FoundBy(order, words) = [i \in 1..Len(first) |-> HitOf(fused[i], found)]
    BY <1>4 DEF FoundBy, HybridSearch
  <2> HIDE DEF found, fused
  <2>3. Len(first) \in Nat /\ Len(first) <= SearchLimit
    BY <1>1, <2>1, FirstFewRows
  <2> HIDE DEF first
  <2> QED BY <2>2, <2>3
<1>5. CASE ~retrieval.hybrid
  <2> DEFINE found == VectorSearch(order, SearchLimit)
  <2>1. FoundBy(order, words) = [i \in 1..Len(found) |-> HitOf(found[i], found)]
    BY <1>5 DEF FoundBy, PlainSearch
  <2>2. Len(found) \in Nat /\ Len(found) <= SearchLimit
    BY <1>1, <1>2, <1>3
  <2> HIDE DEF found
  <2> QED BY <2>1, <2>2
<1> QED BY <1>4, <1>5

LEMMA HitsWithinLimit ==
    ASSUME SearchInv, SearchNext, Len(question.hits) <= SearchLimit
    PROVE  Len(question'.hits) <= SearchLimit
<1>1. SearchLimit \in Nat /\ question \in QuestionRecords /\ corpus \in Corpora /\ question.hits \in Seq(Hit)
  BY KnowledgeSearchAssumption DEF SearchInv, QuestionRecords
<1>2. NoQuestion.hits = <<>> /\ Len(<<>>) <= SearchLimit
  BY <1>1 DEF NoQuestion
<1>3. CASE question' = NoQuestion
  BY <1>2, <1>3
<1>4. CASE \E order \in Orders, words \in WordOrders :
              question' = [question EXCEPT !.stage = "check", !.hits = FoundBy(order, words)]
  <2>1. PICK order \in Orders, words \in WordOrders :
           question' = [question EXCEPT !.stage = "check", !.hits = FoundBy(order, words)]
    BY <1>4
  <2>2. question'.hits = FoundBy(order, words)
    BY <1>1, <2>1 DEF QuestionRecords
  <2> QED BY <1>1, <2>2, FoundWithinLimit
<1>5. CASE KeepAccessible
  <2>1. PICK kept : kept = Where(question.hits, {h \in Range(question.hits) : MayBeShown(h)})
    OBVIOUS
  <2>2. question'.hits = kept
    BY <1>1, <1>5, <2>1 DEF KeepAccessible, QuestionRecords
  <2>3. kept \in Seq(Hit \cap {h \in Range(question.hits) : MayBeShown(h)}) /\ Len(kept) <= Len(question.hits)
    BY <1>1, <2>1, WhereFacts
  <2>4. Len(kept) \in Nat /\ Len(question.hits) \in Nat
    BY <1>1, <2>3
  <2> QED BY <1>1, <2>2, <2>3, <2>4
<1>6. ASSUME NEW kind \in Questions, AskQuestion(kind) PROVE question'.hits = <<>>
  BY <1>6 DEF AskQuestion, NoQuestion
<1>7. CheckAccess \/ GroupByTopic \/ CollectTriples => question'.hits = question.hits
  BY <1>1 DEF CheckAccess, GroupByTopic, CollectTriples, QuestionRecords
<1>8. ModelAnswers => question'.hits = question.hits \/ question' = NoQuestion
  BY <1>1 DEF ModelAnswers, QuestionRecords
<1>9. ProjectSearched \/ DropSearched \/ ShareOrUnshare => question' = question
  BY DEF ProjectSearched, DropSearched, ShareOrUnshare
<1>10. SearchRestart => question' = NoQuestion
  BY DEF SearchRestart
<1>11. Retrieve => \/ question' = NoQuestion
                   \/ \E order \in Orders, words \in WordOrders :
                         question' = [question EXCEPT !.stage = "check", !.hits = FoundBy(order, words)]
  BY DEF Retrieve, FoundBy
<1> QED BY <1>2, <1>3, <1>4, <1>5, <1>6, <1>7, <1>8, <1>9, <1>10, <1>11 DEF SearchNext

LEMMA SearchBesideKept == SearchInv /\ SearchInv' /\ SearchBeside /\ [SearchNext]_searchVars => SearchBeside'
<1> SUFFICES ASSUME SearchInv, SearchInv', SearchBeside, [SearchNext]_searchVars PROVE SearchBeside'
  OBVIOUS
<1>1. CASE UNCHANGED searchVars
  BY <1>1 DEF searchVars, SearchBeside
<1>2. CASE SearchNext
  <2>1. retrieval' = retrieval /\ corpus' \in Corpora /\ shared' \subseteq SearchedDocuments
    BY <1>2, MomentFacts
  <2>2. Len(question'.hits) <= SearchLimit
    BY <1>2, HitsWithinLimit DEF SearchBeside
  <2>3. corpus'.projected \subseteq SearchedDocuments /\ corpus'.chunks \subseteq SearchedChunks
    BY <2>1 DEF Corpora
  <2>4. UNCHANGED during \/ Remember
    BY <1>2 DEF SearchNext
  <2>5. during' \in MomentsOfQuestions
    BY <2>1, <2>3, <2>4 DEF SearchBeside, Remember, MomentsOfQuestions
  <2> QED BY <2>1, <2>2, <2>5 DEF SearchBeside
<1> QED BY <1>1, <1>2

(* A question shows no more hits than were asked for, of chunks that there  *)
(* are, at every statement of it.                                          *)
THEOREM SearchIsTyped == SearchSpec => []SearchTypeOK
<1>1. SearchInit => SearchBeside
  <2> SUFFICES ASSUME SearchInit PROVE SearchBeside
    OBVIOUS
  <2>1. question.hits = <<>> /\ Len(<<>>) = 0 /\ SearchLimit \in Nat
    BY KnowledgeSearchAssumption DEF SearchInit, NoQuestion
  <2>2. 0 <= SearchLimit
    BY <2>1
  <2> QED BY <2>1, <2>2 DEF SearchInit, SearchBeside, MomentsOfQuestions
<1>2. SearchInv /\ SearchBeside => SearchTypeOK
  <2> SUFFICES ASSUME SearchInv, SearchBeside PROVE SearchTypeOK
    OBVIOUS
  <2>1. question \in QuestionRecords /\ question.hits \in Seq(Hit) /\ SearchLimit \in Nat
    BY KnowledgeSearchAssumption DEF SearchInv, QuestionRecords
  <2>2. Len(question.hits) \in 0..SearchLimit /\ question.hits \in [1..Len(question.hits) -> Hit]
    BY <2>1 DEF SearchBeside
  <2>3. question.hits \in BoundedSeq(Hit, SearchLimit)
    BY <2>2 DEF BoundedSeq, SeqOf
  <2> QED BY <2>1, <2>3 DEF SearchInv, SearchBeside, SearchTypeOK, Corpora, QuestionRecords, MomentsOfQuestions
<1> QED BY <1>1, <1>2, SearchInductive, SearchBesideKept, PTL DEF SearchSpec

-----------------------------------------------------------------------------
(* The configured store, and the changes that are counted. *)
MomentRecords ==
    [everEdges : SUBSET GraphEdges, steadyEdges : SUBSET GraphEdges, steadyNodes : SUBSET GraphNodes,
     changes : 0..MaxGraphChanges]

GraphBeside ==
    /\ backend \in [store : {"memory", "neo4j"}, sees : SUBSET GraphOwners]
    /\ moments \in MomentRecords

(* A change is counted if there may be one more. *)
LEMMA ChangesCounted ==
    ASSUME GraphReadsNext, moments \in MomentRecords
    PROVE  standing' = standing \/ moments.changes < MaxGraphChanges
<1>1. \A d \in GraphOwners : WriteNodes(d) \/ WriteEdges(d) \/ DropGraph(d) => moments.changes < MaxGraphChanges
  BY DEF WriteNodes, WriteEdges, DropGraph, Changing
<1>2. \A r \in Roots, d \in Depths, l \in EdgeLimits, f \in Floors :
         AskNeighborhood(r, d, l, f) => standing' = standing
  BY DEF AskNeighborhood, GraphStays
<1>3. \A d \in GraphOwners : ReadDocument(d) => standing' = standing
  BY DEF ReadDocument, GraphStays
<1>4. FetchRoot \/ CheckRootAccess \/ FindRoot \/ ExpandNode \/ LookUpNode \/ AskPages \/ ReadPage \/ CloseReading
        => standing' = standing
  BY DEF FetchRoot, CheckRootAccess, FindRoot, ExpandNode, LookUpNode, AskPages, ReadPage, CloseReading, GraphStays
<1> QED BY <1>1, <1>2, <1>3, <1>4 DEF GraphReadsNext

LEMMA GraphBesideKept == GraphInv /\ GraphBeside /\ [GraphReadsNext]_graphReadVars => GraphBeside'
<1> SUFFICES ASSUME GraphInv, GraphBeside, [GraphReadsNext]_graphReadVars PROVE GraphBeside'
  OBVIOUS
<1>1. CASE UNCHANGED graphReadVars
  BY <1>1 DEF graphReadVars, GraphBeside
<1>2. CASE GraphReadsNext
  <2>1. standing' \in Graphs /\ backend' = backend /\ Moments /\ moments \in MomentRecords
    BY <1>2, GraphMoments DEF GraphBeside, GraphReadsNext
  <2>2. MaxGraphChanges \in Nat
    BY GraphReadsAssumption
  <2>3. PICK count : count = moments.changes + IF standing' = standing THEN 0 ELSE 1
    OBVIOUS
  <2>4. count \in 0..MaxGraphChanges /\ 0 \in 0..MaxGraphChanges
    BY <1>2, <2>1, <2>2, <2>3, ChangesCounted DEF MomentRecords
  <2>5. moments' \in {[everEdges |-> {}, steadyEdges |-> {}, steadyNodes |-> {}, changes |-> 0],
                      [everEdges |-> standing'.edges, steadyEdges |-> standing'.edges,
                       steadyNodes |-> standing'.nodes, changes |-> 0],
                      [everEdges |-> moments.everEdges \cup standing'.edges,
                       steadyEdges |-> moments.steadyEdges \cap standing'.edges,
                       steadyNodes |-> moments.steadyNodes \cap standing'.nodes, changes |-> count]}
    BY <2>1, <2>3 DEF Moments
  <2>6. standing'.edges \in SUBSET GraphEdges /\ standing'.nodes \in SUBSET GraphNodes
    BY <2>1 DEF Graphs
  <2>7. moments' \in MomentRecords
    BY <2>1, <2>4, <2>5, <2>6 DEF MomentRecords
  <2> QED BY <2>1, <2>7 DEF GraphBeside
<1> QED BY <1>1, <1>2

(* What a reading has gone through and shows are nodes and edges that there *)
(* are, and the changes to the graph meanwhile are within the bound.       *)
THEOREM GraphReadsAreTyped == GraphReadsSpec => []GraphReadsTypeOK
<1>1. GraphReadsInit => GraphBeside
  BY GraphReadsAssumption DEF GraphReadsInit, GraphBeside, MomentRecords
<1>2. GraphInv /\ GraphBeside => GraphReadsTypeOK
  BY DEF GraphInv, GraphBeside, GraphReadsTypeOK, Readers, Graphs, MomentRecords
<1> QED BY <1>1, <1>2, GraphInvariant, GraphBesideKept, PTL DEF GraphReadsSpec

-----------------------------------------------------------------------------
(* A share of a whole is a percentage. *)
LEMMA Percentage == \A k, n \in Nat : n > 0 /\ k <= n => (100 * k) \div n \in 0..100
<1> SUFFICES ASSUME NEW k \in Nat, NEW n \in Nat, n > 0, k <= n PROVE (100 * k) \div n \in 0..100
  OBVIOUS
<1>1. PICK q \in Int : q = (100 * k) \div n
  OBVIOUS
<1>2. n * q <= 100 * k /\ 100 * k < n * q + n
  BY <1>1
<1>3. 100 * k <= 100 * n
  OBVIOUS
<1>4. q <= 100
  <2> SUFFICES ASSUME q >= 101 PROVE FALSE
    BY <1>1
  <2>1. n * q >= n * 101
    OBVIOUS
  <2> QED BY <1>2, <1>3, <2>1
<1>5. q >= 0
  <2> SUFFICES ASSUME q <= -1 PROVE FALSE
    BY <1>1
  <2>1. n * q <= n * (-1)
    OBVIOUS
  <2> QED BY <1>2, <2>1
<1> QED BY <1>1, <1>4, <1>5

(* The dominant of some sets is no larger than all of them together. *)
LEMMA DominantShare ==
    ASSUME NEW n \in Nat, NEW sizes \in SUBSET (1..n), sizes # {}
    PROVE  Max(sizes) \in 0..n
<1>1. \E m \in sizes : \A y \in sizes : m >= y
  <2>1. PICK m \in sizes : \A y \in sizes : y <= m
    BY GreatestOf
  <2>2. \A y \in sizes : y \in Nat /\ m \in Nat /\ m >= y
    BY <2>1
  <2> QED BY <2>2
<1>2. Max(sizes) \in sizes
  BY <1>1 DEF Max
<1>3. PICK m \in sizes : m = Max(sizes)
  BY <1>2
<1>4. m \in Nat /\ m <= n
  BY <1>3
<1> QED BY <1>3, <1>4

(* The topics of a forest are of chunks, and of their keywords. *)
LEMMA TopicFacts ==
    ASSUME NEW parent
    PROVE  \A t \in TopicsOf(parent) :
              t.chunks \subseteq Grouped /\ t.keywords \subseteq Words /\ Cardinality(t.chunks) >= 2
<1> DEFINE component(r) == {c \in Grouped : Root(parent, c) = r}
<1>1. ASSUME NEW t \in TopicsOf(parent)
      PROVE  \E r \in Grouped : /\ Cardinality(component(r)) >= 2
                                /\ t = [chunks |-> component(r), keywords |-> AggregateKeywords(component(r))]
  BY <1>1 DEF TopicsOf
<1>2. \A members : AggregateKeywords(members) \subseteq Words
  BY DEF AggregateKeywords, MostFrequent
<1>3. \A r : component(r) \subseteq Grouped
  OBVIOUS
<1> HIDE DEF component
<1> QED BY <1>1, <1>2, <1>3

LEMMA SignalsArePercentages ==
    ASSUME NEW relations, NEW parent
    PROVE  OrphanSignal(relations) \in 0..100 /\ IncoherenceSignal(TopicsOf(parent)) \in 0..100
<1>1. IsFiniteSet(Grouped) /\ Cardinality(Grouped) \in Nat
  BY GroupedFacts, FS_CardinalityType
<1>2. OrphanSignal(relations) \in 0..100
  <2>1. CASE Grouped = {}
    BY <2>1 DEF OrphanSignal
  <2>2. CASE Grouped # {}
    <3>1. Orphans(relations) \subseteq Grouped
      BY DEF Orphans
    <3>2. PICK k, n : k = Cardinality(Orphans(relations)) /\ n = Cardinality(Grouped)
      OBVIOUS
    <3>3. k \in Nat /\ k <= n /\ n \in Nat
      BY <1>1, <3>1, <3>2, FS_Subset, FS_CardinalityType
    <3>4. n > 0
      BY <1>1, <2>2, <3>2, <3>3, FS_EmptySet
    <3>5. PICK q : q = (100 * k) \div n
      OBVIOUS
    <3>6. q \in 0..100
      BY <3>3, <3>4, <3>5, Percentage
    <3>7. OrphanSignal(relations) = 100 - q
      BY <2>2, <3>2, <3>5 DEF OrphanSignal
    <3> QED BY <3>6, <3>7
  <2> QED BY <2>1, <2>2
<1>3. IncoherenceSignal(TopicsOf(parent)) \in 0..100
  <2>1. PICK topics : topics = TopicsOf(parent)
    OBVIOUS
  <2>2. CASE topics = {}
    BY <2>1, <2>2 DEF IncoherenceSignal
  <2>3. CASE topics # {}
    <3>1. \A t \in topics : t.chunks \subseteq Grouped /\ Cardinality(t.chunks) >= 2
      BY <2>1, TopicFacts
    <3>2. PICK all : all = UNION {t.chunks : t \in topics}
      OBVIOUS
    <3>3. all \subseteq Grouped /\ \A t \in topics : t.chunks \subseteq all
      BY <3>1, <3>2
    <3>4. IsFiniteSet(all)
      BY <1>1, <3>3, FS_Subset
    <3>5. Cardinality(all) \in Nat
      BY <3>4, FS_CardinalityType
    <3>6. \A t \in topics : Cardinality(t.chunks) \in Nat /\ Cardinality(t.chunks) <= Cardinality(all)
      BY <3>3, <3>4, FS_Subset, FS_CardinalityType
    <3>7. PICK sizes : sizes = {Cardinality(t.chunks) : t \in topics}
      OBVIOUS
    <3>8. \A t \in topics : Cardinality(t.chunks) \in 1..Cardinality(all)
      BY <3>1, <3>5, <3>6
    <3>9. sizes \in SUBSET (1..Cardinality(all)) /\ sizes # {}
      BY <2>3, <3>7, <3>8
    <3>10. Max(sizes) \in 0..Cardinality(all)
      BY <3>5, <3>9, DominantShare
    <3>11. Cardinality(all) > 0
      BY <2>3, <3>1, <3>5, <3>6
    <3>12. IncoherenceSignal(topics) = (100 * Max(sizes)) \div Cardinality(all)
      BY <2>3, <3>2, <3>7 DEF IncoherenceSignal
    <3>13. PICK k \in Nat, n \in Nat : k = Max(sizes) /\ n = Cardinality(all)
      BY <3>5, <3>10
    <3>14. k <= n /\ n > 0 /\ IncoherenceSignal(topics) = (100 * k) \div n
      BY <3>10, <3>11, <3>12, <3>13
    <3>15. (100 * k) \div n \in 0..100
      BY <3>14, Percentage
    <3> QED BY <2>1, <3>14, <3>15
  <2> QED BY <2>2, <2>3
<1> QED BY <1>2, <1>3

(* The topics and the signals, which GroupingInv leaves open while they are *)
(* not there yet.                                                          *)
Signalled ==
    /\ grouping.stage \in {"relate", "union", "grouped"}
    /\ \A t \in grouping.topics : t.chunks \subseteq Grouped /\ t.keywords \subseteq Words
    /\ grouping.orphan \in 0..100 /\ grouping.coherent \in 0..100

LEMMA SignalledKept == GroupingInv /\ Signalled /\ [TopicGroupingNext]_groupingVars => Signalled'
<1> SUFFICES ASSUME GroupingInv, Signalled, [TopicGroupingNext]_groupingVars PROVE Signalled'
  OBVIOUS
<1>1. DOMAIN grouping = {"stage", "relations", "left", "parent", "topics", "orphan", "coherent"}
  BY DEF GroupingInv
<1>2. CASE Relate \/ UnionNext
  <2>1. grouping'.stage = "union" /\ grouping'.topics = grouping.topics
        /\ grouping'.orphan = grouping.orphan /\ grouping'.coherent = grouping.coherent
    BY <1>1, <1>2 DEF Relate, UnionNext
  <2> QED BY <2>1 DEF Signalled
<1>3. CASE Group
  <2>1. PICK topics, orphan, coherent :
           /\ topics = TopicsOf(grouping.parent) /\ orphan = OrphanSignal(grouping.relations)
           /\ coherent = IncoherenceSignal(TopicsOf(grouping.parent))
    OBVIOUS
  <2>2. grouping' = [grouping EXCEPT !.stage = "grouped", !.topics = topics, !.orphan = orphan,
                                     !.coherent = coherent]
    BY <1>3, <2>1 DEF Group
  <2>3. grouping'.stage = "grouped" /\ grouping'.topics = topics
        /\ grouping'.orphan = orphan /\ grouping'.coherent = coherent
    BY <1>1, <2>2
  <2>4. orphan \in 0..100 /\ coherent \in 0..100
    BY <2>1, SignalsArePercentages
  <2>5. \A t \in topics : t.chunks \subseteq Grouped /\ t.keywords \subseteq Words
    BY <2>1, TopicFacts
  <2> QED BY <2>3, <2>4, <2>5 DEF Signalled
<1>4. CASE UNCHANGED groupingVars
  BY <1>4 DEF groupingVars, Signalled
<1> QED BY <1>2, <1>3, <1>4 DEF TopicGroupingNext

(* The signals the confidence score takes from a document's relations and   *)
(* topics are percentages, a document without chunks or topics included.   *)
THEOREM GroupingIsTyped == TopicGroupingSpec => []TopicGroupingTypeOK
<1>1. TopicGroupingInit => Signalled
  BY DEF TopicGroupingInit, Signalled
<1>2. GroupingInv /\ Signalled => TopicGroupingTypeOK
  <2> SUFFICES ASSUME GroupingInv, Signalled PROVE TopicGroupingTypeOK
    OBVIOUS
  <2>1. Range(grouping.relations) \subseteq Relation
    BY DEF GroupingInv, Range
  <2> QED BY <2>1 DEF GroupingInv, Forest, Signalled, TopicGroupingTypeOK
<1> QED BY <1>1, <1>2, GroupingInductive, SignalledKept, PTL DEF TopicGroupingSpec

=============================================================================
