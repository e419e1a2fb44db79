----------------------- MODULE PagedListings_proofs -----------------------
(***************************************************************************)
(* Whoever follows a paged listing to its end has seen what was there       *)
(* throughout, once and in order: proved of the topics of a version, the    *)
(* documents of a scope and the audit log, for any page size, any rows and  *)
(* any number of pages.                                                    *)
(*                                                                         *)
(* The three rest on the same facts.  In an order without ties the number   *)
(* of rows ahead of a row is the place it is listed at (RankFacts), so that *)
(* a page of the rows beyond a cursor leaves out exactly the rows beyond    *)
(* its last one (PageFacts), and a page joined to those before it keeps     *)
(* the order (JoinAscends).  What each adds is the invariant that tells     *)
(* which rows a walk can still owe: none behind its cursor.                 *)
(***************************************************************************)
EXTENDS PagedListings, SequenceTheorems, FiniteSetTheorems, TLAPS

-----------------------------------------------------------------------------
(* Rows in order.                                                          *)

(* An order that leaves no two members of S level. *)
Total(order, S) ==
    /\ \A x \in S : <<x, x>> \notin order
    /\ \A x, y, z \in S : <<x, y>> \in order /\ <<y, z>> \in order => <<x, z>> \in order
    /\ \A x, y \in S : x = y \/ <<x, y>> \in order \/ <<y, x>> \in order

(* Every row comes before the rows listed after it. *)
Ascends(s, order) == \A i, j \in 1..Len(s) : i < j => <<s[i], s[j]>> \in order

(* The number of rows ahead of a row tells where it is listed. *)
LEMMA RankFacts ==
    ASSUME NEW S, IsFiniteSet(S), NEW order, Total(order, S)
    PROVE  /\ \A x \in S : Cardinality(Ahead(x, S, order)) \in 0..(Cardinality(S) - 1)
           /\ \A x, y \in S : <<x, y>> \in order =>
                 Cardinality(Ahead(x, S, order)) < Cardinality(Ahead(y, S, order))
           /\ \A x, y \in S : Cardinality(Ahead(x, S, order)) = Cardinality(Ahead(y, S, order)) => x = y
           /\ \A n \in 0..(Cardinality(S) - 1) : \E x \in S : Cardinality(Ahead(x, S, order)) = n
<1>1. Cardinality(S) \in Nat
  BY FS_CardinalityType
<1>2. ASSUME NEW x \in S
      PROVE  Cardinality(Ahead(x, S, order)) \in 0..(Cardinality(S) - 1) /\ IsFiniteSet(Ahead(x, S, order))
  <2>1. Ahead(x, S, order) \in SUBSET S /\ x \notin Ahead(x, S, order)
    BY DEF Ahead, Total
  <2>2. /\ IsFiniteSet(Ahead(x, S, order)) /\ Cardinality(Ahead(x, S, order)) <= Cardinality(S)
        /\ Cardinality(Ahead(x, S, order)) # Cardinality(S)
    BY <2>1, FS_Subset
  <2>3. Cardinality(Ahead(x, S, order)) \in Nat
    BY <2>2, FS_CardinalityType
  <2> QED BY <1>1, <2>2, <2>3
<1>3. ASSUME NEW x \in S, NEW y \in S, <<x, y>> \in order
      PROVE  Cardinality(Ahead(x, S, order)) < Cardinality(Ahead(y, S, order))
  <2>1. /\ Ahead(x, S, order) \in SUBSET Ahead(y, S, order)
        /\ x \in Ahead(y, S, order) /\ x \notin Ahead(x, S, order)
    BY <1>3 DEF Ahead, Total
  <2>2. IsFiniteSet(Ahead(y, S, order))
    BY <1>2
  <2>3. /\ Cardinality(Ahead(x, S, order)) <= Cardinality(Ahead(y, S, order))
        /\ Cardinality(Ahead(x, S, order)) # Cardinality(Ahead(y, S, order))
    BY <2>1, <2>2, FS_Subset
  <2> QED BY <1>2, <2>3
<1>4. ASSUME NEW x \in S, NEW y \in S, Cardinality(Ahead(x, S, order)) = Cardinality(Ahead(y, S, order))
      PROVE  x = y
  <2>1. <<x, y>> \in order => Cardinality(Ahead(x, S, order)) < Cardinality(Ahead(y, S, order))
    BY <1>3
  <2>2. <<y, x>> \in order => Cardinality(Ahead(y, S, order)) < Cardinality(Ahead(x, S, order))
    BY <1>3
  <2>3. Cardinality(Ahead(x, S, order)) \in Int
    BY <1>2
  <2>4. <<x, y>> \notin order /\ <<y, x>> \notin order
    BY <1>4, <2>1, <2>2, <2>3
  <2> QED BY <2>4 DEF Total
<1>5. ASSUME NEW n \in 0..(Cardinality(S) - 1)
      PROVE  \E x \in S : Cardinality(Ahead(x, S, order)) = n
  <2> DEFINE T == 0..(Cardinality(S) - 1)
             f == [x \in S |-> Cardinality(Ahead(x, S, order))]
  <2>1. f \in Injection(S, T)
    BY <1>2, <1>4 DEF Injection, IsInjective
  <2>2. IsFiniteSet(T) /\ Cardinality(T) = Cardinality(S)
    BY <1>1, FS_Interval
  <2>3. f \in Surjection(S, T)
    BY <2>1, <2>2, FS_Injection
  <2> QED BY <2>3 DEF Surjection
<1> QED BY <1>2, <1>3, <1>4, <1>5

LEMMA InOrderFacts ==
    ASSUME NEW S, IsFiniteSet(S), NEW order, Total(order, S)
    PROVE  /\ InOrder(S, order) \in Seq(S)
           /\ Len(InOrder(S, order)) = Cardinality(S)
           /\ Ascends(InOrder(S, order), order)
           /\ \A x \in S : \E i \in 1..Len(InOrder(S, order)) : InOrder(S, order)[i] = x
<1> DEFINE s == InOrder(S, order)
           rank(x) == Cardinality(Ahead(x, S, order))
<1>1. Cardinality(S) \in Nat
  BY FS_CardinalityType
<1>2. ASSUME NEW i \in 1..Cardinality(S)
      PROVE  s[i] \in S /\ rank(s[i]) = i - 1
  <2>1. i - 1 \in 0..(Cardinality(S) - 1)
    BY <1>1
  <2>2. \E x \in S : rank(x) = i - 1
    BY <2>1, RankFacts
  <2> QED BY <2>2 DEF InOrder
<1>3. s \in Seq(S) /\ Len(s) = Cardinality(S)
  <2>1. s = [i \in 1..Cardinality(S) |-> s[i]]
    BY DEF InOrder
  <2> HIDE DEF s
  <2> QED BY <1>1, <1>2, <2>1
<1>4. \A x \in S : rank(x) \in 0..(Cardinality(S) - 1)
  BY RankFacts
<1>5. ASSUME NEW i \in 1..Len(s), NEW j \in 1..Len(s), i < j PROVE <<s[i], s[j]>> \in order
  <2>1. s[i] \in S /\ s[j] \in S /\ rank(s[i]) < rank(s[j])
    BY <1>1, <1>2, <1>3, <1>5
  <2>2. s[i] # s[j] /\ (<<s[j], s[i]>> \in order => rank(s[j]) < rank(s[i]))
    BY <2>1, <1>4, RankFacts
  <2>3. <<s[j], s[i]>> \notin order
    BY <1>4, <2>1, <2>2
  <2> QED BY <2>1, <2>2, <2>3 DEF Total
<1>6. ASSUME NEW x \in S PROVE \E i \in 1..Len(s) : s[i] = x
  <2>1. rank(x) + 1 \in 1..Len(s)
    BY <1>1, <1>3, <1>4
  <2>2. s[rank(x) + 1] \in S /\ rank(s[rank(x) + 1]) = rank(x)
    BY <1>1, <1>2, <1>3, <1>4, <2>1
  <2>3. s[rank(x) + 1] = x
    BY <2>2, RankFacts
  <2> QED BY <2>1, <2>3
<1> QED BY <1>3, <1>5, <1>6 DEF Ascends

(* A page is full or has everything, and what it has not comes after it. *)
LEMMA FirstFewFacts ==
    ASSUME NEW S, NEW order, NEW s \in Seq(S), Ascends(s, order), S \subseteq ToSet(s), NEW n \in Nat
    PROVE  LET page == FirstFew(s, n)
           IN  /\ page \in Seq(S) /\ Ascends(page, order)
               /\ Len(page) = IF Len(s) < n THEN Len(s) ELSE n
               /\ \A x \in S : \/ \E i \in 1..Len(page) : page[i] = x
                               \/ Len(page) = n /\ n < Len(s) /\ \A i \in 1..Len(page) : <<page[i], x>> \in order
<1> DEFINE k == IF Len(s) < n THEN Len(s) ELSE n
           page == FirstFew(s, n)
<1>1. /\ s \in Seq(S) /\ Ascends(s, order)
      /\ \A x \in S : \E i \in 1..Len(s) : s[i] = x
  BY DEF ToSet
<1>2. Len(s) \in Nat /\ k \in Nat /\ k <= Len(s) /\ \A i \in 1..k : s[i] \in S
  BY <1>1
<1>3. page \in Seq(S) /\ Len(page) = k /\ \A i \in 1..k : page[i] = s[i]
  <2>1. page = SubSeq(s, 1, k)
    BY DEF FirstFew
  <2> HIDE DEF k, page
  <2> QED BY <1>2, <2>1, SubSeqProperties
<1>6. Len(page) = IF Len(s) < n THEN Len(s) ELSE n
  BY <1>3
<1> HIDE DEF k, page
<1>7. ASSUME NEW i \in 1..Len(s), NEW j \in 1..Len(s), i < j PROVE <<s[i], s[j]>> \in order
  BY <1>1, <1>7 DEF Ascends
<1>4. Ascends(page, order)
  <2> SUFFICES ASSUME NEW i \in 1..Len(page), NEW j \in 1..Len(page), i < j
               PROVE  <<page[i], page[j]>> \in order
    BY DEF Ascends
  <2>1. i \in 1..Len(s) /\ j \in 1..Len(s)
    <3>1. i \in 1..k /\ j \in 1..k
      BY <1>3
    <3> QED BY <1>2, <3>1
  <2>2. page[i] = s[i] /\ page[j] = s[j]
    BY <1>3
  <2> QED BY <1>7, <2>1, <2>2
<1>5. ASSUME NEW x \in S
      PROVE  \/ \E i \in 1..Len(page) : page[i] = x
             \/ Len(page) = n /\ n < Len(s) /\ \A i \in 1..Len(page) : <<page[i], x>> \in order
  <2>1. PICK j \in 1..Len(s) : s[j] = x
    BY <1>1
  <2>2. CASE j <= k
    <3>1. j \in 1..k
      BY <1>2, <2>1, <2>2
    <3> QED BY <1>3, <2>1, <3>1
  <2>3. CASE j > k
    <3>1. k = n /\ n < Len(s)
      BY <1>2, <2>1, <2>3 DEF k
    <3>2. \A i \in 1..k : <<s[i], s[j]>> \in order
      <4> SUFFICES ASSUME NEW i \in 1..k PROVE <<s[i], s[j]>> \in order
        OBVIOUS
      <4>1. i \in 1..Len(s) /\ i < j
        BY <1>2, <2>1, <2>3
      <4> QED BY <1>7, <4>1
    <3> QED BY <1>3, <2>1, <3>1, <3>2
  <2>4. j \in Int /\ k \in Int
    BY <1>2
  <2> QED BY <2>2, <2>3, <2>4
<1> QED BY <1>3, <1>4, <1>5, <1>6 DEF page

LEMMA PageFacts ==
    ASSUME NEW S, IsFiniteSet(S), NEW order, Total(order, S), NEW n \in Nat
    PROVE  LET s == InOrder(S, order)
               page == FirstFew(s, n)
           IN  /\ page \in Seq(S) /\ Ascends(page, order)
               /\ Len(page) = IF Len(s) < n THEN Len(s) ELSE n
               /\ \A x \in S : \/ \E i \in 1..Len(page) : page[i] = x
                               \/ Len(page) = n /\ n < Len(s) /\ \A i \in 1..Len(page) : <<page[i], x>> \in order
<1> DEFINE s == InOrder(S, order)
<1>1. s \in Seq(S) /\ Ascends(s, order) /\ \A x \in S : \E i \in 1..Len(s) : s[i] = x
  BY InOrderFacts
<1> HIDE DEF s
<1>2. S \subseteq ToSet(s)
  BY <1>1 DEF ToSet
<1> QED BY <1>1, <1>2, FirstFewFacts DEF s

LEMMA TailFacts ==
    ASSUME NEW S, NEW s \in Seq(S), NEW n \in Nat, n <= Len(s)
    PROVE  LET rest == SubSeq(s, n + 1, Len(s))
           IN  /\ rest = [i \in 1..(Len(s) - n) |-> rest[i]] /\ Len(rest) = Len(s) - n
               /\ \A i \in 1..(Len(s) - n) : rest[i] = s[n + i] /\ n + i \in 1..Len(s) /\ n < n + i
<1> DEFINE m == n + 1
           l == Len(s)
           rest == SubSeq(s, m, l)
<1>1. m \in Int /\ l \in Int /\ l \in Nat /\ \A i \in m..l : s[i] \in S
  OBVIOUS
<1>2. l - m + 1 = l - n /\ (IF m <= l THEN l - m + 1 ELSE 0) = l - n
  OBVIOUS
<1>3. \A i \in 1..(l - n) : m + i - 1 = n + i /\ n + i \in 1..l /\ n < n + i
  OBVIOUS
<1> HIDE DEF m, l
<1>4. /\ rest \in Seq(S)
      /\ Len(rest) = IF m <= l THEN l - m + 1 ELSE 0
      /\ \A i \in 1..(l - m + 1) : rest[i] = s[m + i - 1]
  BY <1>1, SubSeqProperties
<1> HIDE DEF rest
<1>5. rest = [i \in 1..Len(rest) |-> rest[i]]
  BY <1>4
<1>6. Len(rest) = l - n
  BY <1>2, <1>4
<1>7. rest = [i \in 1..(l - n) |-> rest[i]]
  BY <1>5, <1>6
<1>8. \A i \in 1..(l - n) : rest[i] = s[n + i] /\ n + i \in 1..l /\ n < n + i
  BY <1>2, <1>3, <1>4
<1> QED BY <1>6, <1>7, <1>8 DEF rest, m, l

(* The members of S up to x in the order, and those behind it. *)
UpTo(x, S, order) == {y \in S : y = x \/ <<y, x>> \in order}
Beyond(x, S, order) == {y \in S : <<x, y>> \in order}

(* What is left of the rows in order without those up to x.                *)
LEMMA DropFacts ==
    ASSUME NEW S, IsFiniteSet(S), NEW order, Total(order, S), NEW x \in S
    PROVE  LET rest == SubSeq(InOrder(S, order), Cardinality(UpTo(x, S, order)) + 1, Len(InOrder(S, order)))
           IN  /\ rest \in Seq(Beyond(x, S, order)) /\ Ascends(rest, order)
               /\ \A y \in Beyond(x, S, order) : \E i \in 1..Len(rest) : rest[i] = y
<1>0. PICK n : n = Cardinality(UpTo(x, S, order))
  OBVIOUS
<1> DEFINE s == InOrder(S, order)
           T == Beyond(x, S, order)
           A == Ahead(x, S, order)
           rest == SubSeq(s, n + 1, Len(s))
<1>1. /\ s \in Seq(S) /\ Len(s) = Cardinality(S) /\ Ascends(s, order)
      /\ \A y \in S : \E i \in 1..Len(s) : s[i] = y
  BY InOrderFacts
<1>2. /\ x \notin A /\ IsFiniteSet(A) /\ UpTo(x, S, order) = A \cup {x}
  <2>1. A \in SUBSET S /\ x \notin A
    BY DEF Ahead, Total
  <2>2. IsFiniteSet(A)
    BY <2>1, FS_Subset
  <2> QED BY <2>1, <2>2 DEF Ahead, UpTo
<1>3. n = Cardinality(A) + 1 /\ Cardinality(A) \in Nat
  BY <1>0, <1>2, FS_AddElement, FS_CardinalityType
<1>4. Cardinality(A) \in 0..(Cardinality(S) - 1)
  BY RankFacts
<1>5. n \in 1..Len(s) /\ Len(s) \in Nat
  BY <1>1, <1>3, <1>4, FS_CardinalityType
<1>6. s[n] = x
  <2>1. s[n] = CHOOSE y \in S : Cardinality(Ahead(y, S, order)) = n - 1
    BY <1>1, <1>5 DEF InOrder
  <2>2. Cardinality(Ahead(x, S, order)) = n - 1
    BY <1>3
  <2>3. s[n] \in S /\ Cardinality(Ahead(s[n], S, order)) = Cardinality(Ahead(x, S, order))
    BY <2>1, <2>2
  <2> QED BY <2>3, RankFacts
<1> HIDE DEF s, A
<1>7. /\ rest = [i \in 1..(Len(s) - n) |-> rest[i]] /\ Len(rest) = Len(s) - n
      /\ \A i \in 1..(Len(s) - n) : rest[i] = s[n + i] /\ n + i \in 1..Len(s) /\ n < n + i
  <2>1. s \in Seq(S) /\ n \in Nat /\ n <= Len(s)
    BY <1>1, <1>5
  <2> HIDE DEF T
  <2> QED BY <2>1, TailFacts
<1> HIDE DEF rest
<1>9. ASSUME NEW i \in 1..Len(s), NEW j \in 1..Len(s), i < j PROVE <<s[i], s[j]>> \in order
  BY <1>1, <1>9 DEF Ascends
<1>10. ASSUME NEW i \in 1..(Len(s) - n) PROVE rest[i] \in T
  <2>1. rest[i] = s[n + i] /\ n + i \in 1..Len(s) /\ n < n + i
    BY <1>7
  <2>2. <<s[n], s[n + i]>> \in order /\ s[n + i] \in S
    BY <1>1, <1>5, <1>9, <2>1
  <2> QED BY <1>6, <2>1, <2>2 DEF Beyond
<1>11. rest \in Seq(T)
  <2>1. PICK k \in Nat : k = Len(s) - n
    BY <1>5
  <2>2. \A i \in 1..k : rest[i] \in T
    BY <1>10, <2>1
  <2>3. rest = [i \in 1..k |-> rest[i]]
    BY <1>7, <2>1
  <2> HIDE DEF T
  <2> QED BY <2>2, <2>3
<1>12. Ascends(rest, order)
  <2> SUFFICES ASSUME NEW i \in 1..Len(rest), NEW j \in 1..Len(rest), i < j
               PROVE  <<rest[i], rest[j]>> \in order
    BY DEF Ascends
  <2>1. i \in 1..(Len(s) - n) /\ j \in 1..(Len(s) - n)
    BY <1>7
  <2>2. rest[i] = s[n + i] /\ rest[j] = s[n + j] /\ n + i \in 1..Len(s) /\ n + j \in 1..Len(s)
    BY <1>7, <2>1
  <2>3. n + i < n + j
    BY <1>5, <2>1
  <2> QED BY <1>9, <2>2, <2>3
<1>13. ASSUME NEW y \in T PROVE \E i \in 1..Len(rest) : rest[i] = y
  <2>1. PICK j \in 1..Len(s) : s[j] = y
    BY <1>1 DEF Beyond
  <2>2. j # n /\ ~(j < n)
    <3>1. <<x, y>> \in order /\ y \in S
      BY DEF Beyond
    <3>2. <<x, x>> \notin order /\ ~(<<x, y>> \in order /\ <<y, x>> \in order)
      BY <3>1 DEF Total
    <3>3. j < n => <<y, x>> \in order
      BY <1>5, <1>6, <1>9, <2>1
    <3> QED BY <1>6, <2>1, <3>1, <3>2, <3>3
  <2>3. j - n \in 1..(Len(s) - n) /\ n + (j - n) = j
    BY <1>5, <2>1, <2>2
  <2>4. rest[j - n] = s[n + (j - n)]
    BY <1>7, <2>3
  <2> QED BY <1>7, <2>1, <2>3, <2>4
<1> QED BY <1>0, <1>11, <1>12, <1>13 DEF s, rest

-----------------------------------------------------------------------------
(* Pages one after the other.                                              *)

LEMMA JoinFacts ==
    ASSUME NEW S, NEW s \in Seq(S), NEW t \in Seq(S)
    PROVE  /\ s \o t \in Seq(S) /\ Len(s \o t) = Len(s) + Len(t)
           /\ \A i \in 1..Len(s) : (s \o t)[i] = s[i]
           /\ \A i \in 1..Len(t) : (s \o t)[Len(s) + i] = t[i]
           /\ \A i \in 1..Len(s \o t) : i \in 1..Len(s) \/ i - Len(s) \in 1..Len(t)
           /\ ToSet(s \o t) = ToSet(s) \cup ToSet(t)
<1>1. /\ s \o t \in Seq(S) /\ Len(s \o t) = Len(s) + Len(t)
      /\ \A i \in 1..Len(s) : (s \o t)[i] = s[i]
      /\ \A i \in 1..Len(t) : (s \o t)[Len(s) + i] = t[i]
      /\ \A i \in 1..Len(s \o t) : i \in 1..Len(s) \/ i - Len(s) \in 1..Len(t)
  OBVIOUS
<1>2. /\ DOMAIN s = 1..Len(s) /\ DOMAIN t = 1..Len(t) /\ DOMAIN (s \o t) = 1..Len(s \o t)
      /\ Len(s) \in Nat /\ Len(t) \in Nat
  BY <1>1
<1> DEFINE u == s \o t
<1>3. /\ DOMAIN u = 1..Len(u) /\ Len(u) = Len(s) + Len(t)
      /\ \A i \in 1..Len(s) : u[i] = s[i]
      /\ \A i \in 1..Len(t) : u[Len(s) + i] = t[i]
      /\ \A i \in 1..Len(u) : i \in 1..Len(s) \/ i - Len(s) \in 1..Len(t)
  BY <1>1, <1>2
<1> HIDE DEF u
<1>4. ASSUME NEW x \in ToSet(u) PROVE x \in ToSet(s) \cup ToSet(t)
  <2>1. PICK i \in 1..Len(u) : u[i] = x
    BY <1>3, <1>4 DEF ToSet
  <2>2. CASE i \in 1..Len(s)
    BY <1>2, <1>3, <2>1, <2>2 DEF ToSet
  <2>3. CASE i - Len(s) \in 1..Len(t)
    <3>1. u[Len(s) + (i - Len(s))] = t[i - Len(s)]
      BY <1>3, <2>3
    <3>2. Len(s) + (i - Len(s)) = i
      BY <1>2, <1>3, <2>1
    <3> QED BY <1>2, <2>1, <2>3, <3>1, <3>2 DEF ToSet
  <2> QED BY <1>3, <2>2, <2>3
<1>5. ASSUME NEW x \in ToSet(s) PROVE x \in ToSet(u)
  <2>1. PICK i \in 1..Len(s) : s[i] = x
    BY <1>2, <1>5 DEF ToSet
  <2> QED BY <1>2, <1>3, <2>1 DEF ToSet
<1>6. ASSUME NEW x \in ToSet(t) PROVE x \in ToSet(u)
  <2>1. PICK i \in 1..Len(t) : t[i] = x
    BY <1>2, <1>6 DEF ToSet
  <2>2. Len(s) + i \in 1..Len(u) /\ u[Len(s) + i] = x
    BY <1>2, <1>3, <2>1
  <2> QED BY <1>3, <2>2 DEF ToSet
<1>7. ToSet(u) = ToSet(s) \cup ToSet(t)
  BY <1>4, <1>5, <1>6
<1> QED BY <1>1, <1>7 DEF u

(* A page of rows none of which was seen repeats nothing. *)
LEMMA JoinInjective ==
    ASSUME NEW S, NEW s \in Seq(S), NEW t \in Seq(S), IsInjective(s), IsInjective(t),
           \A x \in ToSet(s) : x \notin ToSet(t)
    PROVE  IsInjective(s \o t)
<1> DEFINE u == s \o t
<1>1. /\ DOMAIN u = 1..Len(u) /\ DOMAIN s = 1..Len(s) /\ DOMAIN t = 1..Len(t)
      /\ Len(s) \in Nat /\ Len(t) \in Nat /\ Len(u) = Len(s) + Len(t)
      /\ \A i \in 1..Len(s) : u[i] = s[i]
      /\ \A i \in 1..Len(t) : u[Len(s) + i] = t[i]
      /\ \A i \in 1..Len(u) : i \in 1..Len(s) \/ i - Len(s) \in 1..Len(t)
  BY JoinFacts
<1> HIDE DEF u
<1>2. \A i \in 1..Len(s), j \in 1..Len(t) : s[i] # t[j]
  BY <1>1 DEF ToSet
<1>3. \A i, j \in 1..Len(s) : s[i] = s[j] => i = j
  BY <1>1 DEF IsInjective
<1>4. \A i, j \in 1..Len(t) : t[i] = t[j] => i = j
  BY <1>1 DEF IsInjective
<1>5. \A i \in 1..Len(u) : i - Len(s) \in 1..Len(t) => u[i] = t[i - Len(s)]
  <2> TAKE i \in 1..Len(u)
  <2> HAVE i - Len(s) \in 1..Len(t)
  <2>1. Len(s) + (i - Len(s)) = i
    BY <1>1
  <2> QED BY <1>1, <2>1
<1>6. ASSUME NEW i \in 1..Len(u), NEW j \in 1..Len(u), u[i] = u[j] PROVE i = j
  <2>1. CASE i \in 1..Len(s) /\ j \in 1..Len(s)
    BY <1>1, <1>3, <1>6, <2>1
  <2>2. CASE i - Len(s) \in 1..Len(t) /\ j - Len(s) \in 1..Len(t)
    <3>1. i - Len(s) = j - Len(s)
      BY <1>4, <1>5, <1>6, <2>2
    <3> QED BY <1>1, <3>1
  <2>3. CASE i \in 1..Len(s) /\ j - Len(s) \in 1..Len(t)
    BY <1>1, <1>2, <1>5, <1>6, <2>3
  <2>4. CASE i - Len(s) \in 1..Len(t) /\ j \in 1..Len(s)
    BY <1>1, <1>2, <1>5, <1>6, <2>4
  <2> QED BY <1>1, <2>1, <2>2, <2>3, <2>4
<1> QED BY <1>1, <1>6 DEF IsInjective, u

(* A page of rows behind all those seen goes on in their order. *)
LEMMA JoinAscends ==
    ASSUME NEW S, NEW s \in Seq(S), NEW t \in Seq(S), NEW order, Ascends(s, order), Ascends(t, order),
           \A x \in ToSet(s), y \in ToSet(t) : <<x, y>> \in order
    PROVE  Ascends(s \o t, order)
<1> DEFINE u == s \o t
<1>1. /\ DOMAIN s = 1..Len(s) /\ DOMAIN t = 1..Len(t)
      /\ Len(s) \in Nat /\ Len(t) \in Nat /\ Len(u) = Len(s) + Len(t)
      /\ \A i \in 1..Len(s) : u[i] = s[i]
      /\ \A i \in 1..Len(t) : u[Len(s) + i] = t[i]
      /\ \A i \in 1..Len(u) : i \in 1..Len(s) \/ i - Len(s) \in 1..Len(t)
  BY JoinFacts
<1> HIDE DEF u
<1>2. ASSUME NEW i \in 1..Len(s), NEW j \in 1..Len(t) PROVE <<s[i], t[j]>> \in order
  BY <1>1 DEF ToSet
<1>3. ASSUME NEW i \in 1..Len(s), NEW j \in 1..Len(s), i < j PROVE <<s[i], s[j]>> \in order
  BY <1>3 DEF Ascends
<1>4. ASSUME NEW i \in 1..Len(t), NEW j \in 1..Len(t), i < j PROVE <<t[i], t[j]>> \in order
  BY <1>4 DEF Ascends
<1>5. ASSUME NEW i \in 1..Len(u), i - Len(s) \in 1..Len(t) PROVE u[i] = t[i - Len(s)]
  <2>1. Len(s) + (i - Len(s)) = i
    BY <1>1
  <2> QED BY <1>1, <1>5, <2>1
<1>6. ASSUME NEW i \in 1..Len(u), NEW j \in 1..Len(u), i < j PROVE <<u[i], u[j]>> \in order
  <2>1. CASE j \in 1..Len(s)
    <3>1. i \in 1..Len(s)
      BY <1>1, <1>6, <2>1
    <3> QED BY <1>1, <1>3, <1>6, <2>1, <3>1
  <2>2. CASE j - Len(s) \in 1..Len(t) /\ i \in 1..Len(s)
    BY <1>1, <1>2, <1>5, <2>2
  <2>3. CASE j - Len(s) \in 1..Len(t) /\ i - Len(s) \in 1..Len(t)
    <3>1. i - Len(s) < j - Len(s)
      BY <1>1, <1>6
    <3> QED BY <1>4, <1>5, <2>3, <3>1
  <2> QED BY <1>1, <2>1, <2>2, <2>3
<1> QED BY <1>6 DEF Ascends, u

-----------------------------------------------------------------------------
(* The pages of topics.                                                    *)

Runs == [stage : Nat, step : {"waiting", "done", "extract", "save"}, layout : Layouts,
         batch : SUBSET Ids]

Topics == rows["document_topics"]

TopicRows == [id : Ids, at : Nat, by : Projections]

(* The topics of a version have numbers of their own and are older than     *)
(* whatever is saved next.                                                 *)
TopicsInv ==
    /\ "document_topics" \in DOMAIN rows
    /\ clock \in Nat
    /\ layout \in [raw : Layouts, semantic : Layouts]
    /\ projection \in [Projections -> Runs]
    /\ Topics \subseteq TopicRows /\ IsFiniteSet(Topics)
    /\ \A r \in Topics : r.at < clock
    /\ \A r, s \in Topics : r.id = s.id => r = s

(* A walk has seen what is not behind its cursor, of the topics that were   *)
(* there at its beginning and still are, and nothing that is behind it.    *)
WalkInv ==
    /\ walk \in [on : BOOLEAN, at : Int, id : Int, seen : Seq(TopicRows), start : SUBSET TopicRows]
    /\ \A r \in walk.start : r.at < clock
    /\ IsInjective(walk.seen)
    /\ walk.on =>
          /\ \A r \in ToSet(walk.seen) : ~Before(walk, r)
          /\ \A r \in walk.start \cap Topics : r \in ToSet(walk.seen) \/ Before(walk, r)
    /\ ~walk.on => walk.start \cap Topics \subseteq ToSet(walk.seen)

LEMMA IdsAreFinite == IsFiniteSet(Ids) /\ Ids \subseteq Int
<1>1. Ids \in SUBSET (0..(MaxItems + 202))
  BY EnrichmentAssumption DEF EnrichmentAssumption, Ids, Layouts, SectionsOf
<1>2. MaxItems + 202 \in Int
  BY EnrichmentAssumption DEF EnrichmentAssumption
<1>3. IsFiniteSet(0..(MaxItems + 202))
  BY <1>2, FS_Interval
<1>4. IsFiniteSet(Ids)
  BY <1>1, <1>3, FS_Subset
<1> QED BY <1>1, <1>4

LEMMA BatchIds == \A t : \A l \in Layouts : BatchesFrom(t, l) \subseteq SUBSET Ids
<1>1. MaxItems \in Nat \ {0}
  BY EnrichmentAssumption DEF EnrichmentAssumption
<1>2. /\ \A l \in Layouts : SectionsOf(l) \subseteq Ids
      /\ 0..(MaxItems - 1) \subseteq Ids
  BY DEF Ids
<1>3. ClaimBatches \subseteq SUBSET Ids
  BY <1>1, <1>2 DEF ClaimBatches
<1>4. ProcessBatches \subseteq SUBSET Ids
  BY <1>1, <1>2 DEF ProcessBatches
<1>5. TopicBatches \subseteq SUBSET Ids
  BY <1>2 DEF TopicBatches
<1>6. \A l \in Layouts : AllocationBatches(l) \subseteq SUBSET Ids
  BY <1>2 DEF AllocationBatches
<1> QED BY <1>3, <1>4, <1>5, <1>6 DEF BatchesFrom

(* Whatever is written, no topic comes back that is older than the clock:   *)
(* a walk that is left alone stays right.                                  *)
LEMMA WalkStays ==
    ASSUME WalkInv, walk' = walk, clock \in Nat, clock' \in Nat, clock <= clock',
           \A r \in Topics' : r \in Topics \/ r.at = clock
    PROVE  WalkInv'
<1>1. \A r \in walk.start \cap Topics' : r \in Topics
  BY DEF WalkInv
<1>2. \A r \in walk.start : r.at < clock'
  BY DEF WalkInv, TopicRows
<1> QED BY <1>1, <1>2 DEF WalkInv, Before

(* Topics are only removed. *)
LEMMA FewerTopics ==
    ASSUME TopicsInv, WalkInv, UNCHANGED <<clock, walk>>,
           "document_topics" \in DOMAIN rows', Topics' \subseteq Topics,
           layout' \in [raw : Layouts, semantic : Layouts], projection' \in [Projections -> Runs]
    PROVE  TopicsInv' /\ WalkInv'
<1>1. IsFiniteSet(Topics')
  BY FS_Subset DEF TopicsInv
<1>2. TopicsInv'
  BY <1>1 DEF TopicsInv
<1>3. WalkInv'
  BY WalkStays DEF TopicsInv
<1> QED BY <1>2, <1>3

LEMMA NextRun ==
    ASSUME TopicsInv, NEW p \in Projections, NextStage(p)
    PROVE  projection' \in [Projections -> Runs]
<1>1. projection \in [Projections -> Runs] /\ projection[p] \in Runs
  BY DEF TopicsInv
<1>2. Done \in Runs
  BY DEF Done, Runs, Layouts
<1> DEFINE next == [projection[p] EXCEPT !.stage = projection[p].stage + 1, !.step = "extract", !.batch = {}]
<1>3. next \in Runs
  <2>1. projection[p].stage + 1 \in Nat /\ {} \in SUBSET Ids
    BY <1>1 DEF Runs
  <2> QED BY <1>1, <2>1 DEF Runs
<1>4. projection' = [projection EXCEPT ![p] = Done] \/ projection' = [projection EXCEPT ![p] = next]
  BY <1>1 DEF NextStage
<1> HIDE DEF next
<1> QED BY <1>1, <1>2, <1>3, <1>4

LEMMA TopicsExtracted ==
    ASSUME TopicsInv, WalkInv, NEW p \in Projections, ExtractAndDelete(p)
    PROVE  TopicsInv' /\ WalkInv'
<1>1. UNCHANGED <<clock, walk, layout>>
  BY DEF ExtractAndDelete
<1>2. "document_topics" \in DOMAIN rows' /\ Topics' \subseteq Topics
  <2>1. CASE rows' = rows
    BY <2>1 DEF TopicsInv, Topics
  <2>2. CASE rows' = [rows EXCEPT ![Table(p)] = {}]
    BY <2>2 DEF TopicsInv, Topics
  <2> QED BY <2>1, <2>2 DEF ExtractAndDelete
<1>3. projection' \in [Projections -> Runs]
  <2>1. CASE NextStage(p)
    BY <2>1, NextRun
  <2>2. ASSUME NEW b \in BatchesFrom(Table(p), projection[p].layout),
               projection' = [projection EXCEPT ![p].step = "save", ![p].batch = b]
        PROVE  projection' \in [Projections -> Runs]
    <3>1. projection \in [Projections -> Runs] /\ projection[p] \in Runs
      BY DEF TopicsInv
    <3>2. projection[p].layout \in Layouts
      BY <3>1 DEF Runs
    <3>3. b \in SUBSET Ids
      BY <2>2, <3>2, BatchIds
    <3> DEFINE new == [projection[p] EXCEPT !.step = "save", !.batch = b]
    <3>4. new \in Runs
      BY <3>1, <3>3 DEF Runs
    <3>5. projection' = [projection EXCEPT ![p] = new]
      BY <2>2, <3>1
    <3> HIDE DEF new
    <3> QED BY <3>1, <3>4, <3>5
  <2> QED BY <2>1, <2>2 DEF ExtractAndDelete
<1> QED BY <1>1, <1>2, <1>3, FewerTopics DEF TopicsInv

LEMMA TopicsSaved ==
    ASSUME TopicsInv, WalkInv, NEW p \in Projections, SaveRows(p)
    PROVE  TopicsInv' /\ WalkInv'
<1> DEFINE b == projection[p].batch
           new == {[id |-> i, by |-> p, at |-> clock] : i \in b}
<1>1. projection' \in [Projections -> Runs] /\ UNCHANGED <<layout, walk>>
  BY NextRun DEF SaveRows
<1>2. CASE UNCHANGED <<rows, clock>>
  BY <1>1, <1>2, FewerTopics DEF TopicsInv, Topics
<1>3. CASE Table(p) # "document_topics" /\ ~UNCHANGED <<rows, clock>>
  <2>1. "document_topics" \in DOMAIN rows' /\ Topics' = Topics /\ clock' = clock
    BY <1>3 DEF SaveRows, TopicsInv, Topics
  <2> QED BY <1>1, <2>1, FewerTopics DEF TopicsInv
<1>4. CASE Table(p) = "document_topics" /\ ~UNCHANGED <<rows, clock>>
  <2>1. /\ \A r \in Topics : r.id \notin b
        /\ rows' = [rows EXCEPT !["document_topics"] = Topics \cup RowsOf(p)]
        /\ clock' = clock + 1
    BY <1>4 DEF SaveRows, Topics
  <2>2. RowsOf(p) = new
    BY <1>4 DEF RowsOf
  <2>3. "document_topics" \in DOMAIN rows' /\ Topics' = Topics \cup new
    BY <2>1, <2>2 DEF TopicsInv, Topics
  <2>4. b \in SUBSET Ids
    BY DEF TopicsInv, Runs
  <2>5. clock \in Nat /\ clock' \in Nat /\ clock < clock'
    BY <2>1 DEF TopicsInv
  <2>6. /\ new \subseteq TopicRows
        /\ \A r \in new : r.id \in b /\ r.at = clock
        /\ \A r, s \in new : r.id = s.id => r = s
    BY <2>4, <2>5 DEF TopicRows
  <2>7. IsFiniteSet(new)
    <3>1. IsFiniteSet(b)
      BY <2>4, IdsAreFinite, FS_Subset
    <3> DEFINE f == [i \in b |-> [id |-> i, by |-> p, at |-> clock]]
    <3>2. f \in Surjection(b, new)
      BY DEF Surjection
    <3> HIDE DEF f, new, b
    <3> QED BY <3>1, <3>2, FS_Surjection
  <2> HIDE DEF new, b
  <2>8. IsFiniteSet(Topics \cup new)
    BY <2>7, FS_Union DEF TopicsInv
  <2>9. Topics' \subseteq TopicRows /\ \A r \in Topics' : r.at < clock'
    BY <2>3, <2>5, <2>6 DEF TopicsInv, TopicRows
  <2>10. \A r, s \in Topics' : r.id = s.id => r = s
    BY <2>1, <2>3, <2>6 DEF TopicsInv
  <2>11. TopicsInv'
    BY <1>1, <2>3, <2>5, <2>8, <2>9, <2>10 DEF TopicsInv
  <2>12. WalkInv'
    BY <1>1, <2>3, <2>5, <2>6, WalkStays
  <2> QED BY <2>11, <2>12
<1> QED BY <1>2, <1>3, <1>4

(* The order of the pages, of (extracted_at, id). *)
LEMMA TopicsInOrder ==
    ASSUME TopicsInv
    PROVE  Total(TopicOrder, Remaining) /\ IsFiniteSet(Remaining) /\ Remaining \subseteq TopicRows
<1>1. Remaining \in SUBSET Topics
  BY DEF Remaining, Topics
<1>2. IsFiniteSet(Remaining) /\ Remaining \subseteq TopicRows
  BY <1>1, FS_Subset DEF TopicsInv
<1>3. \A r \in Remaining : r.at \in Nat /\ r.id \in Int
  BY <1>2, IdsAreFinite DEF TopicRows
<1>4. \A r, s \in Remaining : <<r, s>> \in TopicOrder <=> Before(r, s)
  BY DEF TopicOrder
<1>5. \A r, s \in Remaining : r.id = s.id => r = s
  BY <1>1 DEF TopicsInv
<1>6. /\ \A r \in Remaining : ~Before(r, r)
      /\ \A r, s, u \in Remaining : Before(r, s) /\ Before(s, u) => Before(r, u)
      /\ \A r, s \in Remaining : r = s \/ Before(r, s) \/ Before(s, r)
  BY <1>3, <1>5 DEF Before
<1> QED BY <1>2, <1>4, <1>6 DEF Total

LEMMA TopicsFetched ==
    ASSUME TopicsInv, WalkInv, FetchPage
    PROVE  WalkInv'
<1> DEFINE ordered == InOrder(Remaining, TopicOrder)
           page == FirstFew(ordered, PageLimit)
           last == page[Len(page)]
<1>1. UNCHANGED <<rows, clock>> /\ walk.on
  BY DEF FetchPage
<1>2. PageLimit \in Nat /\ PageLimit # 0
  BY EnrichmentAssumption DEF EnrichmentAssumption
<1>3. Total(TopicOrder, Remaining) /\ IsFiniteSet(Remaining) /\ Remaining \subseteq TopicRows
  BY TopicsInOrder
<1>4. /\ page \in Seq(Remaining) /\ Ascends(page, TopicOrder)
      /\ Len(page) = IF Len(ordered) < PageLimit THEN Len(ordered) ELSE PageLimit
      /\ \A x \in Remaining :
            \/ \E i \in 1..Len(page) : page[i] = x
            \/ /\ Len(page) = PageLimit /\ PageLimit < Len(ordered)
               /\ \A i \in 1..Len(page) : <<page[i], x>> \in TopicOrder
  BY <1>2, <1>3, PageFacts
<1>5. /\ walk' = IF Len(ordered) > PageLimit
                 THEN [walk EXCEPT !.seen = walk.seen \o page, !.at = last.at, !.id = last.id]
                 ELSE [walk EXCEPT !.seen = walk.seen \o page, !.on = FALSE]
  BY DEF FetchPage
<1>6. Len(ordered) \in Nat
  <2>1. ordered \in Seq(Remaining)
    BY <1>3, InOrderFacts
  <2> QED BY <2>1
<1> HIDE DEF ordered, page
<1>7. /\ Len(page) \in Nat /\ DOMAIN page = 1..Len(page) /\ \A i \in 1..Len(page) : page[i] \in Remaining
  BY <1>4
<1>17. ASSUME NEW i \in 1..Len(page), NEW j \in 1..Len(page), i < j PROVE Before(page[i], page[j])
  <2>1. <<page[i], page[j]>> \in TopicOrder
    BY <1>4, <1>17 DEF Ascends
  <2> QED BY <2>1 DEF TopicOrder
<1>8. ToSet(page) = {page[i] : i \in 1..Len(page)} /\ ToSet(page) \subseteq Remaining
  BY <1>7 DEF ToSet
<1>9. IsInjective(page)
  <2>1. \A i \in 1..Len(page) : ~Before(page[i], page[i])
    <3> SUFFICES ASSUME NEW i \in 1..Len(page) PROVE ~Before(page[i], page[i])
      OBVIOUS
    <3>1. page[i] \in TopicRows
      BY <1>3, <1>7
    <3>2. page[i].at \in Nat /\ page[i].id \in Int
      BY <3>1, IdsAreFinite DEF TopicRows
    <3> QED BY <3>2 DEF Before
  <2>2. ASSUME NEW i \in 1..Len(page), NEW j \in 1..Len(page), page[i] = page[j] PROVE i = j
    <3>1. ~(i < j) /\ ~(j < i)
      BY <1>17, <2>1, <2>2
    <3> QED BY <3>1
  <2> QED BY <1>7, <2>2 DEF IsInjective
<1>10. walk \in [on : BOOLEAN, at : Int, id : Int, seen : Seq(TopicRows), start : SUBSET TopicRows]
  BY DEF WalkInv
<1>11. walk.seen \in Seq(TopicRows) /\ page \in Seq(TopicRows)
  BY <1>3, <1>4, <1>10
<1> DEFINE seen == walk.seen \o page
<1>12. seen \in Seq(TopicRows) /\ ToSet(seen) = ToSet(walk.seen) \cup ToSet(page)
  BY <1>11, JoinFacts
<1>13. IsInjective(seen)
  <2>1. \A r \in ToSet(walk.seen) : r \notin ToSet(page)
    BY <1>1, <1>8 DEF WalkInv, Remaining
  <2> QED BY <1>9, <1>11, <2>1, JoinInjective DEF WalkInv
<1> HIDE DEF seen
<1>14. \A r \in walk.start \cap Topics : r \in ToSet(walk.seen) \/ r \in Remaining
  BY <1>1 DEF WalkInv, Remaining, Topics
<1>15. CASE Len(ordered) > PageLimit
  <2>1. Len(page) \in 1..Len(page) /\ Len(page) = PageLimit
    BY <1>2, <1>4, <1>6, <1>7, <1>15
  <2>2. last \in Remaining /\ Before(walk, last) /\ last \in TopicRows
    BY <1>3, <1>7, <2>1 DEF Remaining
  <2>3. last.at \in Nat /\ last.id \in Int
    BY <2>2, IdsAreFinite DEF TopicRows
  <2> HIDE DEF last
  <2>4. walk' = [walk EXCEPT !.seen = seen, !.at = last.at, !.id = last.id]
    BY <1>5, <1>15 DEF seen
  <2>5. /\ walk'.on = walk.on /\ walk'.seen = seen /\ walk'.at = last.at /\ walk'.id = last.id
        /\ walk'.start = walk.start
        /\ walk' \in [on : BOOLEAN, at : Int, id : Int, seen : Seq(TopicRows), start : SUBSET TopicRows]
    <3>1. seen \in Seq(TopicRows)
      BY <1>12
    <3>2. walk = [on |-> walk.on, at |-> walk.at, id |-> walk.id, seen |-> walk.seen, start |-> walk.start]
      BY <1>10
    <3>3. walk' = [on |-> walk.on, at |-> last.at, id |-> last.id, seen |-> seen, start |-> walk.start]
      BY <2>4, <3>2
    <3>4. walk.on \in BOOLEAN /\ walk.start \in SUBSET TopicRows
      BY <1>10
    <3> QED BY <2>3, <3>1, <3>3, <3>4
  <2>6. \A r : Before(walk', r) <=> Before(last, r)
    BY <2>5 DEF Before
  <2>7. ASSUME NEW r \in ToSet(seen) PROVE ~Before(last, r)
    <3>1. CASE r \in ToSet(walk.seen)
      <4>1. ~Before(walk, r) /\ r.at \in Nat /\ r.id \in Int
        <5>1. r \in TopicRows
          BY <1>11, <3>1 DEF ToSet
        <5> QED BY <1>1, <3>1, <5>1, IdsAreFinite DEF WalkInv, TopicRows
      <4>2. walk.at \in Int /\ walk.id \in Int
        BY <1>10
      <4> QED BY <2>2, <2>3, <4>1, <4>2 DEF Before
    <3>2. CASE r \in ToSet(page)
      <4>1. PICK i \in 1..Len(page) : r = page[i]
        BY <1>8, <3>2
      <4>2. CASE i = Len(page)
        BY <2>3, <4>1, <4>2 DEF Before, last
      <4>3. CASE i < Len(page)
        <5>1. Before(r, last) /\ r \in TopicRows
          BY <1>3, <1>7, <1>17, <2>1, <4>1, <4>3 DEF last
        <5>2. r.at \in Nat /\ r.id \in Int
          BY <5>1, IdsAreFinite DEF TopicRows
        <5> QED BY <2>3, <5>1, <5>2 DEF Before
      <4>4. i \in Int /\ Len(page) \in Int /\ i <= Len(page)
        BY <2>1, <4>1
      <4> QED BY <4>2, <4>3, <4>4
    <3> QED BY <1>12, <2>7, <3>1, <3>2
  <2>8. ASSUME NEW r \in Remaining PROVE r \in ToSet(page) \/ Before(last, r)
    BY <1>4, <1>8, <2>1 DEF TopicOrder, last
  <2>9. Topics' = Topics
    BY <1>1 DEF Topics
  <2>10. \A r \in walk.start \cap Topics : r \in ToSet(seen) \/ Before(last, r)
    BY <1>12, <1>14, <2>8
  <2> QED BY <1>1, <1>13, <2>5, <2>6, <2>7, <2>9, <2>10 DEF WalkInv
<1>16. CASE ~(Len(ordered) > PageLimit)
  <2>1. walk' = [walk EXCEPT !.seen = seen, !.on = FALSE]
    BY <1>5, <1>16 DEF seen
  <2>2. /\ walk'.on = FALSE /\ walk'.seen = seen /\ walk'.start = walk.start
        /\ walk' \in [on : BOOLEAN, at : Int, id : Int, seen : Seq(TopicRows), start : SUBSET TopicRows]
    BY <1>10, <1>12, <2>1
  <2>3. Remaining \subseteq ToSet(page)
    BY <1>2, <1>4, <1>6, <1>8, <1>16
  <2>4. Topics' = Topics
    BY <1>1 DEF Topics
  <2> QED BY <1>1, <1>12, <1>13, <1>14, <2>2, <2>3, <2>4 DEF WalkInv
<1> QED BY <1>15, <1>16

LEMMA TopicsInductive ==
    ASSUME TopicsInv, WalkInv, [EnrichmentNext]_enrichmentVars
    PROVE  TopicsInv' /\ WalkInv'
<1>1. ASSUME NEW p \in Projections, StartProjection(p) PROVE TopicsInv' /\ WalkInv'
  <2> DEFINE new == [stage |-> 1, step |-> "extract", layout |-> layout.semantic, batch |-> {}]
  <2>1. projection' = [projection EXCEPT ![p] = new] /\ UNCHANGED <<rows, clock, layout, walk>>
    BY <1>1 DEF StartProjection
  <2>2. new \in Runs
    BY DEF TopicsInv, Runs
  <2> HIDE DEF new
  <2> QED BY <2>1, <2>2, FewerTopics DEF TopicsInv, Topics
<1>2. CASE BackfillRaw \/ BackfillSemantic \/ BackfillFails \/ UNCHANGED enrichmentVars
  <2>1. UNCHANGED <<rows, clock, projection, walk>> /\ layout' \in [raw : Layouts, semantic : Layouts]
    BY <1>2 DEF BackfillRaw, BackfillSemantic, BackfillFails, enrichmentVars, TopicsInv, Layouts
  <2> QED BY <2>1, FewerTopics DEF TopicsInv, Topics
<1>3. CASE BackfillDelete
  <2>1. UNCHANGED <<clock, projection, layout, walk>> /\ \E t : rows' = [rows EXCEPT ![t] = {}]
    BY <1>3 DEF BackfillDelete
  <2>2. "document_topics" \in DOMAIN rows' /\ Topics' \subseteq Topics
    BY <2>1 DEF TopicsInv, Topics
  <2> QED BY <2>1, <2>2, FewerTopics DEF TopicsInv
<1>4. CASE StartWalk
  <2>1. /\ UNCHANGED <<rows, clock, layout, projection>>
        /\ walk' = [on |-> TRUE, at |-> -1, id |-> -1, seen |-> <<>>, start |-> Topics]
    BY <1>4 DEF StartWalk, NoWalk, Topics
  <2>2. TopicsInv'
    BY <2>1 DEF TopicsInv, Topics
  <2>3. \A r \in Topics : Before(walk', r)
    BY <2>1 DEF TopicsInv, TopicRows, Before
  <2>4. IsInjective(<<>>) /\ ToSet(<<>>) = {}
    BY DEF IsInjective, ToSet
  <2>5. Topics' = Topics /\ Topics \subseteq TopicRows /\ \A r \in Topics : r.at < clock
    BY <2>1 DEF TopicsInv, Topics
  <2>6. /\ walk'.on = TRUE /\ walk'.seen = <<>> /\ walk'.start = Topics
        /\ walk' \in [on : BOOLEAN, at : Int, id : Int, seen : Seq(TopicRows), start : SUBSET TopicRows]
    BY <2>1, <2>5
  <2>7. WalkInv'
    BY <2>1, <2>3, <2>4, <2>5, <2>6 DEF WalkInv
  <2> QED BY <2>2, <2>7
<1>5. CASE FetchPage
  <2>1. TopicsInv'
    BY <1>5 DEF FetchPage, TopicsInv, Topics
  <2> QED BY <1>5, <2>1, TopicsFetched
<1>6. CASE EnrichmentRestart
  <2>1. /\ UNCHANGED <<rows, clock, layout, walk>>
        /\ projection' = [p \in Projections |-> IF projection[p] = Waiting THEN Waiting ELSE Done]
    BY <1>6 DEF EnrichmentRestart
  <2>2. Waiting \in Runs /\ Done \in Runs
    BY DEF Waiting, Done, Runs, Layouts
  <2> QED BY <2>1, <2>2, FewerTopics DEF TopicsInv, Topics
<1> QED
  BY <1>1, <1>2, <1>3, <1>4, <1>5, <1>6, TopicsExtracted, TopicsSaved DEF EnrichmentNext

(* Whoever follows the pages of a version's topics to the end has seen all   *)
(* that were there when the walk began and still are, and none twice,       *)
(* whatever projections and kw-rebackfill rewrote between two pages.       *)
THEOREM TopicWalksAreComplete == EnrichmentSpec => []WalkIsComplete
<1>1. EnrichmentInit => TopicsInv /\ WalkInv
  <2> SUFFICES ASSUME EnrichmentInit PROVE TopicsInv /\ WalkInv
    OBVIOUS
  <2>1. "document_topics" \in DOMAIN rows /\ Topics = {}
    BY DEF EnrichmentInit, Tables, Topics
  <2>2. IsFiniteSet({}) /\ Waiting \in Runs
    BY FS_EmptySet DEF Waiting, Runs, Layouts
  <2>3. TopicsInv
    BY <2>1, <2>2 DEF EnrichmentInit, TopicsInv, Layouts
  <2>4. IsInjective(<<>>) /\ ToSet(<<>>) = {}
    BY DEF IsInjective, ToSet
  <2>5. WalkInv
    BY <2>1, <2>4 DEF EnrichmentInit, WalkInv, NoWalk
  <2> QED BY <2>3, <2>5
<1>2. TopicsInv /\ WalkInv => WalkIsComplete
  BY DEF WalkInv, WalkIsComplete, Topics
<1> QED BY <1>1, <1>2, TopicsInductive, PTL DEF EnrichmentSpec

-----------------------------------------------------------------------------
(* The pages of documents.                                                 *)

Walkers ==
    [route : {"none", "documents", "catalog"},
     scope : (UNION {GrantedScopes(mode) : mode \in AuthModes}) \cup {Refused},
     filter : StatusFilters \cup {{}}, cursor : 0..DocumentCount,
     page : Seq(Shelved), matches : Seq(Shelved),
     stage : {"idle", "ask", "filter", "tail", "done"}]

(* What the walk has fetched and not yet answered: everything of the        *)
(* listing between its cursor and the last document fetched.               *)
FetchedInv ==
    /\ walker.stage \in {"filter", "tail"} =>
          /\ Ascends(walker.matches, Upward) /\ ToSet(walker.matches) \subseteq ever
          /\ \A d \in ToSet(walker.matches) : d > walker.cursor
    /\ walker.stage = "filter" =>
          /\ walker.route = "documents" /\ walker.filter # {}
          /\ Ascends(walker.page, Upward)
          /\ \A d \in steady : d > walker.cursor /\ (walker.page # <<>> => d <= Last(walker.page)) =>
                d \in ToSet(walker.matches)
          /\ walker.page # <<>> =>
                /\ Last(walker.page) > walker.cursor
                /\ \A d \in ToSet(walker.matches) : d <= Last(walker.page)
    /\ walker.stage = "tail" =>
          /\ walker.matches # <<>>
          /\ \A d \in steady : d > walker.cursor /\ d <= Last(walker.matches) =>
                d \in ToSet(walker.matches)

(* What was answered lies before the cursor, and so does nothing that was   *)
(* not answered and has been there all the time.                           *)
ListingInv ==
    /\ walker \in Walkers
    /\ answered \in Seq(Shelved) /\ Ascends(answered, Upward)
    /\ ToSet(answered) \subseteq ever
    /\ steady \subseteq ever /\ ever \subseteq Shelved
    /\ \A d \in steady : Belongs(walker, d)
    /\ walker # NoWalker => \A d \in Shelved : Belongs(walker, d) => d \in ever
    /\ walker.stage = "idle" => steady = {}
    /\ walker.stage \in {"ask", "filter", "tail"} =>
          /\ \A d \in ToSet(answered) : d <= walker.cursor
          /\ \A d \in steady : d <= walker.cursor => d \in ToSet(answered)
    /\ walker.stage = "done" => steady \subseteq ToSet(answered)
    /\ FetchedInv

LEMMA ShelvedFacts ==
    /\ DocumentCount \in Nat /\ PageSize \in Nat /\ PageSize > 0 /\ IsFiniteSet(Shelved)
    /\ \A d \in Shelved : d \in Nat /\ d > 0
    /\ \A a, b \in Shelved : <<a, b>> \in Upward <=> a < b
    /\ \A S \in SUBSET Shelved : Total(Upward, S) /\ IsFiniteSet(S)
<1>1. DocumentCount \in Nat /\ PageSize \in Nat /\ PageSize > 0 /\ \A d \in Shelved : d \in Nat /\ d > 0
  BY ListingAssumption DEF ListingAssumption, Shelved
<1>2. IsFiniteSet(Shelved)
  BY <1>1, FS_Interval DEF Shelved
<1>3. \A a, b \in Shelved : <<a, b>> \in Upward <=> a < b
  BY DEF Upward, Ascending
<1>4. ASSUME NEW S \in SUBSET Shelved PROVE Total(Upward, S) /\ IsFiniteSet(S)
  <2>1. ASSUME NEW a \in S, NEW b \in S
        PROVE  /\ <<a, b>> \in Upward <=> a < b
               /\ a \in Nat /\ b \in Nat
    BY <1>1, <1>3
  <2>2. IsFiniteSet(S)
    BY <1>2, FS_Subset
  <2>3. ASSUME NEW a \in S PROVE <<a, a>> \notin Upward
    BY <2>1
  <2>4. ASSUME NEW a \in S, NEW b \in S, NEW c \in S, <<a, b>> \in Upward, <<b, c>> \in Upward
        PROVE  <<a, c>> \in Upward
    <3>1. a < b /\ b < c /\ a \in Nat /\ b \in Nat /\ c \in Nat
      BY <2>1, <2>4
    <3>2. a < c
      BY <3>1
    <3> QED BY <2>1, <3>2
  <2>5. ASSUME NEW a \in S, NEW b \in S PROVE a = b \/ <<a, b>> \in Upward \/ <<b, a>> \in Upward
    <3>1. a \in Nat /\ b \in Nat
      BY <2>1
    <3>2. a = b \/ a < b \/ b < a
      BY <3>1
    <3> QED BY <2>1, <3>2
  <2> QED BY <2>2, <2>3, <2>4, <2>5 DEF Total
<1> QED BY <1>1, <1>2, <1>3, <1>4

(* The last document of a page in order is behind all the others. *)
LEMMA LastIsHighest ==
    ASSUME NEW s \in Seq(Shelved), Ascends(s, Upward), s # <<>>
    PROVE  Last(s) \in ToSet(s) /\ Last(s) \in Shelved /\ \A d \in ToSet(s) : d <= Last(s)
<1>1. Len(s) \in 1..Len(s) /\ DOMAIN s = 1..Len(s) /\ \A i \in 1..Len(s) : s[i] \in Shelved
  OBVIOUS
<1>2. Last(s) = s[Len(s)]
  BY DEF Last
<1>3. ASSUME NEW d \in ToSet(s) PROVE d <= Last(s)
  <2>1. PICK i \in 1..Len(s) : d = s[i]
    BY <1>1, <1>3 DEF ToSet
  <2>2. s[i] \in Shelved /\ s[Len(s)] \in Shelved /\ s[i] \in Int /\ s[Len(s)] \in Int
    <3>1. s[i] \in Shelved /\ s[Len(s)] \in Shelved
      BY <1>1
    <3> QED BY <3>1, ShelvedFacts
  <2>3. CASE i < Len(s)
    <3>1. <<s[i], s[Len(s)]>> \in Upward
      BY <1>1, <2>3 DEF Ascends
    <3> QED BY <1>2, <2>1, <2>2, <3>1, ShelvedFacts
  <2>4. CASE i = Len(s)
    BY <1>2, <2>1, <2>2, <2>4
  <2>5. i \in Int /\ i <= Len(s) /\ Len(s) \in Int
    BY <1>1
  <2> QED BY <2>3, <2>4, <2>5
<1> QED BY <1>1, <1>2, <1>3 DEF ToSet

(* The first documents behind a cursor: as many as asked for, or all.      *)
LEMMA FirstOfFacts ==
    ASSUME NEW docs \in SUBSET Shelved, NEW cursor \in Nat
    PROVE  LET page == FirstOf(docs, cursor, PageSize)
           IN  /\ page \in Seq(Shelved) /\ Ascends(page, Upward)
               /\ \A d \in ToSet(page) : d \in docs /\ d > cursor
               /\ \A d \in docs : d > cursor =>
                     d \in ToSet(page) \/ (Len(page) = PageSize /\ page # <<>> /\ d > Last(page))
<1> DEFINE S == {d \in docs : d > cursor}
           s == InOrder(S, Upward)
           page == FirstFew(s, PageSize)
<1>1. S \in SUBSET Shelved /\ Total(Upward, S) /\ IsFiniteSet(S)
  BY ShelvedFacts
<1>2. /\ page \in Seq(S) /\ Ascends(page, Upward)
      /\ \A x \in S : \/ \E i \in 1..Len(page) : page[i] = x
                      \/ /\ Len(page) = PageSize /\ PageSize < Len(s)
                         /\ \A i \in 1..Len(page) : <<page[i], x>> \in Upward
  BY <1>1, PageFacts, ShelvedFacts
<1>3. page = FirstOf(docs, cursor, PageSize)
  BY DEF FirstOf
<1> HIDE DEF s, page
<1>4. /\ page \in Seq(Shelved) /\ DOMAIN page = 1..Len(page) /\ Len(page) \in Nat
      /\ \A i \in 1..Len(page) : page[i] \in S
  BY <1>1, <1>2
<1>5. ASSUME NEW d \in ToSet(page) PROVE d \in docs /\ d > cursor
  BY <1>4, <1>5 DEF ToSet
<1>6. ASSUME NEW d \in docs, d > cursor
      PROVE  d \in ToSet(page) \/ (Len(page) = PageSize /\ page # <<>> /\ d > Last(page))
  <2>1. CASE \E i \in 1..Len(page) : page[i] = d
    BY <1>4, <2>1 DEF ToSet
  <2>2. CASE Len(page) = PageSize /\ \A i \in 1..Len(page) : <<page[i], d>> \in Upward
    <3>1. Len(page) \in 1..Len(page) /\ page # <<>>
      BY <1>4, <2>2, ShelvedFacts
    <3>2. <<page[Len(page)], d>> \in Upward /\ page[Len(page)] \in Shelved /\ d \in Shelved
      BY <1>1, <1>4, <2>2, <3>1
    <3> DEFINE last == page[Len(page)]
    <3>3. <<last, d>> \in Upward /\ last \in Shelved /\ d \in Shelved
      BY <3>2
    <3>4. Last(page) = last
      BY DEF Last
    <3> HIDE DEF last
    <3>5. last < d /\ last \in Nat /\ d \in Nat
      BY <3>3, ShelvedFacts
    <3>6. d > Last(page)
      BY <3>4, <3>5
    <3> QED BY <2>2, <3>1, <3>6
  <2> QED BY <1>2, <1>6, <2>1, <2>2
<1> QED BY <1>2, <1>3, <1>4, <1>5, <1>6

(* The documents of a page that match: in order, and all of them.          *)
LEMMA MatchingFacts ==
    ASSUME NEW docs \in Seq(Shelved), NEW filter
    PROVE  /\ Matching(docs, filter) \in Seq(Shelved) /\ Ascends(Matching(docs, filter), Upward)
           /\ ToSet(Matching(docs, filter)) = {d \in ToSet(docs) : Matches(d, filter)}
<1> DEFINE S == {d \in ToSet(docs) : Matches(d, filter)}
           s == Matching(docs, filter)
<1>1. S \in SUBSET Shelved
  BY DEF ToSet
<1>2. Total(Upward, S) /\ IsFiniteSet(S)
  BY <1>1, ShelvedFacts
<1>3. s = InOrder(S, Upward)
  BY DEF Matching
<1> HIDE DEF S, s
<1>4. /\ s \in Seq(S) /\ Ascends(s, Upward) /\ \A x \in S : \E i \in 1..Len(s) : s[i] = x
  BY <1>2, <1>3, InOrderFacts
<1>5. s \in Seq(Shelved) /\ DOMAIN s = 1..Len(s) /\ \A i \in 1..Len(s) : s[i] \in S
  BY <1>1, <1>4
<1>6. ToSet(s) = S
  BY <1>4, <1>5 DEF ToSet
<1> QED BY <1>4, <1>5, <1>6 DEF S, s

(* What belongs to a listing depends on the caller, the route and the       *)
(* filter, not on how far the walk is.                                     *)
LEMMA SameListing ==
    ASSUME UNCHANGED shelf, walker'.scope = walker.scope, walker'.route = walker.route,
           walker'.filter = walker.filter
    PROVE  \A d : Belongs(walker, d)' <=> Belongs(walker, d)
  BY DEF Belongs, Listed, Matches, HasCatalogRow, CatalogVersions, CatalogVisibility

(* A page is answered: it has what was there all the time up to its end.    *)
LEMMA AnswerStep ==
    ASSUME ListingInv, walker.stage \in {"ask", "filter", "tail"},
           NEW docs \in Seq(Shelved), Ascends(docs, Upward), ToSet(docs) \subseteq ever,
           \A d \in ToSet(docs) : d > walker.cursor,
           NEW next \in 0..DocumentCount,
           next = 0 => \A d \in steady : d > walker.cursor => d \in ToSet(docs),
           next # 0 => /\ next > walker.cursor /\ \A d \in ToSet(docs) : d <= next
                       /\ \A d \in steady : d > walker.cursor /\ d <= next => d \in ToSet(docs),
           Answer(docs, next), UNCHANGED <<shelf, changes, steady, ever>>
    PROVE  ListingInv'
<1> DEFINE stage == IF next = 0 THEN "done" ELSE "ask"
<1>1. /\ answered' = answered \o docs
      /\ walker' = [walker EXCEPT !.cursor = next, !.page = <<>>, !.matches = <<>>, !.stage = stage]
  BY DEF Answer
<1>2. walker \in Walkers
  BY DEF ListingInv
<1>3. /\ walker'.cursor = next /\ walker'.stage = stage /\ walker'.scope = walker.scope
      /\ walker'.route = walker.route /\ walker'.filter = walker.filter
  BY <1>1, <1>2 DEF Walkers
<1>4. walker' \in Walkers
  <2>1. <<>> \in Seq(Shelved) /\ stage \in {"idle", "ask", "filter", "tail", "done"}
    OBVIOUS
  <2> HIDE DEF stage
  <2> QED BY <1>1, <1>2, <2>1 DEF Walkers
<1>5. /\ answered' \in Seq(Shelved) /\ ToSet(answered') = ToSet(answered) \cup ToSet(docs)
  BY <1>1, JoinFacts DEF ListingInv
<1>6. ToSet(answered) \subseteq Shelved /\ ToSet(docs) \subseteq Shelved /\ steady \subseteq Shelved
      /\ walker.cursor \in Nat /\ next \in Nat
  BY <1>2, ShelvedFacts DEF ToSet, ListingInv, Walkers
<1>7. Ascends(answered', Upward)
  <2>1. ASSUME NEW x \in ToSet(answered), NEW y \in ToSet(docs) PROVE <<x, y>> \in Upward
    <3>1. x <= walker.cursor /\ y > walker.cursor /\ x \in Shelved /\ y \in Shelved
      BY <1>6, <2>1 DEF ListingInv
    <3>2. x < y
      BY <1>6, <3>1, ShelvedFacts
    <3> QED BY <3>1, <3>2, ShelvedFacts
  <2> QED BY <1>1, <2>1, JoinAscends DEF ListingInv
<1>8. /\ \A d \in steady : Belongs(walker, d)'
      /\ \A d \in Shelved : Belongs(walker, d)' => d \in ever
  <2>1. walker # NoWalker
    BY DEF NoWalker
  <2> QED BY <1>3, <2>1, SameListing DEF ListingInv
<1>9. CASE next = 0
  <2>1. stage = "done"
    BY <1>9
  <2>2. ASSUME NEW d \in steady PROVE d \in ToSet(answered')
    <3>1. d \in Nat /\ walker.cursor \in Nat
      BY <1>6, ShelvedFacts
    <3>2. CASE d <= walker.cursor
      BY <1>5, <3>2 DEF ListingInv
    <3>3. CASE d > walker.cursor
      BY <1>5, <1>9, <3>3
    <3> QED BY <3>1, <3>2, <3>3
  <2> HIDE DEF stage
  <2> QED BY <1>3, <1>4, <1>5, <1>7, <1>8, <2>1, <2>2 DEF ListingInv, FetchedInv
<1>10. CASE next # 0
  <2>1. stage = "ask"
    BY <1>10
  <2>0. next > walker.cursor /\ next \in Nat /\ walker.cursor \in Nat
    BY <1>6, <1>10
  <2>2. ASSUME NEW d \in ToSet(answered') PROVE d <= next
    <3>1. d \in Shelved /\ (d \in ToSet(answered) \/ d \in ToSet(docs))
      BY <1>5, <1>6, <2>2
    <3>2. d \in Nat
      BY <3>1, ShelvedFacts
    <3>3. CASE d \in ToSet(docs)
      BY <1>10, <3>3
    <3>4. CASE d \in ToSet(answered)
      <4>1. d <= walker.cursor
        BY <3>4 DEF ListingInv
      <4> QED BY <2>0, <3>2, <4>1
    <3> QED BY <3>1, <3>3, <3>4
  <2>3. ASSUME NEW d \in steady, d <= next PROVE d \in ToSet(answered')
    <3>1. d \in Nat
      BY <1>6, ShelvedFacts
    <3>2. CASE d <= walker.cursor
      BY <1>5, <3>2 DEF ListingInv
    <3>3. CASE d > walker.cursor
      BY <1>5, <1>10, <2>3, <3>3
    <3> QED BY <2>0, <3>1, <3>2, <3>3
  <2> HIDE DEF stage
  <2> QED BY <1>3, <1>4, <1>5, <1>7, <1>8, <2>1, <2>2, <2>3 DEF ListingInv, FetchedInv
<1> QED BY <1>9, <1>10

(* The first few of a page in order are those not behind the last of them.  *)
LEMMA FewFacts ==
    ASSUME NEW s \in Seq(Shelved), Ascends(s, Upward)
    PROVE  LET few == FirstFew(s, PageSize)
           IN  /\ few \in Seq(Shelved) /\ Ascends(few, Upward) /\ ToSet(few) \subseteq ToSet(s)
               /\ Len(few) < PageSize => few = s
               /\ Len(few) < PageSize <=> Len(s) < PageSize
               /\ Len(few) >= PageSize =>
                     few # <<>> /\ \A d \in ToSet(s) : d <= Last(few) => d \in ToSet(few)
<1> DEFINE k == IF Len(s) < PageSize THEN Len(s) ELSE PageSize
           few == FirstFew(s, PageSize)
<1>1. Len(s) \in Nat /\ DOMAIN s = 1..Len(s) /\ \A i \in 1..Len(s) : s[i] \in Shelved
  OBVIOUS
<1>2. k \in Nat /\ k <= Len(s) /\ (k < PageSize => k = Len(s)) /\ (k >= PageSize => k > 0)
      /\ (k < PageSize <=> Len(s) < PageSize)
  <2>1. PageSize \in Nat /\ PageSize > 0
    BY ShelvedFacts
  <2>2. Len(s) \in Nat
    BY <1>1
  <2> QED BY <2>1, <2>2
<1>3. few = SubSeq(s, 1, k)
  BY DEF FirstFew
<1> HIDE DEF k, few
<1>4. /\ few \in Seq(Shelved) /\ Len(few) = k /\ DOMAIN few = 1..k
      /\ \A i \in 1..k : i \in 1..Len(s) /\ few[i] = s[i]
  <2>1. Len(s) \in Nat
    BY <1>1
  <2>2. k \in Nat /\ k <= Len(s)
    BY <1>2
  <2>3. \A i \in 1..k : i \in 1..Len(s)
    BY <2>1, <2>2
  <2>4. k \in Int /\ 1 \in Int /\ \A i \in 1..k : s[i] \in Shelved
    BY <1>1, <2>2, <2>3
  <2>5. few \in Seq(Shelved) /\ Len(few) = k /\ \A i \in 1..k : few[i] = s[i]
    <3>1. /\ SubSeq(s, 1, k) \in Seq(Shelved)
          /\ Len(SubSeq(s, 1, k)) = IF 1 <= k THEN k - 1 + 1 ELSE 0
          /\ \A i \in 1..(k - 1 + 1) : SubSeq(s, 1, k)[i] = s[1 + i - 1]
      BY <2>4, SubSeqProperties
    <3> QED BY <1>3, <2>2, <3>1
  <2>6. DOMAIN few = 1..k
    BY <2>5
  <2> QED BY <2>3, <2>5, <2>6
<1>5. ASSUME NEW i \in 1..Len(s), NEW j \in 1..Len(s), i < j PROVE <<s[i], s[j]>> \in Upward
  BY <1>5 DEF Ascends
<1>6. Ascends(few, Upward)
  BY <1>4, <1>5 DEF Ascends
<1>7. ToSet(few) \subseteq ToSet(s)
  BY <1>1, <1>4 DEF ToSet
<1>8. ASSUME k < PageSize PROVE few = s
  <2>1. k = Len(s)
    BY <1>2, <1>8
  <2>2. few = [i \in 1..k |-> few[i]] /\ s = [i \in 1..Len(s) |-> s[i]]
    BY <1>1, <1>4
  <2> QED BY <1>4, <2>1, <2>2
<1>9. ASSUME k >= PageSize, NEW d \in ToSet(s), d <= Last(few) PROVE d \in ToSet(few)
  <2>1. PICK i \in 1..Len(s) : s[i] = d
    BY <1>1 DEF ToSet
  <2>2. k \in 1..k /\ Last(few) = s[k] /\ k \in 1..Len(s)
    BY <1>2, <1>4, <1>9 DEF Last
  <2>3. d \in Nat /\ s[k] \in Nat /\ d \in Shelved /\ s[k] \in Shelved
    BY <1>1, <2>1, <2>2, ShelvedFacts
  <2>4. CASE i <= k
    <3>1. i \in 1..k
      <4>1. i \in Int /\ 1 <= i /\ k \in Int
        BY <1>2
      <4> QED BY <2>4, <4>1
    <3>2. few[i] = d
      BY <1>4, <2>1, <3>1
    <3> QED BY <1>4, <3>1, <3>2 DEF ToSet
  <2>5. CASE i > k
    <3>1. <<s[k], d>> \in Upward
      BY <1>5, <2>1, <2>2, <2>5
    <3>2. s[k] < d
      BY <2>3, <3>1, ShelvedFacts
    <3> QED BY <1>9, <2>2, <2>3, <3>2
  <2>6. i \in Int /\ k \in Int
    BY <1>2
  <2> QED BY <2>4, <2>5, <2>6
<1>10. k >= PageSize => few # <<>>
  BY <1>2, <1>4
<1>11. Len(few) < PageSize <=> k < PageSize
  BY <1>4
<1>12. Len(few) >= PageSize <=> k >= PageSize
  BY <1>4
<1> QED BY <1>2, <1>4, <1>6, <1>7, <1>8, <1>9, <1>10, <1>11, <1>12 DEF few

(* What belongs to the listing after a step that leaves the documents alone. *)
LEMMA ListingOf ==
    ASSUME UNCHANGED shelf, NEW w, walker' = w
    PROVE  \A d : Belongs(walker, d)' <=> Belongs(w, d)
  BY DEF Belongs, Listed, Matches, HasCatalogRow, CatalogVersions, CatalogVisibility

LEMMA NoWalkerFacts == NoWalker \in Walkers /\ NoWalker.cursor = 0
<1>1. <<>> \in Seq(Shelved) /\ 0 \in 0..DocumentCount
  BY ShelvedFacts
<1>2. Refused \in (UNION {GrantedScopes(mode) : mode \in AuthModes}) \cup {Refused}
  OBVIOUS
<1> QED BY <1>1, <1>2 DEF Walkers, NoWalker

LEMMA ListingStarts == ListingInit => ListingInv
<1> SUFFICES ASSUME ListingInit PROVE ListingInv
  OBVIOUS
<1>1. walker = NoWalker /\ answered = <<>> /\ steady = {} /\ ever = {}
  BY DEF ListingInit
<1>2. <<>> \in Seq(Shelved) /\ ToSet(<<>>) = {} /\ Ascends(<<>>, Upward)
  BY DEF ToSet, Ascends
<1>3. walker \in Walkers
  BY <1>1, NoWalkerFacts
<1>4. walker.stage = "idle"
  BY <1>1 DEF NoWalker
<1> QED BY <1>1, <1>2, <1>3, <1>4 DEF ListingInv, FetchedInv

LEMMA BeginWalkKeeps == ListingInv /\ BeginWalk => ListingInv'
<1> SUFFICES ASSUME ListingInv, BeginWalk PROVE ListingInv'
  OBVIOUS
<1>1. PICK scope \in UNION {GrantedScopes(mode) : mode \in AuthModes}, filter \in StatusFilters,
           route \in {"documents", "catalog"} :
         LET w == [NoWalker EXCEPT !.route = route, !.scope = scope, !.filter = filter, !.stage = "ask"]
         IN  /\ walker' = w
             /\ steady' = {d \in Shelved : Belongs(w, d)}
             /\ ever' = {d \in Shelved : Belongs(w, d)}
  BY DEF BeginWalk
<1>2. PICK w : w = [NoWalker EXCEPT !.route = route, !.scope = scope, !.filter = filter, !.stage = "ask"]
  OBVIOUS
<1>3. /\ walker' = w /\ UNCHANGED shelf /\ answered' = <<>>
      /\ steady' = {d \in Shelved : Belongs(w, d)} /\ ever' = {d \in Shelved : Belongs(w, d)}
  BY <1>1, <1>2 DEF BeginWalk
<1>4. w \in Walkers /\ w.stage = "ask" /\ w.cursor = 0
  BY <1>2, NoWalkerFacts DEF Walkers
<1>5. <<>> \in Seq(Shelved) /\ ToSet(<<>>) = {} /\ Ascends(<<>>, Upward)
  BY DEF ToSet, Ascends
<1>6. \A d : Belongs(walker, d)' <=> Belongs(w, d)
  BY <1>3, ListingOf
<1>7. \A d \in steady' : d > walker'.cursor
  BY <1>3, <1>4, ShelvedFacts
<1>8. \A d \in steady' : ~(d <= walker'.cursor)
  BY <1>3, <1>4, ShelvedFacts
<1>9. /\ answered' \in Seq(Shelved) /\ Ascends(answered', Upward) /\ ToSet(answered') = {}
  BY <1>3, <1>5
<1>10. walker'.stage = "ask" /\ walker' \in Walkers
  BY <1>3, <1>4
<1>11. \A d \in steady' : Belongs(walker, d)'
  BY <1>3, <1>6
<1>12. \A d \in Shelved : Belongs(walker, d)' => d \in ever'
  BY <1>3, <1>6
<1>13. steady' \subseteq ever' /\ ever' \subseteq Shelved
  BY <1>3
<1> QED BY <1>8, <1>9, <1>10, <1>11, <1>12, <1>13 DEF ListingInv, FetchedInv

(* A page cut from what belongs to the listing behind the cursor.          *)
LEMMA PageOfListing ==
    ASSUME ListingInv, walker.stage = "ask"
    PROVE  LET docs == FirstOf({d \in Shelved : Belongs(walker, d)}, walker.cursor, PageSize)
           IN  /\ docs \in Seq(Shelved) /\ Ascends(docs, Upward) /\ ToSet(docs) \subseteq ever
               /\ \A d \in ToSet(docs) : d > walker.cursor
               /\ Len(docs) < PageSize => \A d \in steady : d > walker.cursor => d \in ToSet(docs)
               /\ ~(Len(docs) < PageSize) =>
                     /\ docs # <<>> /\ Last(docs) \in 1..DocumentCount
                     /\ Last(docs) > walker.cursor /\ \A d \in ToSet(docs) : d <= Last(docs)
                     /\ \A d \in steady : d > walker.cursor /\ d <= Last(docs) => d \in ToSet(docs)
<1> DEFINE S == {d \in Shelved : Belongs(walker, d)}
           docs == FirstOf(S, walker.cursor, PageSize)
<1>1. S \in SUBSET Shelved /\ walker.cursor \in Nat
  BY ShelvedFacts DEF ListingInv, Walkers
<1>2. S \subseteq ever
  BY DEF ListingInv, NoWalker
<1>3. steady \subseteq S
  BY DEF ListingInv
<1>4. /\ docs \in Seq(Shelved) /\ Ascends(docs, Upward)
      /\ \A d \in ToSet(docs) : d \in S /\ d > walker.cursor
      /\ \A d \in S : d > walker.cursor =>
            d \in ToSet(docs) \/ (Len(docs) = PageSize /\ docs # <<>> /\ d > Last(docs))
  BY <1>1, FirstOfFacts
<1>5. docs = FirstOf({d \in Shelved : Belongs(walker, d)}, walker.cursor, PageSize)
  OBVIOUS
<1> HIDE DEF S, docs
<1>6. ToSet(docs) \subseteq ever
  BY <1>2, <1>4
<1>7. ASSUME Len(docs) < PageSize, NEW d \in steady, d > walker.cursor PROVE d \in ToSet(docs)
  <2>1. Len(docs) # PageSize
    BY <1>4, <1>7, ShelvedFacts
  <2> QED BY <1>3, <1>4, <1>7, <2>1
<1>8. ASSUME ~(Len(docs) < PageSize)
      PROVE  /\ docs # <<>> /\ Last(docs) \in 1..DocumentCount
             /\ Last(docs) > walker.cursor /\ \A d \in ToSet(docs) : d <= Last(docs)
             /\ \A d \in steady : d > walker.cursor /\ d <= Last(docs) => d \in ToSet(docs)
  <2>1. docs # <<>>
    BY <1>4, <1>8, ShelvedFacts
  <2>2. Last(docs) \in ToSet(docs) /\ Last(docs) \in Shelved /\ \A d \in ToSet(docs) : d <= Last(docs)
    BY <1>4, <2>1, LastIsHighest
  <2>3. ASSUME NEW d \in steady, d > walker.cursor, d <= Last(docs) PROVE d \in ToSet(docs)
    <3>1. d \in S
      BY <1>3
    <3>2. d \in Nat /\ Last(docs) \in Nat
      BY <2>2, <3>1, ShelvedFacts DEF S
    <3>3. ~(d > Last(docs))
      BY <2>3, <3>2
    <3> QED BY <1>4, <2>3, <3>1, <3>3
  <2> QED BY <1>4, <2>1, <2>2, <2>3 DEF Shelved
<1> QED BY <1>4, <1>5, <1>6, <1>7, <1>8

LEMMA PlainPageKeeps == ListingInv /\ PlainPage => ListingInv'
<1> SUFFICES ASSUME ListingInv, PlainPage PROVE ListingInv'
  OBVIOUS
<1>1. PICK docs : docs = FirstOf({d \in Shelved : Belongs(walker, d)}, walker.cursor, PageSize)
  OBVIOUS
<1>2. PICK next : next = IF Len(docs) < PageSize THEN 0 ELSE Last(docs)
  OBVIOUS
<1>3. walker.stage = "ask" /\ Answer(docs, next) /\ UNCHANGED <<shelf, changes, steady, ever>>
  BY <1>1, <1>2 DEF PlainPage
<1>4. /\ docs \in Seq(Shelved) /\ Ascends(docs, Upward) /\ ToSet(docs) \subseteq ever
      /\ \A d \in ToSet(docs) : d > walker.cursor
      /\ Len(docs) < PageSize => \A d \in steady : d > walker.cursor => d \in ToSet(docs)
      /\ ~(Len(docs) < PageSize) =>
            /\ docs # <<>> /\ Last(docs) \in 1..DocumentCount
            /\ Last(docs) > walker.cursor /\ \A d \in ToSet(docs) : d <= Last(docs)
            /\ \A d \in steady : d > walker.cursor /\ d <= Last(docs) => d \in ToSet(docs)
  BY <1>1, <1>3, PageOfListing
<1>5. next \in 0..DocumentCount /\ (next = 0 <=> Len(docs) < PageSize)
  BY <1>2, <1>4, ShelvedFacts
<1>6. next # 0 => next = Last(docs)
  BY <1>2
<1> QED BY <1>3, <1>4, <1>5, <1>6, AnswerStep

(* The store's next page, behind what was fetched before: of what belongs   *)
(* to the listing, the matches reach up to its last document.              *)
LEMMA FetchStep ==
    ASSUME ListingInv, NEW from \in 0..DocumentCount, NEW docs, NEW matches,
           walker.route = "documents", walker.filter # {},
           docs = StorePage(walker.scope, from, PageSize),
           matches = Matching(docs, walker.filter)
    PROVE  /\ docs \in Seq(Shelved) /\ Ascends(docs, Upward)
           /\ matches \in Seq(Shelved) /\ Ascends(matches, Upward)
           /\ ToSet(matches) \subseteq ToSet(docs) /\ ToSet(matches) \subseteq ever
           /\ \A d \in ToSet(docs) : d > from
           /\ docs # <<>> => Last(docs) > from /\ \A d \in ToSet(docs) : d <= Last(docs)
           /\ \A d \in steady : d > from /\ (docs # <<>> => d <= Last(docs)) => d \in ToSet(matches)
<1> DEFINE S == {d \in Shelved : Listed(walker.scope, d)}
<1>1. S \in SUBSET Shelved /\ from \in Nat
  BY ShelvedFacts
<1>2. docs = FirstOf(S, from, PageSize)
  BY DEF StorePage
<1>3. \A d : Belongs(walker, d) <=> Listed(walker.scope, d) /\ Matches(d, walker.filter)
  BY DEF Belongs
<1>4. \A d \in S : Matches(d, walker.filter) => d \in ever
  <2>1. walker # NoWalker
    BY DEF NoWalker
  <2> QED BY <1>3, <2>1 DEF ListingInv
<1>5. \A d \in steady : d \in S /\ Matches(d, walker.filter)
  BY <1>3 DEF ListingInv
<1> HIDE DEF S
<1>6. /\ docs \in Seq(Shelved) /\ Ascends(docs, Upward)
      /\ \A d \in ToSet(docs) : d \in S /\ d > from
      /\ \A d \in S : d > from =>
            d \in ToSet(docs) \/ (Len(docs) = PageSize /\ docs # <<>> /\ d > Last(docs))
  BY <1>1, <1>2, FirstOfFacts
<1>7. /\ matches \in Seq(Shelved) /\ Ascends(matches, Upward)
      /\ ToSet(matches) = {d \in ToSet(docs) : Matches(d, walker.filter)}
  BY <1>6, MatchingFacts
<1>8. docs # <<>> => Last(docs) \in ToSet(docs) /\ Last(docs) \in Shelved /\ \A d \in ToSet(docs) : d <= Last(docs)
  BY <1>6, LastIsHighest
<1>9. ASSUME NEW d \in steady, d > from, docs # <<>> => d <= Last(docs) PROVE d \in ToSet(matches)
  <2>1. d \in S /\ Matches(d, walker.filter)
    BY <1>5
  <2>2. ~(docs # <<>> /\ d > Last(docs))
    <3>1. SUFFICES ASSUME docs # <<>> PROVE ~(d > Last(docs))
      OBVIOUS
    <3>2. d \in Nat /\ Last(docs) \in Nat
      BY <1>1, <1>8, <2>1, <3>1, ShelvedFacts
    <3> QED BY <1>9, <3>1, <3>2
  <2>3. d \in ToSet(docs)
    BY <1>6, <1>9, <2>1, <2>2
  <2> QED BY <1>7, <2>1, <2>3
<1> QED BY <1>4, <1>6, <1>7, <1>8, <1>9

LEMMA FetchFirstKeeps == ListingInv /\ FetchFirst => ListingInv'
<1> SUFFICES ASSUME ListingInv, FetchFirst PROVE ListingInv'
  OBVIOUS
<1>1. PICK docs : docs = StorePage(walker.scope, walker.cursor, PageSize)
  OBVIOUS
<1>2. PICK matches : matches = Matching(docs, walker.filter)
  OBVIOUS
<1>3. /\ walker' = [walker EXCEPT !.page = docs, !.stage = "filter", !.matches = matches]
      /\ walker.stage = "ask" /\ walker.route = "documents"
      /\ walker.filter # {} /\ walker.scope # EveryScope
      /\ UNCHANGED <<shelf, changes, answered, steady, ever>>
  BY <1>1, <1>2 DEF FetchFirst
<1>4. walker \in Walkers /\ walker.cursor \in 0..DocumentCount
  BY DEF ListingInv, Walkers
<1>5. /\ docs \in Seq(Shelved) /\ Ascends(docs, Upward)
      /\ matches \in Seq(Shelved) /\ Ascends(matches, Upward)
      /\ ToSet(matches) \subseteq ToSet(docs) /\ ToSet(matches) \subseteq ever
      /\ \A d \in ToSet(docs) : d > walker.cursor
      /\ docs # <<>> => Last(docs) > walker.cursor /\ \A d \in ToSet(docs) : d <= Last(docs)
      /\ \A d \in steady : d > walker.cursor /\ (docs # <<>> => d <= Last(docs)) => d \in ToSet(matches)
  BY <1>1, <1>2, <1>3, <1>4, FetchStep
<1>6. /\ walker'.page = docs /\ walker'.matches = matches /\ walker'.stage = "filter"
      /\ walker'.cursor = walker.cursor /\ walker'.route = walker.route
      /\ walker'.filter = walker.filter /\ walker'.scope = walker.scope
  BY <1>3, <1>4 DEF Walkers
<1>7. walker' \in Walkers
  BY <1>3, <1>4, <1>5 DEF Walkers
<1>8. \A d : Belongs(walker, d)' <=> Belongs(walker, d)
  BY <1>3, <1>6, SameListing
<1>9. walker # NoWalker
  BY <1>3 DEF NoWalker
<1>10. FetchedInv'
  BY <1>3, <1>5, <1>6 DEF FetchedInv
<1> QED BY <1>3, <1>6, <1>7, <1>8, <1>9, <1>10 DEF ListingInv

LEMMA FetchMoreKeeps == ListingInv /\ FetchMore => ListingInv'
<1> SUFFICES ASSUME ListingInv, FetchMore PROVE ListingInv'
  OBVIOUS
<1> DEFINE old == walker.matches
           from == Last(walker.page)
           cursor == walker.cursor
<1>1. PICK docs : docs = StorePage(walker.scope, from, PageSize)
  OBVIOUS
<1>2. PICK new : new = Matching(docs, walker.filter)
  OBVIOUS
<1>3. /\ walker' = [walker EXCEPT !.page = docs, !.matches = @ \o new]
      /\ walker.stage = "filter" /\ walker.page # <<>>
      /\ UNCHANGED <<shelf, changes, answered, steady, ever>>
  BY <1>1, <1>2 DEF FetchMore
<1>4. /\ walker \in Walkers /\ walker.page \in Seq(Shelved) /\ old \in Seq(Shelved)
      /\ cursor \in 0..DocumentCount
  BY DEF ListingInv, Walkers
<1>5. /\ Ascends(old, Upward) /\ ToSet(old) \subseteq ever
      /\ \A d \in ToSet(old) : d > cursor /\ d <= from
      /\ walker.route = "documents" /\ walker.filter # {} /\ Ascends(walker.page, Upward)
      /\ \A d \in steady : d > cursor /\ d <= from => d \in ToSet(old)
      /\ from > cursor
  BY <1>3 DEF ListingInv, FetchedInv
<1>6. from \in Shelved /\ from \in Nat /\ from \in 0..DocumentCount /\ cursor \in Nat
  <2>1. from \in Shelved
    BY <1>3, <1>4, <1>5, LastIsHighest
  <2> HIDE DEF from
  <2> QED BY <1>4, <2>1, ShelvedFacts DEF Shelved
<1> HIDE DEF from, old, cursor
<1>7. /\ docs \in Seq(Shelved) /\ Ascends(docs, Upward)
      /\ new \in Seq(Shelved) /\ Ascends(new, Upward)
      /\ ToSet(new) \subseteq ToSet(docs) /\ ToSet(new) \subseteq ever
      /\ \A d \in ToSet(docs) : d > from
      /\ docs # <<>> => Last(docs) > from /\ \A d \in ToSet(docs) : d <= Last(docs)
      /\ \A d \in steady : d > from /\ (docs # <<>> => d <= Last(docs)) => d \in ToSet(new)
  BY <1>1, <1>2, <1>5, <1>6, FetchStep
<1>8. /\ old \o new \in Seq(Shelved) /\ ToSet(old \o new) = ToSet(old) \cup ToSet(new)
  BY <1>4, <1>7, JoinFacts
<1>9. /\ ToSet(old) \subseteq Shelved /\ ToSet(new) \subseteq Shelved /\ steady \subseteq Shelved
      /\ docs # <<>> => Last(docs) \in Shelved
  <2>1. docs # <<>> => Last(docs) \in Shelved
    BY <1>7, LastIsHighest
  <2> QED BY <1>4, <1>7, <2>1 DEF ToSet, ListingInv
<1>10. Ascends(old \o new, Upward)
  <2>1. ASSUME NEW x \in ToSet(old), NEW y \in ToSet(new) PROVE <<x, y>> \in Upward
    <3>1. x <= from /\ y > from /\ x \in Shelved /\ y \in Shelved /\ x \in Nat /\ y \in Nat
      BY <1>5, <1>7, <1>9, ShelvedFacts
    <3>2. x < y
      BY <1>6, <3>1
    <3> QED BY <3>1, <3>2, ShelvedFacts
  <2> QED BY <1>4, <1>5, <1>7, <2>1, JoinAscends
<1>11. ASSUME NEW d \in ToSet(old \o new)
       PROVE  d \in ever /\ d > cursor /\ (docs # <<>> => d <= Last(docs))
  <2>1. d \in Nat /\ (docs # <<>> => Last(docs) \in Nat)
    BY <1>8, <1>9, ShelvedFacts
  <2>2. CASE d \in ToSet(old)
    BY <1>5, <1>6, <1>7, <2>1, <2>2
  <2>3. CASE d \in ToSet(new)
    BY <1>5, <1>6, <1>7, <2>1, <2>3
  <2> QED BY <1>8, <2>2, <2>3
<1>12. ASSUME NEW d \in steady, d > cursor, docs # <<>> => d <= Last(docs)
       PROVE  d \in ToSet(old \o new)
  <2>1. d \in Nat
    BY <1>9, ShelvedFacts
  <2>2. CASE d <= from
    BY <1>5, <1>8, <1>12, <2>2
  <2>3. CASE d > from
    BY <1>7, <1>8, <1>12, <2>3
  <2> QED BY <1>6, <2>1, <2>2, <2>3
<1>13. /\ walker'.page = docs /\ walker'.matches = old \o new /\ walker'.stage = "filter"
       /\ walker'.cursor = cursor /\ walker'.route = walker.route
       /\ walker'.filter = walker.filter /\ walker'.scope = walker.scope
  BY <1>3, <1>4 DEF Walkers, old, cursor
<1>14. walker' \in Walkers
  BY <1>3, <1>4, <1>7, <1>8 DEF Walkers, old
<1>15. \A d : Belongs(walker, d)' <=> Belongs(walker, d)
  BY <1>3, <1>13, SameListing
<1>16. walker # NoWalker
  BY <1>3 DEF NoWalker
<1>17. docs # <<>> => Last(docs) > cursor
  <2>1. SUFFICES ASSUME docs # <<>> PROVE Last(docs) > cursor
    OBVIOUS
  <2>2. Last(docs) \in Nat /\ Last(docs) > from
    BY <1>7, <1>9, <2>1, ShelvedFacts
  <2> QED BY <1>5, <1>6, <2>2
<1>18. FetchedInv'
  BY <1>3, <1>5, <1>7, <1>10, <1>11, <1>12, <1>13, <1>17 DEF FetchedInv
<1>19. /\ \A d \in ToSet(answered') : d <= walker'.cursor
       /\ \A d \in steady' : d <= walker'.cursor => d \in ToSet(answered')
  BY <1>3, <1>13 DEF ListingInv, cursor
<1>20. \A d \in steady' : Belongs(walker, d)'
  BY <1>3, <1>15 DEF ListingInv
<1>21. \A d \in Shelved : Belongs(walker, d)' => d \in ever'
  BY <1>3, <1>15, <1>16 DEF ListingInv
<1>22. /\ answered' \in Seq(Shelved) /\ Ascends(answered', Upward) /\ ToSet(answered') \subseteq ever'
       /\ steady' \subseteq ever' /\ ever' \subseteq Shelved
  BY <1>3 DEF ListingInv
<1> QED BY <1>13, <1>14, <1>18, <1>19, <1>20, <1>21, <1>22 DEF ListingInv

LEMMA FilteredPageKeeps == ListingInv /\ FilteredPage => ListingInv'
<1> SUFFICES ASSUME ListingInv, FilteredPage PROVE ListingInv'
  OBVIOUS
<1> DEFINE found == walker.matches
<1>1. PICK docs : docs = FirstFew(found, PageSize)
  OBVIOUS
<1>2. PICK next : next = IF Len(docs) < PageSize THEN 0 ELSE Last(docs)
  OBVIOUS
<1>3. /\ walker.stage = "filter"
      /\ Len(found) >= PageSize \/ walker.page = <<>>
      /\ Answer(docs, next) /\ UNCHANGED <<shelf, changes, steady, ever>>
  BY <1>1, <1>2 DEF FilteredPage, NextCursor
<1>4. /\ found \in Seq(Shelved) /\ walker.page \in Seq(Shelved) /\ walker.cursor \in Nat
  BY ShelvedFacts DEF ListingInv, Walkers
<1>5. walker.stage = "filter"
  BY <1>3
<1>6. /\ Ascends(found, Upward) /\ ToSet(found) \subseteq ever
      /\ \A d \in ToSet(found) : d > walker.cursor
      /\ \A d \in steady : d > walker.cursor /\ (walker.page # <<>> => d <= Last(walker.page)) =>
            d \in ToSet(found)
      /\ walker.page # <<>> => \A d \in ToSet(found) : d <= Last(walker.page)
      /\ Ascends(walker.page, Upward)
  BY <1>5 DEF ListingInv, FetchedInv
<1> HIDE DEF found
<1>7. /\ docs \in Seq(Shelved) /\ Ascends(docs, Upward) /\ ToSet(docs) \subseteq ToSet(found)
      /\ Len(docs) < PageSize => docs = found
      /\ Len(docs) < PageSize <=> Len(found) < PageSize
      /\ Len(docs) >= PageSize =>
            docs # <<>> /\ \A d \in ToSet(found) : d <= Last(docs) => d \in ToSet(docs)
  BY <1>1, <1>4, <1>6, FewFacts
<1>8. /\ Len(docs) \in Nat /\ PageSize \in Nat
      /\ Len(docs) >= PageSize <=> ~(Len(docs) < PageSize)
      /\ Len(found) >= PageSize <=> ~(Len(found) < PageSize)
  <2>1. Len(docs) \in Nat /\ PageSize \in Nat /\ Len(found) \in Nat
    BY <1>4, <1>7, ShelvedFacts
  <2> QED BY <2>1
<1>9. ASSUME Len(docs) < PageSize, NEW d \in steady, d > walker.cursor PROVE d \in ToSet(docs)
  <2>1. walker.page = <<>>
    BY <1>3, <1>7, <1>8, <1>9
  <2> QED BY <1>6, <1>7, <1>9, <2>1
<1>10. ASSUME Len(docs) >= PageSize
       PROVE  /\ Last(docs) \in Shelved /\ Last(docs) > walker.cursor
              /\ \A d \in ToSet(docs) : d <= Last(docs)
              /\ \A d \in steady : d > walker.cursor /\ d <= Last(docs) => d \in ToSet(docs)
  <2>1. docs # <<>>
    BY <1>7, <1>10
  <2>2. Last(docs) \in ToSet(docs) /\ Last(docs) \in Shelved /\ \A d \in ToSet(docs) : d <= Last(docs)
    BY <1>7, <2>1, LastIsHighest
  <2>3. Last(docs) \in ToSet(found)
    BY <1>7, <2>2
  <2>4. ASSUME NEW d \in steady, d > walker.cursor, d <= Last(docs) PROVE d \in ToSet(docs)
    <3>1. ASSUME walker.page # <<>> PROVE d <= Last(walker.page)
      <4>1. Last(docs) <= Last(walker.page)
        BY <1>6, <2>3, <3>1
      <4>2. Last(walker.page) \in Shelved
        BY <1>4, <1>6, <3>1, LastIsHighest
      <4>3. d \in Nat /\ Last(docs) \in Nat /\ Last(walker.page) \in Nat
        BY <2>2, <4>2, ShelvedFacts DEF ListingInv
      <4> QED BY <2>4, <4>1, <4>3
    <3>2. d \in ToSet(found)
      BY <1>6, <2>4, <3>1
    <3> QED BY <1>7, <1>10, <2>4, <3>2
  <2> QED BY <1>6, <2>2, <2>3, <2>4
<1>11. /\ next \in 0..DocumentCount /\ (next = 0 <=> Len(docs) < PageSize)
       /\ next # 0 => next = Last(docs) /\ Len(docs) >= PageSize
  <2>1. CASE Len(docs) < PageSize
    BY <1>2, <2>1, ShelvedFacts
  <2>2. CASE ~(Len(docs) < PageSize)
    <3>1. next = Last(docs) /\ Last(docs) \in Shelved /\ Len(docs) >= PageSize
      BY <1>2, <1>8, <1>10, <2>2
    <3>2. next \in 0..DocumentCount /\ next # 0
      BY <3>1, ShelvedFacts DEF Shelved
    <3> QED BY <2>2, <3>1, <3>2
  <2> QED BY <2>1, <2>2
<1>12. ToSet(docs) \subseteq ever /\ \A d \in ToSet(docs) : d > walker.cursor
  BY <1>6, <1>7
<1> QED BY <1>3, <1>5, <1>7, <1>9, <1>10, <1>11, <1>12, AnswerStep

LEMMA CatalogPageKeeps == ListingInv /\ CatalogPage => ListingInv'
<1> SUFFICES ASSUME ListingInv, CatalogPage PROVE ListingInv'
  OBVIOUS
<1>1. PICK docs : docs = FirstOf({d \in Shelved : Belongs(walker, d)}, walker.cursor, PageSize)
  OBVIOUS
<1>2. /\ walker.stage = "ask" /\ UNCHANGED <<shelf, changes, steady, ever>>
      /\ IF Len(docs) < PageSize THEN Answer(docs, 0)
         ELSE walker' = [walker EXCEPT !.matches = docs, !.stage = "tail"] /\ answered' = answered
  BY <1>1 DEF CatalogPage
<1>3. /\ docs \in Seq(Shelved) /\ Ascends(docs, Upward) /\ ToSet(docs) \subseteq ever
      /\ \A d \in ToSet(docs) : d > walker.cursor
      /\ Len(docs) < PageSize => \A d \in steady : d > walker.cursor => d \in ToSet(docs)
      /\ ~(Len(docs) < PageSize) =>
            /\ docs # <<>> /\ Last(docs) \in 1..DocumentCount
            /\ Last(docs) > walker.cursor /\ \A d \in ToSet(docs) : d <= Last(docs)
            /\ \A d \in steady : d > walker.cursor /\ d <= Last(docs) => d \in ToSet(docs)
  BY <1>1, <1>2, PageOfListing
<1>4. CASE Len(docs) < PageSize
  <2>1. 0 \in 0..DocumentCount
    BY ShelvedFacts
  <2> QED BY <1>2, <1>3, <1>4, <2>1, AnswerStep
<1>5. CASE ~(Len(docs) < PageSize)
  <2>1. walker' = [walker EXCEPT !.matches = docs, !.stage = "tail"] /\ answered' = answered
    BY <1>2, <1>5
  <2>2. walker \in Walkers
    BY DEF ListingInv
  <2>3. /\ walker'.matches = docs /\ walker'.stage = "tail" /\ walker'.page = walker.page
        /\ walker'.cursor = walker.cursor /\ walker'.route = walker.route
        /\ walker'.filter = walker.filter /\ walker'.scope = walker.scope
    BY <2>1, <2>2 DEF Walkers
  <2>4. walker' \in Walkers
    BY <1>3, <2>1, <2>2 DEF Walkers
  <2>5. \A d : Belongs(walker, d)' <=> Belongs(walker, d)
    BY <1>2, <2>3, SameListing
  <2>6. walker # NoWalker
    BY <1>2 DEF NoWalker
  <2>7. FetchedInv'
    BY <1>2, <1>3, <1>5, <2>3 DEF FetchedInv
  <2> QED BY <1>2, <2>1, <2>3, <2>4, <2>5, <2>6, <2>7 DEF ListingInv
<1> QED BY <1>4, <1>5

LEMMA CatalogTailKeeps == ListingInv /\ CatalogTail => ListingInv'
<1> SUFFICES ASSUME ListingInv, CatalogTail PROVE ListingInv'
  OBVIOUS
<1>1. PICK docs : docs = walker.matches
  OBVIOUS
<1>2. PICK next : next = IF \E d \in Shelved : d > Last(docs) /\ Belongs(walker, d)
                         THEN Last(docs) ELSE 0
  OBVIOUS
<1>3. /\ walker.stage = "tail" /\ Answer(docs, next) /\ UNCHANGED <<shelf, changes, steady, ever>>
  BY <1>1, <1>2 DEF CatalogTail
<1>4. docs \in Seq(Shelved) /\ walker.cursor \in Nat
  BY <1>1, ShelvedFacts DEF ListingInv, Walkers
<1>5. /\ Ascends(docs, Upward) /\ ToSet(docs) \subseteq ever /\ docs # <<>>
      /\ \A d \in ToSet(docs) : d > walker.cursor
      /\ \A d \in steady : d > walker.cursor /\ d <= Last(docs) => d \in ToSet(docs)
  BY <1>1, <1>3 DEF ListingInv, FetchedInv
<1>6. Last(docs) \in ToSet(docs) /\ Last(docs) \in Shelved /\ \A d \in ToSet(docs) : d <= Last(docs)
  BY <1>4, <1>5, LastIsHighest
<1>7. Last(docs) \in 0..DocumentCount /\ Last(docs) # 0 /\ Last(docs) > walker.cursor /\ 0 \in 0..DocumentCount
  BY <1>5, <1>6, ShelvedFacts DEF Shelved
<1>8. next \in 0..DocumentCount /\ (next # 0 => next = Last(docs))
  BY <1>2, <1>7
<1>9. ASSUME next = 0, NEW d \in steady, d > walker.cursor PROVE d \in ToSet(docs)
  <2>1. d \in Shelved /\ Belongs(walker, d)
    BY DEF ListingInv
  <2>2. ~(d > Last(docs))
    BY <1>2, <1>7, <1>9, <2>1
  <2>3. d \in Nat /\ Last(docs) \in Nat
    BY <1>6, <2>1, ShelvedFacts
  <2>4. d <= Last(docs)
    BY <2>2, <2>3
  <2> QED BY <1>5, <1>9, <2>4
<1> QED BY <1>3, <1>4, <1>5, <1>6, <1>7, <1>8, <1>9, AnswerStep

LEMMA EndWalkKeeps == ListingInv /\ EndWalk => ListingInv'
<1> SUFFICES ASSUME ListingInv, EndWalk PROVE ListingInv'
  OBVIOUS
<1>1. walker' = NoWalker /\ answered' = <<>> /\ steady' = {} /\ ever' = {}
  BY DEF EndWalk
<1>2. <<>> \in Seq(Shelved) /\ ToSet(<<>>) = {} /\ Ascends(<<>>, Upward)
  BY DEF ToSet, Ascends
<1>3. NoWalker.stage = "idle"
  BY DEF NoWalker
<1> QED BY <1>1, <1>2, <1>3, NoWalkerFacts DEF ListingInv, FetchedInv

(* Documents change: what leaves the listing is no longer expected, and     *)
(* what comes to it may be shown.                                          *)
LEMMA ChangeKeeps ==
    ASSUME ListingInv, NEW d, NEW row, Change(d, row)
    PROVE  ListingInv'
<1>1. /\ UNCHANGED <<walker, answered>>
      /\ steady' = {e \in steady : Belongs(walker, e)'}
      /\ ever' = ever \cup {e \in Shelved : walker # NoWalker /\ Belongs(walker, e)'}
  BY DEF Change
<1>2. steady' \subseteq steady /\ ever \subseteq ever' /\ ever' \subseteq Shelved
  BY <1>1 DEF ListingInv
<1>3. \A e \in steady' : Belongs(walker, e)'
  BY <1>1
<1>4. walker' # NoWalker => \A e \in Shelved : Belongs(walker, e)' => e \in ever'
  BY <1>1
<1>5. FetchedInv'
  BY <1>1, <1>2 DEF ListingInv, FetchedInv
<1> QED BY <1>1, <1>2, <1>3, <1>4, <1>5 DEF ListingInv

(* Why no walk skips or repeats: pages end where the next begins, and what  *)
(* is fetched beyond a page is not answered until its turn comes.          *)
LEMMA ListingInvariant == ListingSpec => []ListingInv
<1>1. ListingInit => ListingInv
  BY ListingStarts
<1>2. ListingInv /\ [ListingNext]_listingVars => ListingInv'
  <2> SUFFICES ASSUME ListingInv, [ListingNext]_listingVars PROVE ListingInv'
    OBVIOUS
  <2>1. CASE UNCHANGED listingVars
    <3>1. \A d : Belongs(walker, d)' <=> Belongs(walker, d)
      BY <2>1, SameListing DEF listingVars
    <3>2. UNCHANGED <<shelf, walker, answered, steady, ever>>
      BY <2>1 DEF listingVars
    <3>3. FetchedInv'
      BY <3>2 DEF FetchedInv, ListingInv
    <3> QED BY <3>1, <3>2, <3>3 DEF ListingInv
  <2>2. CASE BeginWalk
    BY <2>2, BeginWalkKeeps
  <2>3. CASE PlainPage
    BY <2>3, PlainPageKeeps
  <2>4. CASE FetchFirst
    BY <2>4, FetchFirstKeeps
  <2>5. CASE FetchMore
    BY <2>5, FetchMoreKeeps
  <2>6. CASE FilteredPage
    BY <2>6, FilteredPageKeeps
  <2>7. CASE CatalogPage
    BY <2>7, CatalogPageKeeps
  <2>8. CASE CatalogTail
    BY <2>8, CatalogTailKeeps
  <2>9. CASE EndWalk
    BY <2>9, EndWalkKeeps
  <2>10. ASSUME NEW d \in Shelved,
                DocumentMade(d) \/ LinkChanges(d) \/ ArchiveChanges(d) \/ VersionsMove(d)
         PROVE  ListingInv'
    <3>1. \E row : Change(d, row)
      BY <2>10 DEF DocumentMade, LinkChanges, ArchiveChanges, VersionsMove
    <3> QED BY <3>1, ChangeKeeps
  <2> QED BY <2>1, <2>2, <2>3, <2>4, <2>5, <2>6, <2>7, <2>8, <2>9, <2>10 DEF ListingNext
<1> QED BY <1>1, <1>2, PTL DEF ListingSpec

(* Whoever follows the pages of documents to the last one has been shown    *)
(* every document that belonged to the listing all the while, each once, in  *)
(* order, and none that never belonged, whatever was linked, archived or     *)
(* moved between two requests: filtered pages cut after the fact             *)
(* (list_documents), and the catalogue's look behind a full page.            *)
THEOREM ListingsAreComplete == ListingSpec => []ListingIsComplete
<1>1. ListingInv => ListingIsComplete
  <2> SUFFICES ASSUME ListingInv PROVE ListingIsComplete
    OBVIOUS
  <2>1. /\ answered \in Seq(Shelved) /\ Ascends(answered, Upward) /\ ToSet(answered) \subseteq ever
        /\ walker.stage = "done" => steady \subseteq ToSet(answered)
    BY DEF ListingInv
  <2>2. ASSUME NEW i \in 2..Len(answered) PROVE answered[i - 1] < answered[i]
    <3>1. /\ i - 1 \in 1..Len(answered) /\ i \in 1..Len(answered) /\ i - 1 < i
      BY <2>1
    <3>2. <<answered[i - 1], answered[i]>> \in Upward
      BY <2>1, <3>1 DEF Ascends
    <3>3. answered[i - 1] \in Shelved /\ answered[i] \in Shelved
      BY <2>1, <3>1
    <3> QED BY <3>2, <3>3, ShelvedFacts
  <2> QED BY <2>1, <2>2 DEF ListingIsComplete
<1> QED BY <1>1, ListingInvariant, PTL

-----------------------------------------------------------------------------
(* The pages of the audit log.                                             *)

Cursors == [id : Nat, at : Nat, offset : Nat]

EventOrder == {p \in (DOMAIN events) \X (DOMAIN events) : Newer(p[1], p[2])}

(* What the cursor of the store at hand relies on.                         *)
TimesAreKept == IF auditStore = "sqlite" THEN StoredInOrder ELSE NewsIsNewer

(* The events of the row's own time that are listed no later than it.       *)
LevelWith(row) == {i \in MatchingEvents : events[i].at = events[row].at /\ i >= row}

(* The cursor stands behind the row.                                       *)
Behind(cursor, row) ==
    /\ row \in MatchingEvents
    /\ IF auditStore = "sqlite" THEN cursor = [id |-> row, at |-> 0, offset |-> 0]
       ELSE cursor = [id |-> 0, at |-> events[row].at, offset |-> Cardinality(LevelWith(row))]

(* The events known when the walk began are before the cursor and seen, or  *)
(* behind it.                                                              *)
AuditWalkInv ==
    /\ Ascends(auditWalk.seen, EventOrder)
    /\ auditWalk.on =>
          IF auditWalk.seen = <<>> THEN auditWalk.cursor = NoCursor
          ELSE /\ Behind(auditWalk.cursor, Last(auditWalk.seen))
               /\ \A i \in MatchingEvents : i <= auditWalk.known =>
                     i \in ToSet(auditWalk.seen) \/ Newer(Last(auditWalk.seen), i)
    /\ ~auditWalk.on /\ auditWalk # NoAuditWalk =>
          {i \in MatchingEvents : i <= auditWalk.known} \subseteq ToSet(auditWalk.seen)

AuditInv ==
    /\ auditStore \in AuditStores /\ auditClock \in 0..LastTime
    /\ events \in Seq(Event)
    /\ logging \in [LoggingThreads -> Event \cup {NoRecord}]
    /\ auditWalk \in [on : BOOLEAN, cursor : Cursors, seen : Seq(MatchingEvents), known : 0..Len(events)]
    /\ TimesAreKept => AuditWalkInv

LEMMA EventFacts ==
    ASSUME events \in Seq(Event)
    PROVE  /\ Len(events) \in Nat /\ DOMAIN events = 1..Len(events) /\ IsFiniteSet(DOMAIN events)
           /\ \A i \in DOMAIN events : i \in Nat /\ i > 0 /\ events[i] \in Event /\ events[i].at \in Nat
           /\ MatchingEvents \in SUBSET (DOMAIN events)
<1>1. Len(events) \in Nat /\ DOMAIN events = 1..Len(events) /\ \A i \in 1..Len(events) : events[i] \in Event
  OBVIOUS
<1>2. IsFiniteSet(1..Len(events))
  BY <1>1, FS_Interval
<1>3. \A e \in Event : e.at \in Nat
  BY AuditAssumption DEF AuditAssumption, Event
<1>4. \A i \in 1..Len(events) : i \in Nat /\ i > 0
  BY <1>1
<1> QED BY <1>1, <1>2, <1>3, <1>4 DEF MatchingEvents

LEMMA NewestFirstFacts ==
    ASSUME events \in Seq(Event), NEW ids \in SUBSET (DOMAIN events), NEW order,
           order = {p \in ids \X ids : Newer(p[1], p[2])}
    PROVE  /\ NewestFirst(ids) = InOrder(ids, order)
           /\ Total(order, ids) /\ IsFiniteSet(ids) /\ order \subseteq EventOrder
           /\ \A i, j \in ids : <<i, j>> \in order <=> Newer(i, j)
<1>1. \A i, j \in ids : <<i, j>> \in order <=> Newer(i, j)
  OBVIOUS
<1>2. IsFiniteSet(ids)
  BY EventFacts, FS_Subset
<1>3. ASSUME NEW i \in ids PROVE <<i, i>> \notin order
  <2>1. i \in Nat /\ events[i].at \in Nat
    BY EventFacts
  <2> QED BY <1>1, <2>1 DEF Newer
<1>4. ASSUME NEW i \in ids, NEW j \in ids, NEW k \in ids, <<i, j>> \in order, <<j, k>> \in order
      PROVE  <<i, k>> \in order
  <2>1. i \in Nat /\ j \in Nat /\ k \in Nat /\ events[i].at \in Nat /\ events[j].at \in Nat /\ events[k].at \in Nat
    BY EventFacts
  <2>2. Newer(i, j) /\ Newer(j, k)
    BY <1>1, <1>4
  <2>3. Newer(i, k)
    BY <2>1, <2>2 DEF Newer
  <2> QED BY <1>1, <2>3
<1>5. ASSUME NEW i \in ids, NEW j \in ids PROVE i = j \/ <<i, j>> \in order \/ <<j, i>> \in order
  <2>1. i \in Nat /\ j \in Nat /\ events[i].at \in Nat /\ events[j].at \in Nat
    BY EventFacts
  <2>2. i = j \/ Newer(i, j) \/ Newer(j, i)
    BY <2>1 DEF Newer
  <2> QED BY <1>1, <2>2
<1>6. order \subseteq EventOrder
  BY DEF EventOrder
<1>7. NewestFirst(ids) = InOrder(ids, order)
  BY DEF NewestFirst
<1>8. Total(order, ids)
  BY <1>3, <1>4, <1>5 DEF Total
<1> QED BY <1>1, <1>2, <1>6, <1>7, <1>8

(* What is listed in one order is listed in any that has it.               *)
LEMMA AscendsWidens ==
    ASSUME NEW s, NEW order, NEW wider, order \subseteq wider, Ascends(s, order)
    PROVE  Ascends(s, wider)
  BY DEF Ascends

(* The matching events that the walk has not passed.                       *)
NotPassed == {i \in MatchingEvents : auditWalk.seen # <<>> => Newer(Last(auditWalk.seen), i)}

AuditRows ==
    IF auditStore = "sqlite"
    THEN NewestFirst({i \in MatchingEvents : auditWalk.cursor.id # 0 => i < auditWalk.cursor.id})
    ELSE LET older == NewestFirst({i \in MatchingEvents :
                         auditWalk.cursor # NoCursor => events[i].at <= auditWalk.cursor.at})
         IN  SubSeq(older, auditWalk.cursor.offset + 1, Len(older))

(* What the SQLite store selects.                                          *)
LEMMA SQLiteRows ==
    ASSUME AuditInv, TimesAreKept, auditWalk.on, auditStore = "sqlite"
    PROVE  AuditRows \in Seq(NotPassed) /\ Ascends(AuditRows, EventOrder) /\ NotPassed \subseteq ToSet(AuditRows)
<1> DEFINE last == Last(auditWalk.seen)
           ids == {i \in MatchingEvents : auditWalk.cursor.id # 0 => i < auditWalk.cursor.id}
<1>1. events \in Seq(Event) /\ AuditWalkInv
  BY DEF AuditInv
<1>2. StoredInOrder
  BY DEF TimesAreKept
<1>3. \A i \in MatchingEvents : i \in DOMAIN events /\ i \in Nat /\ i > 0 /\ events[i].at \in Nat
  BY <1>1, EventFacts
<1>4. ids = NotPassed
  <2>1. CASE auditWalk.seen = <<>>
    <3>1. auditWalk.cursor = NoCursor
      BY <1>1, <2>1 DEF AuditWalkInv
    <3> QED BY <2>1, <3>1 DEF NotPassed, NoCursor
  <2>2. CASE auditWalk.seen # <<>>
    <3>1. auditWalk.cursor = [id |-> last, at |-> 0, offset |-> 0] /\ last \in MatchingEvents
      BY <1>1, <2>2 DEF AuditWalkInv, Behind
    <3> HIDE DEF last
    <3>2. auditWalk.cursor.id = last /\ last # 0 /\ last \in Nat
      BY <1>3, <3>1
    <3>3. ASSUME NEW i \in MatchingEvents PROVE i < last <=> Newer(last, i)
      <4>1. i < last => events[i].at <= events[last].at
        BY <1>2, <1>3, <3>1 DEF StoredInOrder
      <4>2. last < i => events[last].at <= events[i].at
        BY <1>2, <1>3, <3>1 DEF StoredInOrder
      <4>3. i \in Nat /\ events[i].at \in Nat /\ last \in Nat /\ events[last].at \in Nat
        BY <1>3, <3>1
      <4> QED BY <4>1, <4>2, <4>3 DEF Newer
    <3> QED BY <2>2, <3>2, <3>3 DEF NotPassed, last
  <2> QED BY <2>1, <2>2
<1>5. AuditRows = NewestFirst(ids)
  BY DEF AuditRows
<1> HIDE DEF ids
<1>6. ids \in SUBSET (DOMAIN events)
  BY <1>3 DEF ids
<1>7. PICK order : order = {p \in ids \X ids : Newer(p[1], p[2])}
  OBVIOUS
<1>8. /\ NewestFirst(ids) = InOrder(ids, order)
      /\ Total(order, ids) /\ IsFiniteSet(ids) /\ order \subseteq EventOrder
  BY <1>1, <1>6, <1>7, NewestFirstFacts
<1>9. /\ AuditRows \in Seq(ids) /\ Ascends(AuditRows, order)
      /\ \A x \in ids : \E i \in 1..Len(AuditRows) : AuditRows[i] = x
  BY <1>5, <1>8, InOrderFacts
<1>10. ids \subseteq ToSet(AuditRows)
  BY <1>9 DEF ToSet
<1> QED BY <1>4, <1>8, <1>9, <1>10, AscendsWidens

(* What the store in memory keeps of its rows.                             *)
LEMMA MemoryRows ==
    ASSUME AuditInv, TimesAreKept, auditWalk.on, auditStore = "memory"
    PROVE  AuditRows \in Seq(NotPassed) /\ Ascends(AuditRows, EventOrder) /\ NotPassed \subseteq ToSet(AuditRows)
<1> DEFINE last == Last(auditWalk.seen)
           cursor == auditWalk.cursor
           ids == {i \in MatchingEvents : cursor # NoCursor => events[i].at <= cursor.at}
           older == NewestFirst(ids)
<1>1. events \in Seq(Event) /\ AuditWalkInv
  BY DEF AuditInv
<1>2. auditStore # "sqlite"
  OBVIOUS
<1>3. \A i \in MatchingEvents : i \in DOMAIN events /\ i \in Nat /\ i > 0 /\ events[i].at \in Nat
  BY <1>1, EventFacts
<1>4. AuditRows = SubSeq(older, cursor.offset + 1, Len(older))
  BY <1>2 DEF AuditRows
<1>5. ids \in SUBSET (DOMAIN events)
  BY <1>3
<1>6. PICK order : order = {p \in ids \X ids : Newer(p[1], p[2])}
  OBVIOUS
<1>7. /\ older = InOrder(ids, order)
      /\ Total(order, ids) /\ IsFiniteSet(ids) /\ order \subseteq EventOrder
      /\ \A i, j \in ids : <<i, j>> \in order <=> Newer(i, j)
  <2> HIDE DEF ids
  <2> QED BY <1>1, <1>5, <1>6, NewestFirstFacts
<1>8. CASE auditWalk.seen = <<>>
  <2>1. cursor = NoCursor /\ cursor.offset + 1 = 1
    BY <1>1, <1>8 DEF AuditWalkInv, NoCursor
  <2>2. ids = NotPassed
    BY <1>8, <2>1 DEF NotPassed
  <2> HIDE DEF ids, older
  <2>3. /\ older \in Seq(ids) /\ Ascends(older, order)
        /\ \A x \in ids : \E i \in 1..Len(older) : older[i] = x
    BY <1>7, InOrderFacts
  <2>4. AuditRows = older
    <3>1. AuditRows = SubSeq(older, 1, Len(older))
      BY <1>4, <2>1
    <3> QED BY <2>3, <3>1
  <2>5. ids \subseteq ToSet(older)
    BY <2>3 DEF ToSet
  <2> QED BY <1>7, <2>2, <2>3, <2>4, <2>5, AscendsWidens
<1>9. CASE auditWalk.seen # <<>>
  <2>1. /\ last \in MatchingEvents
        /\ cursor = [id |-> 0, at |-> events[last].at, offset |-> Cardinality(LevelWith(last))]
    BY <1>1, <1>2, <1>9 DEF AuditWalkInv, Behind
  <2>2. cursor.at = events[last].at /\ cursor.offset = Cardinality(LevelWith(last))
    BY <2>1
  <2>3. IsFiniteSet(LevelWith(last)) /\ last \in LevelWith(last)
    <3>1. LevelWith(last) \in SUBSET (DOMAIN events) /\ last \in LevelWith(last)
      BY <1>3, <2>1 DEF LevelWith
    <3> QED BY <1>1, <3>1, EventFacts, FS_Subset
  <2>4. cursor # NoCursor
    <3>1. Cardinality(LevelWith(last)) # 0
      BY <2>3, FS_EmptySet
    <3> QED BY <2>2, <3>1 DEF NoCursor
  <2> DEFINE T == Beyond(last, ids, order)
             A == UpTo(last, ids, order)
  <2>5. last \in ids
    BY <1>3, <2>1, <2>2
  <2>6. A = LevelWith(last)
    <3>1. ASSUME NEW y \in MatchingEvents PROVE y \in A <=> y \in LevelWith(last)
      <4>1. y \in A <=> events[y].at <= events[last].at /\ (y = last \/ Newer(y, last))
        BY <1>7, <2>2, <2>4, <2>5 DEF UpTo
      <4>2. y \in Nat /\ events[y].at \in Nat /\ last \in Nat /\ events[last].at \in Nat
        BY <1>3, <2>1
      <4>3. y \in LevelWith(last) <=> events[y].at = events[last].at /\ y >= last
        BY DEF LevelWith
      <4> HIDE DEF A, last
      <4> QED BY <4>1, <4>2, <4>3 DEF Newer
    <3>2. A \subseteq MatchingEvents /\ LevelWith(last) \subseteq MatchingEvents
      BY DEF LevelWith, UpTo
    <3> QED BY <3>1, <3>2
  <2>7. T = NotPassed
    <3>1. ASSUME NEW y \in MatchingEvents PROVE y \in T <=> Newer(last, y)
      <4>1. y \in T <=> events[y].at <= events[last].at /\ Newer(last, y)
        BY <1>7, <2>2, <2>4, <2>5 DEF Beyond
      <4>2. y \in Nat /\ events[y].at \in Nat /\ last \in Nat /\ events[last].at \in Nat
        BY <1>3, <2>1
      <4> HIDE DEF T, last
      <4> QED BY <4>1, <4>2 DEF Newer
    <3>2. T \subseteq MatchingEvents
      BY DEF Beyond
    <3> HIDE DEF T
    <3> QED BY <1>9, <3>1, <3>2 DEF NotPassed
  <2> HIDE DEF ids, older, last, cursor
  <2>8. AuditRows = SubSeq(InOrder(ids, order), Cardinality(A) + 1, Len(InOrder(ids, order)))
    BY <1>4, <1>7, <2>2, <2>6
  <2>9. /\ AuditRows \in Seq(T) /\ Ascends(AuditRows, order)
        /\ \A y \in T : \E i \in 1..Len(AuditRows) : AuditRows[i] = y
    <3>1. IsFiniteSet(ids) /\ Total(order, ids) /\ last \in ids
      BY <1>7, <2>5
    <3> QED BY <2>8, <3>1, DropFacts
  <2> HIDE DEF T
  <2>10. T \subseteq ToSet(AuditRows)
    BY <2>9 DEF ToSet
  <2> QED BY <1>7, <2>7, <2>9, <2>10, AscendsWidens
<1> QED BY <1>8, <1>9

LEMMA AuditRowsFacts ==
    ASSUME AuditInv, TimesAreKept, auditWalk.on
    PROVE  AuditRows \in Seq(NotPassed) /\ Ascends(AuditRows, EventOrder) /\ NotPassed \subseteq ToSet(AuditRows)
<1>1. auditStore = "sqlite" \/ auditStore = "memory"
  BY DEF AuditInv, AuditStores
<1> QED BY <1>1, SQLiteRows, MemoryRows

AuditPage == PageOf(AuditRows)

(* A page goes on where the walk is, and leaves nothing out.               *)
LEMMA AuditPageFacts ==
    ASSUME AuditInv, TimesAreKept, auditWalk.on
    PROVE  /\ AuditPage \in Seq(NotPassed) /\ Ascends(AuditPage, EventOrder)
           /\ Len(AuditRows) > AuditLimit => AuditPage # <<>>
           /\ \A x \in NotPassed :
                 \/ x \in ToSet(AuditPage)
                 \/ Len(AuditRows) > AuditLimit /\ Newer(Last(AuditPage), x)
<1> DEFINE inOrder == AuditRows
           page == AuditPage
<1>1. inOrder \in Seq(NotPassed) /\ Ascends(inOrder, EventOrder) /\ NotPassed \subseteq ToSet(inOrder)
  BY AuditRowsFacts
<1>2. AuditLimit \in Nat /\ AuditLimit > 0
  BY AuditAssumption DEF AuditAssumption
<1>3. page = FirstFew(inOrder, AuditLimit)
  BY DEF AuditPage, PageOf
<1> HIDE DEF inOrder, page
<1>4. /\ page \in Seq(NotPassed) /\ Ascends(page, EventOrder)
      /\ Len(page) = IF Len(inOrder) < AuditLimit THEN Len(inOrder) ELSE AuditLimit
      /\ \A x \in NotPassed :
            \/ \E i \in 1..Len(page) : page[i] = x
            \/ /\ Len(page) = AuditLimit /\ AuditLimit < Len(inOrder)
               /\ \A i \in 1..Len(page) : <<page[i], x>> \in EventOrder
  BY <1>1, <1>2, <1>3, FirstFewFacts
<1>5. Len(inOrder) \in Nat /\ Len(page) \in Nat /\ DOMAIN page = 1..Len(page)
  BY <1>1, <1>4
<1>6. Len(inOrder) > AuditLimit => page # <<>>
  <2>1. Len(inOrder) > AuditLimit => Len(page) = AuditLimit
    BY <1>2, <1>4, <1>5
  <2> QED BY <1>2, <2>1
<1>7. ASSUME NEW x \in NotPassed
      PROVE  x \in ToSet(page) \/ (Len(inOrder) > AuditLimit /\ Newer(Last(page), x))
  <2>1. CASE \E i \in 1..Len(page) : page[i] = x
    BY <1>5, <2>1 DEF ToSet
  <2>2. CASE /\ Len(page) = AuditLimit /\ AuditLimit < Len(inOrder)
             /\ \A i \in 1..Len(page) : <<page[i], x>> \in EventOrder
    <3>1. Len(page) \in 1..Len(page) /\ Len(inOrder) > AuditLimit
      BY <1>2, <1>5, <2>2
    <3>2. <<page[Len(page)], x>> \in EventOrder
      BY <2>2, <3>1
    <3>3. Last(page) = page[Len(page)]
      BY DEF Last
    <3>4. Newer(page[Len(page)], x)
      BY <3>2 DEF EventOrder
    <3> QED BY <3>1, <3>3, <3>4
  <2> QED BY <1>4, <2>1, <2>2
<1> QED BY <1>4, <1>6, <1>7 DEF inOrder, page

(* The places on a page of rows of one time, and these rows. *)
PlacesOf(page, time) == {k \in DOMAIN page : events[page[k]].at = time}
RowsOfTime(page, time) == {page[k] : k \in PlacesOf(page, time)}

(* There are as many of one as of the other.                               *)
LEMMA SameTimeOnPage ==
    ASSUME events \in Seq(Event), NEW page \in Seq(MatchingEvents), Ascends(page, EventOrder), NEW time
    PROVE  /\ IsFiniteSet(RowsOfTime(page, time))
           /\ Cardinality(RowsOfTime(page, time)) = Cardinality(PlacesOf(page, time))
<1> DEFINE K == PlacesOf(page, time)
           P == RowsOfTime(page, time)
           f == [k \in K |-> page[k]]
<1>1. DOMAIN page = 1..Len(page) /\ Len(page) \in Nat /\ \A k \in 1..Len(page) : page[k] \in MatchingEvents
  OBVIOUS
<1>2. IsFiniteSet(K) /\ K \in SUBSET (1..Len(page))
  <2>1. K \in SUBSET (1..Len(page))
    BY <1>1 DEF PlacesOf
  <2>2. IsFiniteSet(1..Len(page))
    BY <1>1, FS_Interval
  <2> QED BY <2>1, <2>2, FS_Subset
<1>3. ASSUME NEW i \in 1..Len(page), NEW j \in 1..Len(page), page[i] = page[j] PROVE i = j
  <2>1. ASSUME NEW a \in 1..Len(page), NEW b \in 1..Len(page), a < b PROVE page[a] # page[b]
    <3>1. <<page[a], page[b]>> \in EventOrder
      BY <2>1 DEF Ascends
    <3>2. Newer(page[a], page[b])
      BY <3>1 DEF EventOrder
    <3>3. page[a] \in Nat /\ events[page[a]].at \in Nat
      BY <1>1, EventFacts
    <3> QED BY <3>2, <3>3 DEF Newer
  <2>2. ~(i < j) /\ ~(j < i)
    BY <1>3, <2>1
  <2> QED BY <1>1, <2>2
<1>4. f \in Bijection(K, P)
  <2>1. \A k \in K : f[k] \in P
    BY DEF RowsOfTime
  <2>2. \A i, j \in K : f[i] = f[j] => i = j
    BY <1>2, <1>3
  <2>3. \A x \in P : \E k \in K : f[k] = x
    BY DEF RowsOfTime
  <2> QED BY <2>1, <2>2, <2>3 DEF Bijection, Injection, Surjection, IsInjective
<1> HIDE DEF K, P, f
<1>5. IsFiniteSet(P) /\ Cardinality(P) = Cardinality(K)
  BY <1>2, <1>4, FS_Surjection DEF Bijection
<1> QED BY <1>5 DEF K, P

(* The cursor the store in memory hands out: it counts the rows of the last *)
(* one's time on this page, and on the pages before when they reach it.    *)
LEMMA CarryFacts ==
    ASSUME AuditInv, TimesAreKept, auditWalk.on, auditStore = "memory",
           NEW page, page = AuditPage, page # <<>>, NEW same, NEW carry, NEW time,
           time = events[Last(page)].at,
           same = Cardinality({k \in DOMAIN page : events[page[k]].at = time}),
           carry = IF auditWalk.cursor # NoCursor /\ auditWalk.cursor.at = time
                   THEN auditWalk.cursor.offset ELSE 0
    PROVE  Last(page) \in MatchingEvents /\ carry + same = Cardinality(LevelWith(Last(page)))
<1> DEFINE row == Last(page)
           last == Last(auditWalk.seen)
           P == RowsOfTime(page, time)
           Q == IF auditWalk.seen # <<>> /\ events[last].at = time THEN LevelWith(last) ELSE {}
<1>1. events \in Seq(Event) /\ AuditWalkInv /\ auditStore # "sqlite"
  BY DEF AuditInv
<1>2. /\ page \in Seq(NotPassed) /\ Ascends(page, EventOrder)
      /\ \A x \in NotPassed : x \in ToSet(page) \/ Newer(row, x)
  BY AuditPageFacts
<1>3. \A i \in MatchingEvents : i \in DOMAIN events /\ i \in Nat /\ i > 0 /\ events[i].at \in Nat
  BY <1>1, EventFacts
<1>4. /\ page \in Seq(MatchingEvents) /\ DOMAIN page = 1..Len(page) /\ Len(page) \in 1..Len(page)
      /\ \A k \in 1..Len(page) : page[k] \in NotPassed
  BY <1>2 DEF NotPassed
<1>5. row \in MatchingEvents /\ row \in NotPassed /\ row = page[Len(page)]
  BY <1>4 DEF Last, NotPassed
<1>6. IsFiniteSet(P) /\ Cardinality(P) = same
  <2>1. same = Cardinality(PlacesOf(page, time))
    BY DEF PlacesOf
  <2>2. page \in Seq(MatchingEvents) /\ Ascends(page, EventOrder)
    BY <1>2, <1>4
  <2>3. IsFiniteSet(P) /\ Cardinality(P) = Cardinality(PlacesOf(page, time))
    BY <1>1, <2>2, SameTimeOnPage
  <2> QED BY <2>1, <2>3
<1> HIDE DEF row, last
<1>7. /\ IsFiniteSet(Q) /\ Cardinality(Q) = carry
      /\ auditWalk.seen # <<>> => last \in MatchingEvents
  <2>1. CASE auditWalk.seen = <<>>
    <3>1. auditWalk.cursor = NoCursor
      BY <1>1, <2>1 DEF AuditWalkInv
    <3>2. carry = 0 /\ Q = {}
      BY <2>1, <3>1
    <3> QED BY <2>1, <3>2, FS_EmptySet
  <2>2. CASE auditWalk.seen # <<>>
    <3>1. /\ last \in MatchingEvents
          /\ auditWalk.cursor = [id |-> 0, at |-> events[last].at, offset |-> Cardinality(LevelWith(last))]
      BY <1>1, <2>2 DEF AuditWalkInv, Behind, last
    <3>2. /\ auditWalk.cursor.at = events[last].at
          /\ auditWalk.cursor.offset = Cardinality(LevelWith(last))
      BY <3>1
    <3>3. IsFiniteSet(LevelWith(last)) /\ last \in LevelWith(last)
      <4>1. LevelWith(last) \in SUBSET (DOMAIN events) /\ last \in LevelWith(last)
        BY <1>3, <3>1 DEF LevelWith
      <4> QED BY <1>1, <4>1, EventFacts, FS_Subset
    <3>4. auditWalk.cursor # NoCursor
      <4>1. Cardinality(LevelWith(last)) # 0
        BY <3>3, FS_EmptySet
      <4> QED BY <3>2, <4>1 DEF NoCursor
    <3>5. CASE events[last].at = time
      <4>1. carry = Cardinality(LevelWith(last)) /\ Q = LevelWith(last)
        BY <2>2, <3>2, <3>4, <3>5
      <4> HIDE DEF Q
      <4> QED BY <3>1, <3>3, <4>1
    <3>6. CASE events[last].at # time
      <4>1. carry = 0 /\ Q = {}
        BY <2>2, <3>2, <3>4, <3>6
      <4> HIDE DEF Q
      <4> QED BY <3>1, <4>1, FS_EmptySet
    <3> QED BY <3>5, <3>6
  <2> QED BY <2>1, <2>2
<1>8. ASSUME NEW x \in P PROVE x \in LevelWith(row) /\ x \notin Q
  <2>1. PICK k \in 1..Len(page) : x = page[k] /\ events[page[k]].at = time
    BY <1>4, <1>8 DEF RowsOfTime, PlacesOf
  <2>2. x \in MatchingEvents /\ x \in NotPassed /\ x \in Nat /\ events[x].at = time
    BY <1>3, <1>4, <2>1 DEF NotPassed
  <2>3. x >= row
    <3>1. CASE k = Len(page)
      BY <1>5, <2>1, <2>2, <3>1
    <3>2. CASE k # Len(page)
      <4>1. <<page[k], page[Len(page)]>> \in EventOrder
        <5>1. Len(page) \in 1..Len(page) /\ k < Len(page)
          BY <1>4, <3>2
        <5> QED BY <1>2, <5>1 DEF Ascends
      <4>2. Newer(x, row)
        BY <1>5, <2>1, <4>1 DEF EventOrder
      <4>3. events[row].at = time /\ events[row].at \in Nat /\ row \in Nat
        BY <1>3, <1>5 DEF row
      <4> QED BY <2>2, <4>2, <4>3 DEF Newer
    <3> QED BY <3>1, <3>2
  <2>4. x \in LevelWith(row)
    BY <2>2, <2>3 DEF LevelWith, row
  <2>5. x \notin Q
    <3>1. SUFFICES ASSUME auditWalk.seen # <<>>, x \in LevelWith(last) PROVE FALSE
      BY DEF Q
    <3>2. Newer(last, x)
      BY <2>2, <3>1 DEF NotPassed, last
    <3>3. last \in Nat /\ events[last].at \in Nat /\ events[x].at \in Nat
      BY <1>3, <1>7, <2>2, <3>1
    <3>4. events[x].at = events[last].at /\ x >= last
      BY <3>1 DEF LevelWith
    <3> QED BY <2>2, <3>2, <3>3, <3>4 DEF Newer
  <2> QED BY <2>4, <2>5
<1>9. ASSUME NEW x \in Q PROVE x \in LevelWith(row)
  <2>1. auditWalk.seen # <<>> /\ events[last].at = time /\ x \in LevelWith(last)
    BY <1>9 DEF Q
  <2>2. x \in MatchingEvents /\ events[x].at = time /\ x >= last /\ x \in Nat
    BY <1>3, <2>1 DEF LevelWith
  <2>3. Newer(last, row) /\ last \in Nat /\ row \in Nat /\ events[last].at \in Nat /\ events[row].at = time
    BY <1>3, <1>5, <1>7, <2>1 DEF NotPassed, last, row
  <2>4. x >= row
    BY <2>1, <2>2, <2>3 DEF Newer
  <2> QED BY <2>2, <2>3, <2>4 DEF LevelWith
<1>10. ASSUME NEW x \in LevelWith(row) PROVE x \in P \cup Q
  <2>1. x \in MatchingEvents /\ events[x].at = time /\ x >= row /\ events[row].at = time
    BY DEF LevelWith, row
  <2>2. x \in Nat /\ row \in Nat /\ time \in Nat
    BY <1>3, <1>5, <2>1
  <2>3. CASE x \in NotPassed
    <3>1. ~Newer(row, x)
      BY <2>1, <2>2 DEF Newer
    <3>2. x \in ToSet(page)
      BY <1>2, <2>3, <3>1
    <3>3. PICK k \in DOMAIN page : page[k] = x
      BY <3>2 DEF ToSet
    <3> QED BY <2>1, <3>3 DEF RowsOfTime, PlacesOf
  <2>4. CASE x \notin NotPassed
    <3>1. auditWalk.seen # <<>> /\ ~Newer(last, x)
      BY <2>1, <2>4 DEF NotPassed, last
    <3>2. Newer(last, row) /\ last \in Nat /\ events[last].at \in Nat
      BY <1>3, <1>5, <1>7, <3>1 DEF NotPassed, last
    <3>3. events[last].at = time /\ x >= last
      BY <2>1, <2>2, <3>1, <3>2 DEF Newer
    <3>4. x \in LevelWith(last)
      BY <2>1, <3>3 DEF LevelWith
    <3> QED BY <3>1, <3>3, <3>4 DEF Q
  <2> QED BY <2>3, <2>4
<1> HIDE DEF P, Q
<1>11. LevelWith(row) = P \cup Q /\ P \cap Q = {}
  BY <1>8, <1>9, <1>10
<1>12. Cardinality(P \cup Q) = Cardinality(P) + Cardinality(Q) - Cardinality(P \cap Q)
  BY <1>6, <1>7, FS_Union
<1>13. Cardinality(P \cap Q) = 0 /\ same \in Nat /\ carry \in Nat
  BY <1>6, <1>7, <1>11, FS_EmptySet, FS_CardinalityType
<1>14. Cardinality(LevelWith(row)) = same + carry
  BY <1>6, <1>7, <1>11, <1>12, <1>13
<1>15. carry + same = Cardinality(LevelWith(row))
  BY <1>13, <1>14
<1> QED BY <1>5, <1>15 DEF row

(* What FetchAuditPage asks of a store.                                    *)
AuditAnswer == IF auditStore = "sqlite" THEN SQLitePage(auditWalk.cursor) ELSE MemoryPage(auditWalk.cursor)

LEMMA AnswerFacts ==
    ASSUME AuditInv
    PROVE  /\ AuditAnswer.rows = AuditPage /\ AuditAnswer.more = (Len(AuditRows) > AuditLimit)
           /\ AuditPage = <<>> => AuditAnswer.next = NoCursor
           /\ AuditPage # <<>> =>
                 IF auditStore = "sqlite" THEN AuditAnswer.next = [id |-> Last(AuditPage), at |-> 0, offset |-> 0]
                 ELSE AuditAnswer.next =
                         [id |-> 0, at |-> events[Last(AuditPage)].at,
                          offset |-> (IF auditWalk.cursor # NoCursor
                                         /\ auditWalk.cursor.at = events[Last(AuditPage)].at
                                      THEN auditWalk.cursor.offset ELSE 0)
                                     + Cardinality(PlacesOf(AuditPage, events[Last(AuditPage)].at))]
<1>1. CASE auditStore = "sqlite"
  <2>1. AuditAnswer = SQLitePage(auditWalk.cursor)
    BY <1>1 DEF AuditAnswer
  <2>2. AuditAnswer = [rows |-> AuditPage, more |-> Len(AuditRows) > AuditLimit,
                       next |-> IF AuditPage = <<>> THEN NoCursor ELSE [NoCursor EXCEPT !.id = Last(AuditPage)]]
    BY <1>1, <2>1 DEF SQLitePage, AuditPage, AuditRows
  <2>3. [NoCursor EXCEPT !.id = Last(AuditPage)] = [id |-> Last(AuditPage), at |-> 0, offset |-> 0]
    BY DEF NoCursor
  <2> QED BY <1>1, <2>2, <2>3
<1>2. CASE auditStore # "sqlite"
  <2>1. AuditAnswer = MemoryPage(auditWalk.cursor)
    BY <1>2 DEF AuditAnswer
  <2>2. AuditAnswer =
           [rows |-> AuditPage, more |-> Len(AuditRows) > AuditLimit,
            next |-> IF AuditPage = <<>> THEN NoCursor
                     ELSE [id |-> 0, at |-> events[Last(AuditPage)].at,
                           offset |-> (IF auditWalk.cursor # NoCursor
                                          /\ auditWalk.cursor.at = events[Last(AuditPage)].at
                                       THEN auditWalk.cursor.offset ELSE 0)
                                      + Cardinality(PlacesOf(AuditPage, events[Last(AuditPage)].at))]]
    BY <1>2, <2>1 DEF MemoryPage, AuditPage, AuditRows, PlacesOf
  <2> QED BY <1>2, <2>2
<1> QED BY <1>1, <1>2

(* Whatever the times of the events, a page is a page of matching events.   *)
LEMMA AnswerTyped ==
    ASSUME AuditInv
    PROVE  AuditPage \in Seq(MatchingEvents) /\ AuditAnswer.next \in Cursors
<1>1. /\ events \in Seq(Event) /\ auditWalk.cursor \in Cursors
      /\ auditWalk.cursor.offset \in Nat
  BY DEF AuditInv, Cursors
<1>2. \A i \in MatchingEvents : i \in DOMAIN events /\ i \in Nat /\ events[i].at \in Nat
  BY <1>1, EventFacts
<1>3. ASSUME NEW ids \in SUBSET MatchingEvents PROVE NewestFirst(ids) \in Seq(MatchingEvents)
  <2>1. PICK order : order = {p \in ids \X ids : Newer(p[1], p[2])}
    OBVIOUS
  <2>2. NewestFirst(ids) = InOrder(ids, order) /\ Total(order, ids) /\ IsFiniteSet(ids)
    BY <1>1, <1>2, <2>1, NewestFirstFacts
  <2>3. NewestFirst(ids) \in Seq(ids)
    BY <2>2, InOrderFacts
  <2> QED BY <2>3
<1>4. AuditRows \in Seq(MatchingEvents)
  <2>1. CASE auditStore = "sqlite"
    <3>1. {i \in MatchingEvents : auditWalk.cursor.id # 0 => i < auditWalk.cursor.id} \in SUBSET MatchingEvents
      OBVIOUS
    <3> QED BY <1>3, <2>1, <3>1 DEF AuditRows
  <2>2. CASE auditStore # "sqlite"
    <3>1. PICK older : older = NewestFirst({i \in MatchingEvents :
                          auditWalk.cursor # NoCursor => events[i].at <= auditWalk.cursor.at})
      OBVIOUS
    <3>2. older \in Seq(MatchingEvents)
      BY <1>3, <3>1
    <3>3. PICK m \in Nat : m = auditWalk.cursor.offset
      BY <1>1
    <3>4. AuditRows = SubSeq(older, m + 1, Len(older))
      BY <2>2, <3>1, <3>3 DEF AuditRows
    <3>5. /\ m + 1 \in Int /\ Len(older) \in Int
          /\ \A i \in (m + 1)..Len(older) : older[i] \in MatchingEvents
      BY <3>2
    <3> QED BY <3>4, <3>5, SubSeqProperties
  <2> QED BY <2>1, <2>2
<1>5. AuditPage \in Seq(MatchingEvents)
  <2>1. PICK inOrder : inOrder = AuditRows
    OBVIOUS
  <2>2. PICK k : k = IF Len(inOrder) < AuditLimit THEN Len(inOrder) ELSE AuditLimit
    OBVIOUS
  <2>3. AuditLimit \in Nat
    BY AuditAssumption DEF AuditAssumption
  <2>4. k \in Int /\ \A i \in 1..k : inOrder[i] \in MatchingEvents
    BY <1>4, <2>1, <2>2, <2>3
  <2>5. AuditPage = SubSeq(inOrder, 1, k)
    BY <2>1, <2>2 DEF AuditPage, PageOf, FirstFew
  <2> QED BY <2>4, <2>5, SubSeqProperties
<1>6. CASE AuditPage = <<>>
  <2>1. AuditAnswer.next = NoCursor
    BY <1>6, AnswerFacts
  <2> QED BY <1>5, <2>1 DEF NoCursor, Cursors
<1>7. CASE AuditPage # <<>>
  <2>1. Last(AuditPage) \in MatchingEvents
    <3>1. Len(AuditPage) \in 1..Len(AuditPage) /\ \A i \in 1..Len(AuditPage) : AuditPage[i] \in MatchingEvents
      BY <1>5, <1>7
    <3> QED BY <3>1 DEF Last
  <2>2. Last(AuditPage) \in Nat /\ events[Last(AuditPage)].at \in Nat
    BY <1>2, <2>1
  <2>3. Cardinality(PlacesOf(AuditPage, events[Last(AuditPage)].at)) \in Nat
    <3>1. PlacesOf(AuditPage, events[Last(AuditPage)].at) \in SUBSET (1..Len(AuditPage)) /\ Len(AuditPage) \in Nat
      BY <1>5 DEF PlacesOf
    <3>2. IsFiniteSet(1..Len(AuditPage))
      BY <3>1, FS_Interval
    <3>3. IsFiniteSet(PlacesOf(AuditPage, events[Last(AuditPage)].at))
      BY <3>1, <3>2, FS_Subset
    <3> QED BY <3>3, FS_CardinalityType
  <2>4. CASE auditStore = "sqlite"
    <3>1. AuditAnswer.next = [id |-> Last(AuditPage), at |-> 0, offset |-> 0]
      BY <1>7, <2>4, AnswerFacts
    <3> QED BY <1>5, <2>2, <3>1 DEF Cursors
  <2>5. CASE auditStore # "sqlite"
    <3>1. PICK carry : carry = IF auditWalk.cursor # NoCursor
                                  /\ auditWalk.cursor.at = events[Last(AuditPage)].at
                               THEN auditWalk.cursor.offset ELSE 0
      OBVIOUS
    <3>2. PICK same : same = Cardinality(PlacesOf(AuditPage, events[Last(AuditPage)].at))
      OBVIOUS
    <3>3. AuditAnswer.next = [id |-> 0, at |-> events[Last(AuditPage)].at, offset |-> carry + same]
      BY <1>7, <2>5, <3>1, <3>2, AnswerFacts
    <3>4. carry \in Nat /\ same \in Nat
      BY <1>1, <2>3, <3>1, <3>2
    <3>5. carry + same \in Nat
      BY <3>4
    <3> QED BY <1>5, <2>2, <3>3, <3>5 DEF Cursors
  <2> QED BY <2>4, <2>5
<1> QED BY <1>6, <1>7

(* The cursor handed out stands behind the last row of the page.           *)
LEMMA NextIsBehind ==
    ASSUME AuditInv, TimesAreKept, auditWalk.on, AuditPage # <<>>
    PROVE  Behind(AuditAnswer.next, Last(AuditPage))
<1>1. Last(AuditPage) \in MatchingEvents
  <2>1. AuditPage \in Seq(MatchingEvents)
    BY AnswerTyped
  <2>2. Len(AuditPage) \in 1..Len(AuditPage) /\ \A i \in 1..Len(AuditPage) : AuditPage[i] \in MatchingEvents
    BY <2>1
  <2> QED BY <2>2 DEF Last
<1>2. CASE auditStore = "sqlite"
  <2>1. AuditAnswer.next = [id |-> Last(AuditPage), at |-> 0, offset |-> 0]
    BY <1>2, AnswerFacts
  <2> QED BY <1>1, <1>2, <2>1 DEF Behind
<1>3. CASE auditStore # "sqlite"
  <2>1. auditStore = "memory"
    BY <1>3 DEF AuditInv, AuditStores
  <2>2. PICK page : page = AuditPage
    OBVIOUS
  <2>3. PICK time : time = events[Last(page)].at
    OBVIOUS
  <2>4. PICK carry : carry = IF auditWalk.cursor # NoCursor /\ auditWalk.cursor.at = time
                             THEN auditWalk.cursor.offset ELSE 0
    OBVIOUS
  <2>5. PICK same : same = Cardinality({k \in DOMAIN page : events[page[k]].at = time})
    OBVIOUS
  <2>6. same = Cardinality(PlacesOf(page, time))
    BY <2>5 DEF PlacesOf
  <2>7. carry + same = Cardinality(LevelWith(Last(page)))
    BY <2>1, <2>2, <2>3, <2>4, <2>5, CarryFacts
  <2>8. AuditAnswer.next = [id |-> 0, at |-> time, offset |-> carry + same]
    BY <1>3, <2>2, <2>3, <2>4, <2>6, AnswerFacts
  <2> QED BY <1>1, <1>3, <2>2, <2>3, <2>7, <2>8 DEF Behind
<1> QED BY <1>2, <1>3

LEMMA NewerIsTransitive ==
    ASSUME events \in Seq(Event), NEW i \in MatchingEvents, NEW j \in MatchingEvents, NEW k \in MatchingEvents,
           Newer(i, j), Newer(j, k)
    PROVE  Newer(i, k)
<1>1. /\ i \in Nat /\ j \in Nat /\ k \in Nat
      /\ events[i].at \in Nat /\ events[j].at \in Nat /\ events[k].at \in Nat
  BY EventFacts
<1> QED BY <1>1 DEF Newer

LEMMA FetchAuditPageKeeps == AuditInv /\ FetchAuditPage => AuditInv'
<1> SUFFICES ASSUME AuditInv, FetchAuditPage PROVE AuditInv'
  OBVIOUS
<1>1. PICK page : page = AuditPage
  OBVIOUS
<1>2. PICK more : more = (Len(AuditRows) > AuditLimit)
  OBVIOUS
<1>3. PICK next : next = AuditAnswer.next
  OBVIOUS
<1>4. /\ auditWalk.on
      /\ auditWalk' = [auditWalk EXCEPT !.seen = @ \o page, !.on = more,
                          !.cursor = IF more THEN next ELSE NoCursor]
      /\ UNCHANGED <<auditStore, auditClock, events, logging>>
  <2>1. /\ auditWalk.on
        /\ auditWalk' = [auditWalk EXCEPT !.seen = @ \o AuditAnswer.rows, !.on = AuditAnswer.more,
                            !.cursor = IF AuditAnswer.more THEN AuditAnswer.next ELSE NoCursor]
        /\ UNCHANGED <<auditStore, auditClock, events, logging>>
    BY DEF FetchAuditPage, AuditAnswer
  <2>2. AuditAnswer.rows = page /\ AuditAnswer.more = more /\ AuditAnswer.next = next
    BY <1>1, <1>2, <1>3, AnswerFacts
  <2> QED BY <2>1, <2>2
<1>5. /\ page \in Seq(MatchingEvents) /\ next \in Cursors /\ NoCursor \in Cursors /\ more \in BOOLEAN
  BY <1>1, <1>2, <1>3, AnswerTyped DEF NoCursor, Cursors
<1>6. /\ events \in Seq(Event)
      /\ auditWalk \in [on : BOOLEAN, cursor : Cursors, seen : Seq(MatchingEvents), known : 0..Len(events)]
      /\ auditWalk.seen \in Seq(MatchingEvents)
  BY DEF AuditInv
<1>7. MatchingEvents' = MatchingEvents /\ EventOrder' = EventOrder /\ (TimesAreKept' <=> TimesAreKept)
      /\ \A i, j : Newer(i, j)' <=> Newer(i, j)
  <2>1. auditWalk'.known = auditWalk.known
    BY <1>4, <1>6
  <2> QED BY <1>4, <2>1 DEF MatchingEvents, EventOrder, Newer, TimesAreKept, StoredInOrder, NewsIsNewer
<1>8. /\ auditWalk'.seen = auditWalk.seen \o page /\ auditWalk'.on = more
      /\ auditWalk'.cursor = (IF more THEN next ELSE NoCursor) /\ auditWalk'.known = auditWalk.known
  BY <1>4, <1>6
<1>9. /\ auditWalk.seen \o page \in Seq(MatchingEvents)
      /\ ToSet(auditWalk.seen \o page) = ToSet(auditWalk.seen) \cup ToSet(page)
  BY <1>5, <1>6, JoinFacts
<1>10. auditWalk' \in [on : BOOLEAN, cursor : Cursors, seen : Seq(MatchingEvents), known : 0..Len(events)]
  BY <1>4, <1>5, <1>6, <1>9
<1>11. ASSUME TimesAreKept PROVE AuditWalkInv'
  <2> DEFINE last == Last(auditWalk.seen)
  <2>1. /\ Ascends(auditWalk.seen, EventOrder)
        /\ auditWalk.seen # <<>> =>
              \A i \in MatchingEvents : i <= auditWalk.known => i \in ToSet(auditWalk.seen) \/ Newer(last, i)
    BY <1>4, <1>11 DEF AuditInv, AuditWalkInv
  <2>2. /\ page \in Seq(NotPassed) /\ Ascends(page, EventOrder) /\ (more => page # <<>>)
        /\ \A x \in NotPassed : x \in ToSet(page) \/ (more /\ Newer(Last(page), x))
    BY <1>1, <1>2, <1>4, <1>11, AuditPageFacts
  <2>3. \A x \in ToSet(page) : x \in NotPassed
    BY <2>2 DEF ToSet
  <2>4. auditWalk.seen # <<>> =>
           last \in MatchingEvents /\ \A x \in ToSet(auditWalk.seen) : x \in MatchingEvents /\ (x = last \/ Newer(x, last))
    <3>1. SUFFICES ASSUME auditWalk.seen # <<>>
                   PROVE  last \in MatchingEvents
                          /\ \A x \in ToSet(auditWalk.seen) : x \in MatchingEvents /\ (x = last \/ Newer(x, last))
      OBVIOUS
    <3>2. PICK s : s = auditWalk.seen
      OBVIOUS
    <3>3. /\ s \in Seq(MatchingEvents) /\ Len(s) \in 1..Len(s) /\ DOMAIN s = 1..Len(s)
          /\ \A i \in 1..Len(s) : s[i] \in MatchingEvents
      BY <1>6, <3>1, <3>2
    <3>4. last = s[Len(s)]
      BY <3>2 DEF Last
    <3>5. ASSUME NEW i \in 1..Len(s), i < Len(s) PROVE Newer(s[i], s[Len(s)])
      <4>1. <<s[i], s[Len(s)]>> \in EventOrder
        BY <2>1, <3>2, <3>3, <3>5 DEF Ascends
      <4> QED BY <4>1 DEF EventOrder
    <3>6. ASSUME NEW x \in ToSet(s) PROVE x \in MatchingEvents /\ (x = last \/ Newer(x, last))
      <4>1. PICK i \in 1..Len(s) : s[i] = x
        BY <3>3, <3>6 DEF ToSet
      <4>2. i = Len(s) \/ i < Len(s)
        <5>1. Len(s) \in Nat
          BY <3>3
        <5> QED BY <5>1
      <4> QED BY <3>3, <3>4, <3>5, <4>1, <4>2
    <3> QED BY <3>2, <3>3, <3>4, <3>6
  <2>5. Ascends(auditWalk.seen \o page, EventOrder)
    <3>1. ASSUME NEW x \in ToSet(auditWalk.seen), NEW y \in ToSet(page) PROVE <<x, y>> \in EventOrder
      <4>1. auditWalk.seen # <<>>
        BY <3>1 DEF ToSet
      <4>2. Newer(last, y) /\ y \in MatchingEvents
        BY <2>3, <4>1 DEF NotPassed
      <4>3. Newer(x, y) /\ x \in MatchingEvents
        BY <1>6, <2>4, <4>1, <4>2, NewerIsTransitive
      <4>4. x \in DOMAIN events /\ y \in DOMAIN events
        BY <1>6, <4>2, <4>3, EventFacts
      <4> QED BY <4>3, <4>4 DEF EventOrder
    <3> QED BY <1>5, <1>6, <2>1, <2>2, <3>1, JoinAscends
  <2>6. ASSUME NEW i \in MatchingEvents, i <= auditWalk.known
        PROVE  i \in ToSet(auditWalk.seen \o page) \/ (more /\ Newer(Last(page), i))
    <3>1. i \in ToSet(auditWalk.seen) \/ i \in NotPassed
      BY <2>1, <2>6 DEF NotPassed
    <3> QED BY <1>9, <2>2, <3>1
  <2>7. ASSUME more
        PROVE  /\ auditWalk.seen \o page # <<>> /\ Last(auditWalk.seen \o page) = Last(page)
               /\ Behind(next, Last(page))
    <3>1. page # <<>> /\ Len(page) \in 1..Len(page)
      BY <1>5, <2>2, <2>7
    <3>2. Behind(next, Last(page))
      BY <1>1, <1>3, <1>4, <1>11, <3>1, NextIsBehind
    <3>3. PICK s : s = auditWalk.seen \o page
      OBVIOUS
    <3>4. /\ s \in Seq(MatchingEvents) /\ Len(s) = Len(auditWalk.seen) + Len(page)
          /\ s[Len(auditWalk.seen) + Len(page)] = page[Len(page)]
      BY <1>5, <1>6, <3>1, <3>3, JoinFacts
    <3>5. Len(s) # 0 /\ s[Len(s)] = page[Len(page)]
      BY <1>6, <3>1, <3>4
    <3> QED BY <3>2, <3>3, <3>5 DEF Last
  <2>8. Behind(next, Last(page))' <=> Behind(next, Last(page))
    BY <1>4, <1>7 DEF Behind, LevelWith
  <2> HIDE DEF last
  <2>9. Ascends(auditWalk'.seen, EventOrder')
    BY <1>7, <1>8, <2>5
  <2>10. ASSUME auditWalk'.on
         PROVE  /\ auditWalk'.seen # <<>> /\ auditWalk'.cursor = next /\ Last(auditWalk'.seen) = Last(page)
                /\ Behind(next, Last(page))'
                /\ \A i \in MatchingEvents' : i <= auditWalk'.known =>
                      i \in ToSet(auditWalk'.seen) \/ Newer(Last(page), i)'
    BY <1>7, <1>8, <2>6, <2>7, <2>8, <2>10
  <2>11. ASSUME ~auditWalk'.on
         PROVE  {i \in MatchingEvents' : i <= auditWalk'.known} \subseteq ToSet(auditWalk'.seen)
    BY <1>7, <1>8, <2>6, <2>11
  <2> QED BY <2>9, <2>10, <2>11 DEF AuditWalkInv
<1> QED BY <1>4, <1>7, <1>10, <1>11 DEF AuditInv

LEMMA SameLogKeeps ==
    ASSUME AuditInv, UNCHANGED <<auditStore, events, auditWalk>>, auditClock' \in 0..LastTime,
           logging' \in [LoggingThreads -> Event \cup {NoRecord}]
    PROVE  AuditInv'
<1>1. MatchingEvents' = MatchingEvents /\ EventOrder' = EventOrder /\ (TimesAreKept' <=> TimesAreKept)
  BY DEF MatchingEvents, EventOrder, Newer, TimesAreKept, StoredInOrder, NewsIsNewer
<1>2. \A row : LevelWith(row)' = LevelWith(row)
  BY <1>1 DEF LevelWith
<1>3. AuditWalkInv => AuditWalkInv'
  BY <1>1, <1>2 DEF AuditWalkInv, Behind, Newer
<1> QED BY <1>1, <1>3 DEF AuditInv

(* An event is stored behind the others.  When times are kept, it is newer  *)
(* than all the walk has seen.                                             *)
LEMMA StoredKeeps ==
    ASSUME AuditInv, NEW e \in Event, events' = Append(events, e),
           UNCHANGED <<auditStore, auditClock, auditWalk>>,
           logging' \in [LoggingThreads -> Event \cup {NoRecord}]
    PROVE  AuditInv'
<1>1. /\ events \in Seq(Event) /\ auditStore \in AuditStores
      /\ auditWalk \in [on : BOOLEAN, cursor : Cursors, seen : Seq(MatchingEvents), known : 0..Len(events)]
  BY DEF AuditInv
<1>2. /\ events' \in Seq(Event) /\ Len(events') = Len(events) + 1 /\ Len(events) \in Nat
      /\ DOMAIN events = 1..Len(events) /\ DOMAIN events' = 1..(Len(events) + 1)
      /\ \A i \in DOMAIN events : events'[i] = events[i]
  BY <1>1
<1>3. \A i \in DOMAIN events : i \in DOMAIN events' /\ i \in Nat /\ events'[i] = events[i]
  BY <1>2
<1>4. \A i, j \in DOMAIN events : Newer(i, j)' <=> Newer(i, j)
  BY <1>3 DEF Newer
<1>5. EventOrder \subseteq EventOrder'
  BY <1>3, <1>4 DEF EventOrder
<1>6. /\ MatchingEvents \subseteq MatchingEvents' /\ MatchingEvents \subseteq DOMAIN events
      /\ \A i \in MatchingEvents' : i \in MatchingEvents \/ i = Len(events) + 1
  <2>1. \A i \in DOMAIN events' : i \in DOMAIN events \/ i = Len(events) + 1
    BY <1>2
  <2> QED BY <1>3, <2>1 DEF MatchingEvents
<1>7. auditWalk' \in [on : BOOLEAN, cursor : Cursors, seen : Seq(MatchingEvents'), known : 0..Len(events')]
  <2>1. auditWalk.seen \in Seq(MatchingEvents') /\ auditWalk.known \in 0..Len(events')
    <3>1. auditWalk.seen \in Seq(MatchingEvents) /\ auditWalk.known \in 0..Len(events)
      BY <1>1
    <3>2. auditWalk.known \in 0..Len(events')
      BY <1>2, <3>1
    <3> QED BY <1>6, <3>1, <3>2
  <2> QED BY <1>1, <2>1
<1>8. ASSUME TimesAreKept' PROVE AuditWalkInv'
  <2>1. TimesAreKept
    <3>1. CASE auditStore = "sqlite"
      <4>1. StoredInOrder'
        BY <1>8, <3>1 DEF TimesAreKept
      <4>2. StoredInOrder
        BY <1>3, <4>1 DEF StoredInOrder
      <4> QED BY <3>1, <4>2 DEF TimesAreKept
    <3>2. CASE auditStore # "sqlite"
      <4>1. NewsIsNewer'
        BY <1>8, <3>2 DEF TimesAreKept
      <4>2. NewsIsNewer
        BY <1>3, <4>1 DEF NewsIsNewer
      <4> QED BY <3>2, <4>2 DEF TimesAreKept
    <3> QED BY <3>1, <3>2
  <2>2. AuditWalkInv
    BY <2>1 DEF AuditInv
  <2>3. Ascends(auditWalk'.seen, EventOrder')
    BY <1>5, <2>2, AscendsWidens DEF AuditWalkInv
  <2>4. ASSUME NEW i \in MatchingEvents', i <= auditWalk.known PROVE i \in MatchingEvents /\ i \in DOMAIN events
    <3>1. i # Len(events) + 1
      BY <1>1, <1>2, <2>4
    <3> QED BY <1>6, <3>1
  <2>5. ASSUME NEW row \in MatchingEvents, NEW cursor, Behind(cursor, row) PROVE Behind(cursor, row)'
    <3>1. row \in MatchingEvents' /\ row \in DOMAIN events /\ events'[row] = events[row]
      BY <1>3, <1>6
    <3>2. CASE auditStore = "sqlite"
      BY <2>5, <3>1, <3>2 DEF Behind
    <3>3. CASE auditStore # "sqlite"
      <4>1. NewsIsNewer'
        BY <1>8, <3>3 DEF TimesAreKept
      <4>2. PICK n : n = Len(events) + 1
        OBVIOUS
      <4>3. n \in DOMAIN events' /\ row < n /\ n > auditWalk'.known
        BY <1>1, <1>2, <3>1, <4>2
      <4>4. events'[row].at < events'[n].at
        BY <1>3, <3>1, <4>1, <4>3 DEF NewsIsNewer
      <4>5. events'[row].at \in Nat
        BY <1>1, <3>1, EventFacts
      <4>6. LevelWith(row)' = LevelWith(row)
        <5>3. PICK a \in Nat : a = events'[row].at
          BY <4>5
        <5>4. PICK b : b = events'[n].at
          OBVIOUS
        <5>5. a < b
          BY <4>4, <5>3, <5>4
        <5>1. ASSUME NEW i \in LevelWith(row)' PROVE i \in LevelWith(row)
          <6>1. i \in MatchingEvents' /\ events'[i].at = events'[row].at /\ i >= row
            BY <5>1 DEF LevelWith
          <6>2. i # n
            <7>1. SUFFICES ASSUME i = n PROVE FALSE
              OBVIOUS
            <7>2. b = a
              BY <5>3, <5>4, <6>1, <7>1
            <7> QED BY <5>5, <7>2
          <6>3. i \in MatchingEvents /\ events'[i] = events[i]
            BY <1>3, <1>6, <4>2, <6>1, <6>2
          <6> QED BY <3>1, <6>1, <6>3 DEF LevelWith
        <5>2. ASSUME NEW i \in LevelWith(row) PROVE i \in LevelWith(row)'
          <6>1. i \in MatchingEvents /\ events[i].at = events[row].at /\ i >= row
            BY DEF LevelWith
          <6>2. i \in MatchingEvents' /\ events'[i] = events[i]
            BY <1>3, <1>6, <6>1
          <6> QED BY <3>1, <6>1, <6>2 DEF LevelWith
        <5> QED BY <5>1, <5>2
      <4> QED BY <2>5, <3>1, <3>3, <4>6 DEF Behind
    <3> QED BY <3>2, <3>3
  <2>6. ASSUME auditWalk.on
        PROVE  (IF auditWalk.seen = <<>> THEN auditWalk.cursor = NoCursor
                ELSE /\ Behind(auditWalk.cursor, Last(auditWalk.seen))
                     /\ \A i \in MatchingEvents : i <= auditWalk.known =>
                           i \in ToSet(auditWalk.seen) \/ Newer(Last(auditWalk.seen), i))'
    <3>1. CASE auditWalk.seen = <<>>
      BY <2>2, <2>6, <3>1 DEF AuditWalkInv
    <3>2. CASE auditWalk.seen # <<>>
      <4>1. PICK row : row = Last(auditWalk.seen)
        OBVIOUS
      <4>2. PICK cursor : cursor = auditWalk.cursor
        OBVIOUS
      <4>3. /\ Behind(cursor, row)
            /\ \A i \in MatchingEvents : i <= auditWalk.known => i \in ToSet(auditWalk.seen) \/ Newer(row, i)
        BY <2>2, <2>6, <3>2, <4>1, <4>2 DEF AuditWalkInv
      <4>4. row \in MatchingEvents
        BY <4>3 DEF Behind
      <4>5. Behind(cursor, row)'
        BY <2>5, <4>3, <4>4
      <4>6. \A i \in MatchingEvents' : i <= auditWalk.known => i \in ToSet(auditWalk.seen) \/ Newer(row, i)'
        BY <1>4, <1>6, <2>4, <4>3, <4>4
      <4>7. row = Last(auditWalk'.seen) /\ cursor = auditWalk'.cursor
        BY <4>1, <4>2
      <4> QED BY <3>2, <4>5, <4>6, <4>7
    <3> QED BY <3>1, <3>2
  <2>7. ASSUME ~auditWalk'.on, auditWalk' # NoAuditWalk
        PROVE  {i \in MatchingEvents' : i <= auditWalk'.known} \subseteq ToSet(auditWalk'.seen)
    BY <2>2, <2>4, <2>7 DEF AuditWalkInv
  <2>8. auditWalk'.on = auditWalk.on
    OBVIOUS
  <2> QED BY <2>3, <2>6, <2>7, <2>8 DEF AuditWalkInv
<1> QED BY <1>1, <1>2, <1>7, <1>8 DEF AuditInv

(* A walk that starts, and one that a restart ends, have passed nothing.    *)
LEMMA EmptyWalkKeeps ==
    ASSUME auditStore' \in AuditStores, auditClock' \in 0..LastTime, events' \in Seq(Event),
           logging' \in [LoggingThreads -> Event \cup {NoRecord}],
           auditWalk' \in [on : BOOLEAN, cursor : {NoCursor}, seen : {<<>>}, known : 0..Len(events')],
           auditWalk'.on \/ auditWalk' = NoAuditWalk
    PROVE  AuditInv'
<1>1. auditWalk'.on \in BOOLEAN /\ auditWalk'.cursor = NoCursor /\ auditWalk'.seen = <<>>
  OBVIOUS
<1>2. NoCursor \in Cursors /\ <<>> \in Seq(MatchingEvents') /\ Ascends(<<>>, EventOrder')
  BY DEF NoCursor, Cursors, Ascends
<1>3. auditWalk' \in [on : BOOLEAN, cursor : Cursors, seen : Seq(MatchingEvents'), known : 0..Len(events')]
  BY <1>2
<1>4. AuditWalkInv'
  BY <1>1, <1>2 DEF AuditWalkInv
<1> QED BY <1>3, <1>4 DEF AuditInv

(* Why no page of the log is skipped: while times are kept, the cursor      *)
(* stands behind the last row seen, however many rows share its time.      *)
LEMMA AuditInvariant == AuditSpec => []AuditInv
<1>0. NoAuditWalk = [on |-> FALSE, cursor |-> NoCursor, seen |-> <<>>, known |-> 0]
  BY DEF NoAuditWalk
<1>1. AuditInit => AuditInv
  <2> SUFFICES ASSUME AuditInit PROVE AuditInv
    OBVIOUS
  <2>1. /\ auditStore \in AuditStores /\ auditClock = 0 /\ events = <<>> /\ auditWalk = NoAuditWalk
        /\ logging \in [LoggingThreads -> Event \cup {NoRecord}]
    BY DEF AuditInit
  <2>2. 0 \in 0..LastTime /\ events \in Seq(Event) /\ Len(events) = 0
    BY <2>1, AuditAssumption DEF AuditAssumption
  <2>3. /\ NoCursor \in Cursors /\ <<>> \in Seq(MatchingEvents) /\ Ascends(<<>>, EventOrder)
        /\ 0 \in 0..Len(events)
    BY <2>2 DEF NoCursor, Cursors, Ascends
  <2>4. auditWalk \in [on : BOOLEAN, cursor : Cursors, seen : Seq(MatchingEvents), known : 0..Len(events)]
    BY <1>0, <2>1, <2>3
  <2>5. AuditWalkInv
    BY <1>0, <2>1, <2>3 DEF AuditWalkInv
  <2> QED BY <2>1, <2>2, <2>4, <2>5 DEF AuditInv
<1>2. AuditInv /\ [AuditNext]_auditVars => AuditInv'
  <2> SUFFICES ASSUME AuditInv, [AuditNext]_auditVars PROVE AuditInv'
    OBVIOUS
  <2>1. /\ logging \in [LoggingThreads -> Event \cup {NoRecord}] /\ auditClock \in 0..LastTime
        /\ events \in Seq(Event) /\ Len(events) \in Nat /\ auditStore \in AuditStores /\ LastTime \in Nat
    <3>1. events \in Seq(Event)
      BY DEF AuditInv
    <3>2. Len(events) \in Nat
      BY <3>1
    <3> QED BY <3>1, <3>2, AuditAssumption DEF AuditInv, AuditAssumption
  <2>2. CASE UNCHANGED auditVars
    BY <2>1, <2>2, SameLogKeeps DEF auditVars
  <2>3. ASSUME NEW t \in LoggingThreads, LogEvent(t) PROVE AuditInv'
    <3>1. PICK m \in BOOLEAN : logging' = [logging EXCEPT ![t] = [at |-> auditClock, matches |-> m]]
      BY <2>3 DEF LogEvent
    <3>2. [at |-> auditClock, matches |-> m] \in Event
      BY <2>1 DEF Event
    <3>3. logging' \in [LoggingThreads -> Event \cup {NoRecord}]
      BY <2>1, <3>1, <3>2
    <3>4. UNCHANGED <<auditStore, auditClock, events, auditWalk>>
      BY <2>3 DEF LogEvent
    <3> QED BY <2>1, <3>3, <3>4, SameLogKeeps
  <2>4. ASSUME NEW t \in LoggingThreads, StoreEvent(t) PROVE AuditInv'
    <3>1. logging' \in [LoggingThreads -> Event \cup {NoRecord}] /\ logging[t] \in Event
      BY <2>1, <2>4 DEF StoreEvent
    <3>2. UNCHANGED <<auditStore, auditClock, auditWalk>> /\ (UNCHANGED events \/ events' = Append(events, logging[t]))
      BY <2>4 DEF StoreEvent
    <3>3. CASE UNCHANGED events
      BY <2>1, <3>1, <3>2, <3>3, SameLogKeeps
    <3>4. CASE events' = Append(events, logging[t])
      <4>1. PICK e \in Event : e = logging[t]
        BY <3>1
      <4> QED BY <3>1, <3>2, <3>4, <4>1, StoredKeeps
    <3> QED BY <3>2, <3>3, <3>4
  <2>5. CASE AuditTick
    <3>1. auditClock' \in 0..LastTime
      BY <2>1, <2>5 DEF AuditTick
    <3> QED BY <2>1, <2>5, <3>1, SameLogKeeps DEF AuditTick
  <2>6. CASE StartAuditWalk
    <3>1. /\ auditWalk' = [NoAuditWalk EXCEPT !.on = TRUE, !.known = Len(events)]
          /\ UNCHANGED <<auditStore, auditClock, events, logging>>
      BY <2>6 DEF StartAuditWalk
    <3>2. Len(events) \in 0..Len(events')
      BY <2>1, <3>1
    <3>3. /\ auditWalk' \in [on : BOOLEAN, cursor : {NoCursor}, seen : {<<>>}, known : 0..Len(events')]
          /\ auditWalk'.on
      BY <1>0, <3>1, <3>2
    <3> QED BY <2>1, <3>1, <3>3, EmptyWalkKeeps
  <2>7. CASE FetchAuditPage
    BY <2>7, FetchAuditPageKeeps
  <2>8. CASE AuditRestart
    <3>1. /\ auditWalk' = NoAuditWalk
          /\ UNCHANGED <<auditStore, auditClock>>
          /\ logging' = [t \in LoggingThreads |-> NoRecord]
          /\ events' = events \/ events' = <<>>
      BY <2>8 DEF AuditRestart
    <3>2. events' \in Seq(Event)
      <4>1. events \in Seq(Event) /\ <<>> \in Seq(Event)
        BY <2>1
      <4>2. CASE events' = events
        BY <4>1, <4>2
      <4>3. CASE events' = <<>>
        BY <4>1, <4>3
      <4> QED BY <3>1, <4>2, <4>3
    <3>4. 0 \in 0..Len(events')
      BY <3>2
    <3>3. logging' \in [LoggingThreads -> Event \cup {NoRecord}]
      BY <3>1
    <3>5. auditWalk' \in [on : BOOLEAN, cursor : {NoCursor}, seen : {<<>>}, known : 0..Len(events')]
      BY <1>0, <3>1, <3>4
    <3> QED BY <2>1, <3>1, <3>2, <3>3, <3>5, EmptyWalkKeeps
  <2> QED BY <2>2, <2>3, <2>4, <2>5, <2>6, <2>7, <2>8 DEF AuditNext
<1> QED BY <1>1, <1>2, PTL DEF AuditSpec

(* Whoever follows next_cursor through the audit log to the end has seen     *)
(* every matching event stored when the walk began, newest first and once,   *)
(* whatever was logged meanwhile: query_page of the SQLite store as long as  *)
(* events are stored in the order of their times, of the in-memory store as  *)
(* long as new events are newer than those already stored.                  *)
THEOREM AuditWalksAreComplete == AuditSpec => []AuditWalkIsComplete
<1>1. AuditInv => AuditWalkIsComplete
  <2> SUFFICES ASSUME AuditInv, TimesAreKept
               PROVE  /\ \A k \in 1..(Len(auditWalk.seen) - 1) : Newer(auditWalk.seen[k], auditWalk.seen[k + 1])
                      /\ ~auditWalk.on /\ auditWalk # NoAuditWalk =>
                            {i \in MatchingEvents : i <= auditWalk.known} \subseteq ToSet(auditWalk.seen)
    BY DEF AuditWalkIsComplete, TimesAreKept
  <2>1. AuditWalkInv /\ auditWalk.seen \in Seq(MatchingEvents)
    BY DEF AuditInv
  <2>2. ASSUME NEW k \in 1..(Len(auditWalk.seen) - 1)
        PROVE  Newer(auditWalk.seen[k], auditWalk.seen[k + 1])
    <3>1. k \in 1..Len(auditWalk.seen) /\ k + 1 \in 1..Len(auditWalk.seen) /\ k < k + 1
      BY <2>1
    <3>2. <<auditWalk.seen[k], auditWalk.seen[k + 1]>> \in EventOrder
      BY <2>1, <3>1 DEF AuditWalkInv, Ascends
    <3> QED BY <3>2 DEF EventOrder
  <2> QED BY <2>1, <2>2 DEF AuditWalkInv
<1> QED BY <1>1, AuditInvariant, PTL

-----------------------------------------------------------------------------
(* Whatever the three paged listings are read by, in whatever order their    *)
(* steps mix: a reader who follows the cursors to the end has missed         *)
(* nothing that was there throughout and was shown nothing twice.           *)
THEOREM PagedReadersMissNothing ==
    EnrichmentSpec /\ ListingSpec /\ AuditSpec => []PagedWalksAreComplete
<1>1. WalkIsComplete /\ ListingIsComplete /\ AuditWalkIsComplete => PagedWalksAreComplete
  BY DEF PagedWalksAreComplete
<1> QED BY <1>1, TopicWalksAreComplete, ListingsAreComplete, AuditWalksAreComplete, PTL

-----------------------------------------------------------------------------
(* Types.                                                                  *)

(* A request's scope is a user's, or every scope. *)
LEMMA GrantedScopesAre ==
    ASSUME NEW mode \in AuthModes
    PROVE  GrantedScopes(mode) \subseteq Callers \cup {EveryScope}
<1> SUFFICES ASSUME NEW t \in Tokens, NEW asked \in Asked, RequireRole(Authenticate(mode, t), "viewer"),
                    ResolveCallerScopes(mode, Authenticate(mode, t), asked) # Refused
             PROVE  ResolveCallerScopes(mode, Authenticate(mode, t), asked) \in Callers \cup {EveryScope}
  BY DEF GrantedScopes
<1>1. mode \in {"bearer", "dev", "disabled"} /\ FixedUser \in Callers
  BY ListingAssumption DEF ListingAssumption
<1>2. Authenticate(mode, t) # Refused
  BY DEF RequireRole
<1>3. Authenticate(mode, t).id \in Callers
  <2>1. t.sub \in Callers
    BY DEF Tokens
  <2> QED BY <1>1, <1>2, <2>1 DEF Authenticate
<1> QED BY <1>1, <1>3 DEF ResolveCallerScopes

ShelfTyped ==
    /\ shelf \in [Shelved -> [made : BOOLEAN, linked : BOOLEAN, archived : BOOLEAN,
                              versions : VersionLists]]
    /\ changes \in 0..MaxChanges

LEMMA ShelfTypeStep == ShelfTyped /\ [ListingNext]_listingVars => ShelfTyped'
<1> SUFFICES ASSUME ShelfTyped, [ListingNext]_listingVars PROVE ShelfTyped'
  OBVIOUS
<1> DEFINE Rows == [made : BOOLEAN, linked : BOOLEAN, archived : BOOLEAN, versions : VersionLists]
<1>1. CASE UNCHANGED <<shelf, changes>>
  BY <1>1 DEF ShelfTyped
<1>2. ASSUME NEW d \in Shelved, NEW row \in Rows, Change(d, row) PROVE ShelfTyped'
  BY <1>2, ListingAssumption DEF Change, ShelfTyped, ListingAssumption
<1>3. ASSUME NEW d \in Shelved PROVE shelf[d] \in Rows
  BY <1>3 DEF ShelfTyped
<1>4. ASSUME NEW d \in Shelved, DocumentMade(d) \/ LinkChanges(d) \/ ArchiveChanges(d) \/ VersionsMove(d)
      PROVE  \E row \in Rows : Change(d, row)
  <2>1. shelf[d] \in Rows
    BY <1>3
  <2>2. CASE DocumentMade(d)
    BY <2>1, <2>2 DEF DocumentMade
  <2>3. CASE LinkChanges(d)
    BY <2>1, <2>3 DEF LinkChanges
  <2>4. CASE ArchiveChanges(d)
    BY <2>1, <2>4 DEF ArchiveChanges
  <2>5. CASE VersionsMove(d)
    BY <2>1, <2>5 DEF VersionsMove
  <2> QED BY <1>4, <2>2, <2>3, <2>4, <2>5
<1>5. BeginWalk \/ PlainPage \/ FetchFirst \/ FetchMore \/ FilteredPage \/ CatalogPage \/ CatalogTail
        \/ EndWalk => UNCHANGED <<shelf, changes>>
  BY DEF BeginWalk, PlainPage, FetchFirst, FetchMore, FilteredPage, CatalogPage, CatalogTail, EndWalk
<1> QED BY <1>1, <1>2, <1>4, <1>5 DEF ListingNext, listingVars

(* Every walk reads with the scope of one caller, or with all of them, and  *)
(* documents keep the rows they may have.                                  *)
THEOREM ListingIsTyped == ListingSpec => []ListingTypeOK
<1>1. ListingInit => ShelfTyped
  <2> SUFFICES ASSUME ListingInit PROVE ShelfTyped
    OBVIOUS
  <2>1. shelf \in [Shelved -> [made : BOOLEAN, linked : BOOLEAN, archived : BOOLEAN, versions : VersionLists]]
    <3>1. {FALSE} \subseteq BOOLEAN
      OBVIOUS
    <3>2. shelf \in [Shelved -> [made : BOOLEAN, linked : BOOLEAN, archived : {FALSE}, versions : VersionLists]]
      BY DEF ListingInit
    <3> QED BY <3>1, <3>2
  <2>2. changes \in 0..MaxChanges
    BY ListingAssumption DEF ListingInit
  <2> QED BY <2>1, <2>2 DEF ShelfTyped
<1>2. ListingInv /\ ShelfTyped => ListingTypeOK
  <2> SUFFICES ASSUME ListingInv, ShelfTyped PROVE ListingTypeOK
    OBVIOUS
  <2>1. walker.cursor \in 0..DocumentCount
        /\ walker.scope \in (UNION {GrantedScopes(mode) : mode \in AuthModes}) \cup {Refused}
    BY DEF ListingInv, Walkers
  <2>2. walker.scope \in Callers \cup {EveryScope, Refused}
    BY <2>1, GrantedScopesAre
  <2> QED BY <2>1, <2>2 DEF ListingInv, ShelfTyped, ListingTypeOK
<1> QED BY <1>1, <1>2, ShelfTypeStep, ListingInvariant, PTL DEF ListingSpec

FewEvents == Len(events) <= MaxEvents

(* The log holds events and no more of them than it may, and a walk has     *)
(* seen none that is not there.                                            *)
THEOREM AuditIsTyped == AuditSpec => []AuditTypeOK
<1>1. AuditInit => FewEvents
  BY AuditAssumption DEF AuditInit, FewEvents, AuditAssumption
<1>2. AuditInv /\ FewEvents /\ [AuditNext]_auditVars => FewEvents'
  <2> SUFFICES ASSUME AuditInv, FewEvents, [AuditNext]_auditVars PROVE FewEvents'
    OBVIOUS
  <2>1. events \in Seq(Event) /\ Len(events) \in Nat /\ MaxEvents \in Nat
    BY AuditAssumption DEF AuditInv, AuditAssumption
  <2>2. CASE UNCHANGED events
    BY <2>2 DEF FewEvents
  <2>3. CASE events' = <<>>
    BY <2>1, <2>3 DEF FewEvents
  <2>4. ASSUME NEW e, Len(events) < MaxEvents, events' = Append(events, e) PROVE FewEvents'
    BY <2>1, <2>4 DEF FewEvents
  <2> QED
    BY <2>2, <2>3, <2>4
       DEF AuditNext, LogEvent, StoreEvent, AuditTick, StartAuditWalk, FetchAuditPage, AuditRestart, auditVars
<1>3. AuditInv /\ FewEvents => AuditTypeOK
  <2> SUFFICES ASSUME AuditInv, FewEvents PROVE AuditTypeOK
    OBVIOUS
  <2>1. events \in Seq(Event) /\ Len(events) \in 0..MaxEvents /\ MaxEvents \in Nat
    BY AuditAssumption DEF AuditInv, AuditAssumption, FewEvents
  <2>2. events \in BoundedSeq(Event, MaxEvents)
    BY <2>1 DEF BoundedSeq, SeqOf
  <2>3. auditWalk.on \in BOOLEAN /\ auditWalk.known \in 0..MaxEvents
    BY <2>1 DEF AuditInv
  <2>4. auditWalk.seen \in Seq(MatchingEvents) /\ MatchingEvents \subseteq DOMAIN events
    BY DEF AuditInv, MatchingEvents
  <2>5. auditWalk.seen \in Seq(DOMAIN events)
    BY <2>4
  <2> QED BY <2>2, <2>3, <2>5 DEF AuditInv, AuditTypeOK
<1> QED BY <1>1, <1>2, <1>3, AuditInvariant, PTL DEF AuditSpec

=============================================================================
