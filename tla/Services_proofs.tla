---------------------------- MODULE Services_proofs ----------------------------
(***************************************************************************)
(* Proofs about the requests the services answer: the reads of one         *)
(* document, the requests with an idempotency key, and the calls to a       *)
(* language model.  Then about the services together: what moves one part  *)
(* leaves the others as they are, so that a behaviour of them all is one of *)
(* each, and what is proved of a part, its type first, holds of it there.  *)
(***************************************************************************)
EXTENDS MCServices, KnowledgeReads_proofs, ServiceStores_proofs

-----------------------------------------------------------------------------
(* Sets of numbers.                                                        *)

(* A larger set has a largest member if one without a member of it has.     *)
LEMMA MaxWithOneMore ==
    ASSUME NEW S \in SUBSET Int, NEW x \in S, NEW m \in S \ {x}, \A y \in S \ {x} : m >= y
    PROVE  \E n \in S : \A y \in S : n >= y
<1>1. CASE m >= x
  BY <1>1
<1>2. CASE ~(m >= x)
  <2>1. \A y \in S : x >= y
    BY <1>2
  <2> QED
    BY <2>1
<1> QED
  BY <1>1, <1>2

(* A finite set of integers that is not empty has a largest member.         *)
LEMMA LargestMember ==
    ASSUME NEW S \in SUBSET Int, IsFiniteSet(S), S # {}
    PROVE  \E m \in S : \A y \in S : m >= y
<1> DEFINE Without(U) == U # {} /\ ~ \E m \in U : \A y \in U : m >= y
           T == {n \in Nat : \E U \in SUBSET S : Cardinality(U) = n /\ Without(U)}
<1>1. SUFFICES ASSUME Without(S) PROVE FALSE
  OBVIOUS
<1>2. Cardinality(S) \in T
  BY <1>1, FS_CardinalityType
<1>3. PICK n \in T : \A k \in T : n <= k
  BY <1>2, LeastNumber
<1>4. PICK U \in SUBSET S : Cardinality(U) = n /\ Without(U)
  BY <1>3
<1>5. IsFiniteSet(U) /\ n \in Nat
  BY <1>3, FS_Subset
<1>6. PICK x \in U : TRUE
  BY <1>4
<1> HIDE DEF T, Without
<1>12. IsFiniteSet(U \ {x}) /\ Cardinality(U \ {x}) = Cardinality(U) - 1
  BY <1>5, <1>6, FS_RemoveElement
<1>7. Cardinality(U \ {x}) = n - 1 /\ n - 1 \in Nat
  BY <1>4, <1>12, FS_CardinalityType
<1> USE DEF T, Without
<1>8. n - 1 \notin T
  BY <1>3, <1>5, <1>7
<1>9. ~Without(U \ {x})
  BY <1>4, <1>7, <1>8
<1>10. CASE U \ {x} = {}
  <2>1. U = {x} /\ x \in Int
    BY <1>6, <1>10
  <2> QED
    BY <1>4, <2>1
<1>11. CASE U \ {x} # {}
  <2>1. PICK m \in U \ {x} : \A y \in U \ {x} : m >= y
    BY <1>9, <1>11
  <2>2. U \in SUBSET Int
    OBVIOUS
  <2>3. \E k \in U : \A y \in U : k >= y
    BY <1>6, <2>1, <2>2, MaxWithOneMore
  <2> QED
    BY <1>4, <2>3
<1> QED
  BY <1>10, <1>11

-----------------------------------------------------------------------------
(* Short sequences joined.                                                 *)

(* One joined with two. *)
LEMMA OneThenTwo == \A a, b, c : <<a>> \o <<b, c>> = <<a, b, c>>
<1> TAKE a, b, c
<1> DEFINE s == <<a>>
           t == <<b, c>>
           st == <<a, b, c>>
           S == {a, b, c}
<1>1. s \in Seq(S) /\ t \in Seq(S) /\ st \in Seq(S) /\ Len(s) = 1 /\ Len(t) = 2 /\ Len(st) = 3
  OBVIOUS
<1>2. /\ s \o t \in Seq(S) /\ Len(s \o t) = 3
      /\ \A i \in 1..3 : (s \o t)[i] = IF i <= 1 THEN s[i] ELSE t[i - 1]
  BY <1>1, ConcatProperties
<1>3. (s \o t)[1] = st[1] /\ (s \o t)[2] = st[2] /\ (s \o t)[3] = st[3]
  BY <1>2
<1>4. 1..3 = {1, 2, 3}
  OBVIOUS
<1> HIDE DEF s, t, st, S
<1>5. \A i \in 1..Len(s \o t) : (s \o t)[i] = st[i]
  BY <1>2, <1>3, <1>4
<1>6. s \o t = st
  BY <1>1, <1>2, <1>5, SeqEqual
<1> QED
  BY <1>6 DEF s, t, st

(* Three joined with one. *)
LEMMA ThreeThenOne == \A a, b, c, d : <<a, b, c>> \o <<d>> = <<a, b, c, d>>
<1> TAKE a, b, c, d
<1> DEFINE s == <<a, b, c>>
           t == <<d>>
           st == <<a, b, c, d>>
           S == {a, b, c, d}
<1>1. s \in Seq(S) /\ t \in Seq(S) /\ st \in Seq(S) /\ Len(s) = 3 /\ Len(t) = 1 /\ Len(st) = 4
  OBVIOUS
<1>2. /\ s \o t \in Seq(S) /\ Len(s \o t) = 4
      /\ \A i \in 1..4 : (s \o t)[i] = IF i <= 3 THEN s[i] ELSE t[i - 3]
  BY <1>1, ConcatProperties
<1>3. (s \o t)[1] = st[1] /\ (s \o t)[2] = st[2] /\ (s \o t)[3] = st[3] /\ (s \o t)[4] = st[4]
  BY <1>2
<1>4. 1..4 = {1, 2, 3, 4}
  OBVIOUS
<1> HIDE DEF s, t, st, S
<1>5. \A i \in 1..Len(s \o t) : (s \o t)[i] = st[i]
  BY <1>2, <1>3, <1>4
<1>6. s \o t = st
  BY <1>1, <1>2, <1>5, SeqEqual
<1> QED
  BY <1>6 DEF s, t, st

(* What comes first in a short sequence, and what is left of it. *)
LEMMA ShortSequences ==
    /\ \A a : Head(<<a>>) = a /\ Tail(<<a>>) = <<>> /\ <<a>> # <<>>
    /\ \A a, b : Head(<<a, b>>) = a /\ Tail(<<a, b>>) = <<b>> /\ <<a, b>> # <<>>
    /\ \A a, b, c : Head(<<a, b, c>>) = a /\ Tail(<<a, b, c>>) = <<b, c>> /\ <<a, b, c>> # <<>>
    /\ \A a, b, c, d : /\ Head(<<a, b, c, d>>) = a /\ Tail(<<a, b, c, d>>) = <<b, c, d>>
                       /\ <<a, b, c, d>> # <<>>
  OBVIOUS

-----------------------------------------------------------------------------
(* The routes that read one document.                                      *)

Bodiless == {"scopes", "lineage", "similar", "document"}
Measured == {"confidence", "high_value"}

VersionTodos(artifact) ==
    {<<"version", "document", "links", artifact>>, <<"document", "links", artifact>>,
     <<"links", artifact>>, <<artifact>>}

DocumentTodos == {<<"shown", "document", "links">>, <<"document", "links">>, <<"links">>}

MeasuredTodos ==
    {<<"shown", "document", "links", "target">>, <<"document", "links", "target">>,
     <<"links", "target">>, <<"target">>}

(* What a request of a route may still have to do. *)
Pending(route) ==
    {todo \in {<<>>} \cup {<<"buried">>} \cup DocumentTodos \cup MeasuredTodos
              \cup UNION {VersionTodos(a) : a \in {"raw", "semantic", "markdown", "bytes"}} :
        \/ todo = <<>>
        \/ todo = <<"buried">> /\ route \in Burying
        \/ todo \in DocumentTodos /\ route \in Bodiless
        \/ todo \in MeasuredTodos /\ route \in Measured
        \/ todo \in VersionTodos("raw") /\ route \in {"extraction", "chunks"}
        \/ todo \in VersionTodos("semantic") /\ route = "semantic"
        \/ todo \in VersionTodos("markdown") /\ route = "markdown"
        \/ todo \in VersionTodos("bytes") /\ route = "raw_file"}

(* Where the statements of a route lead. *)
LEMMA DocumentTodoFacts ==
    ASSUME NEW todo \in DocumentTodos
    PROVE  /\ todo # <<>> /\ Head(todo) \in {"shown", "document", "links"}
           /\ Tail(todo) \in DocumentTodos \cup {<<>>}
           /\ Head(todo) = "shown" => Tail(todo) # <<>>
           /\ Tail(todo) # <<>> => Head(Tail(todo)) \in {"document", "links"}
<1>1. CASE todo = <<"shown", "document", "links">>
  BY <1>1, ShortSequences DEF DocumentTodos
<1>2. CASE todo = <<"document", "links">>
  BY <1>2, ShortSequences DEF DocumentTodos
<1>3. CASE todo = <<"links">>
  BY <1>3, ShortSequences DEF DocumentTodos
<1> QED
  BY <1>1, OneThenTwo, ThreeThenOne, ShortSequences, <1>2, <1>3 DEF DocumentTodos

(* The same of the routes that measure. *)
LEMMA MeasuredTodoFacts ==
    ASSUME NEW todo \in MeasuredTodos
    PROVE  /\ todo # <<>> /\ Head(todo) \in {"shown", "document", "links", "target"}
           /\ Tail(todo) \in MeasuredTodos \cup {<<>>}
           /\ Head(todo) # "target" => Tail(todo) # <<>>
           /\ Tail(todo) # <<>> => Head(Tail(todo)) \in {"document", "links", "target"}
<1>1. CASE todo = <<"shown", "document", "links", "target">>
  BY <1>1, ShortSequences DEF MeasuredTodos
<1>2. CASE todo = <<"document", "links", "target">>
  BY <1>2, ShortSequences DEF MeasuredTodos
<1>3. CASE todo = <<"links", "target">>
  BY <1>3, ShortSequences DEF MeasuredTodos
<1>4. CASE todo = <<"target">>
  BY <1>4, ShortSequences DEF MeasuredTodos
<1> QED
  BY <1>1, OneThenTwo, ThreeThenOne, ShortSequences, <1>2, <1>3, <1>4 DEF MeasuredTodos

(* And of the routes that show a version. *)
LEMMA VersionTodoFacts ==
    ASSUME NEW a \in {"raw", "semantic", "markdown", "bytes"}, NEW todo \in VersionTodos(a)
    PROVE  /\ todo # <<>> /\ Head(todo) \in {"version", "document", "links", a}
           /\ Tail(todo) \in VersionTodos(a) \cup {<<>>}
           /\ Head(todo) = "version" => Tail(todo) # <<>>
           /\ Tail(todo) # <<>> => Head(Tail(todo)) \in {"document", "links", a}
<1>1. CASE todo = <<"version", "document", "links", a>>
  BY <1>1, ShortSequences DEF VersionTodos
<1>2. CASE todo = <<"document", "links", a>>
  BY <1>2, ShortSequences DEF VersionTodos
<1>3. CASE todo = <<"links", a>>
  BY <1>3, ShortSequences DEF VersionTodos
<1>4. CASE todo = <<a>>
  BY <1>4, ShortSequences DEF VersionTodos
<1> QED
  BY <1>1, OneThenTwo, ThreeThenOne, ShortSequences, <1>2, <1>3, <1>4 DEF VersionTodos

(* The first statements of every route. *)
LEMMA FirstStatements ==
    ASSUME NEW route \in Routes
    PROVE  /\ StatementsOf(route) \in Pending(route) /\ StatementsOf(route) # <<>>
           /\ Head(StatementsOf(route)) # "buried"
           /\ route \in VersionRoutes => Head(StatementsOf(route)) = "version"
<1> DEFINE ofVersion(a) == <<"version", "document", "links", a>>
<1>1. <<"shown">> \o AccessCheck = <<"shown", "document", "links">>
  BY OneThenTwo DEF AccessCheck
<1>2. <<"shown">> \o AccessCheck \o <<"target">> = <<"shown", "document", "links", "target">>
  BY <1>1, ThreeThenOne
<1>3. \A a : <<"version">> \o AccessCheck \o <<a>> = ofVersion(a)
  <2>1. <<"version">> \o AccessCheck = <<"version", "document", "links">>
    BY OneThenTwo DEF AccessCheck
  <2> QED
    BY <2>1, ThreeThenOne
<1>4. CASE route \in Bodiless
  <2>1. StatementsOf(route) = <<"shown", "document", "links">>
    BY <1>1, <1>4 DEF Bodiless, StatementsOf, GetDocument, GetScopes, GetLineage, GetSimilar
  <2>2. StatementsOf(route) \in DocumentTodos
    BY <2>1 DEF DocumentTodos
  <2>3. Head(StatementsOf(route)) = "shown" /\ StatementsOf(route) # <<>>
    BY <2>1, ShortSequences
  <2>4. route \notin VersionRoutes
    BY <1>4 DEF Bodiless, VersionRoutes
  <2> QED
    BY <1>4, <2>2, <2>3, <2>4 DEF Pending
<1>5. CASE route \in Measured
  <2>1. StatementsOf(route) = <<"shown", "document", "links", "target">>
    BY <1>2, <1>5 DEF Measured, StatementsOf, GetConfidence, GetHighValue
  <2>2. StatementsOf(route) \in MeasuredTodos
    BY <2>1 DEF MeasuredTodos
  <2>3. Head(StatementsOf(route)) = "shown" /\ StatementsOf(route) # <<>>
    BY <2>1, ShortSequences
  <2>4. route \notin VersionRoutes
    BY <1>5 DEF Measured, VersionRoutes
  <2> QED
    BY <1>5, <2>2, <2>3, <2>4 DEF Pending
<1>6. CASE route \in VersionRoutes
  <2>1. PICK a \in {"raw", "semantic", "markdown", "bytes"} :
           /\ StatementsOf(route) = ofVersion(a)
           /\ a = "raw" => route \in {"extraction", "chunks"}
           /\ a = "semantic" => route = "semantic"
           /\ a = "markdown" => route = "markdown"
           /\ a = "bytes" => route = "raw_file"
    <3>1. CASE route \in {"extraction", "chunks"}
      BY <1>3, <3>1 DEF StatementsOf, GetExtraction, ListChunks
    <3>2. CASE route = "semantic"
      BY <1>3, <3>2 DEF StatementsOf, GetSemantic
    <3>3. CASE route = "markdown"
      BY <1>3, <3>3 DEF StatementsOf, GetMarkdown
    <3>4. CASE route = "raw_file"
      BY <1>3, <3>4 DEF StatementsOf, GetRawFile
    <3> QED
      BY <1>6, <3>1, <3>2, <3>3, <3>4 DEF VersionRoutes
  <2>2. StatementsOf(route) \in VersionTodos(a)
    BY <2>1 DEF VersionTodos
  <2>3. Head(StatementsOf(route)) = "version" /\ StatementsOf(route) # <<>>
    BY <2>1, ShortSequences
  <2> QED
    BY <2>1, <2>2, <2>3 DEF Pending
<1> QED
  BY <1>4, <1>5, <1>6 DEF Routes, VersionRoutes, Burying, Bodiless, Measured

(* What is left to do of a request, and where its next statement leads. *)
LEMMA PendingFacts ==
    ASSUME NEW route, NEW todo \in Pending(route), todo # <<>>
    PROVE  /\ Tail(todo) \in Pending(route)
           /\ Tail(todo) # <<>> => Head(Tail(todo)) \notin {"version", "buried"}
           /\ Head(todo) = "version" => route \in VersionRoutes /\ Tail(todo) # <<>>
           /\ Head(todo) = "shown" => route \notin VersionRoutes /\ Tail(todo) # <<>>
           /\ Head(todo) = "buried" => route \in Burying
           /\ Head(todo) = "target" => route \in Measured
           /\ Head(todo) = "raw" => route \in {"extraction", "chunks"}
           /\ Head(todo) = "semantic" => route = "semantic"
           /\ Head(todo) = "markdown" => route = "markdown"
           /\ Head(todo) = "bytes" => route = "raw_file"
           /\ route \in Measured /\ Tail(todo) = <<>> => Head(todo) \in {"target", "buried"}
<1>1. CASE todo = <<"buried">>
  <2>1. Head(todo) = "buried" /\ Tail(todo) = <<>>
    BY <1>1, ShortSequences
  <2>2. <<>> \in Pending(route) /\ route \in Burying
    <3>1. todo \notin DocumentTodos
      BY <2>1, DocumentTodoFacts
    <3>2. todo \notin MeasuredTodos
      BY <2>1, MeasuredTodoFacts
    <3>3. \A a \in {"raw", "semantic", "markdown", "bytes"} : todo \notin VersionTodos(a)
      BY <2>1, VersionTodoFacts
    <3> QED
      BY <3>1, <3>2, <3>3 DEF Pending
  <2> QED
    BY <2>1, <2>2
<1>2. CASE todo \in DocumentTodos /\ route \in Bodiless
  <2>1. Tail(todo) \in Pending(route)
    BY <1>2, DocumentTodoFacts DEF Pending
  <2>2. route \notin VersionRoutes /\ route \notin Measured
    BY <1>2 DEF Bodiless, VersionRoutes, Measured
  <2> QED
    BY <1>2, <2>1, <2>2, DocumentTodoFacts
<1>3. CASE todo \in MeasuredTodos /\ route \in Measured
  <2>1. Tail(todo) \in Pending(route)
    BY <1>3, MeasuredTodoFacts DEF Pending
  <2>2. route \notin VersionRoutes
    BY <1>3 DEF VersionRoutes, Measured
  <2> QED
    BY <1>3, <2>1, <2>2, MeasuredTodoFacts
<1>4. ASSUME NEW a \in {"raw", "semantic", "markdown", "bytes"}, todo \in VersionTodos(a),
             a = "raw" => route \in {"extraction", "chunks"}, a = "semantic" => route = "semantic",
             a = "markdown" => route = "markdown", a = "bytes" => route = "raw_file"
      PROVE  /\ Tail(todo) \in Pending(route)
             /\ Tail(todo) # <<>> => Head(Tail(todo)) \notin {"version", "buried"}
             /\ Head(todo) \in {"version", "document", "links", a}
             /\ Head(todo) = "version" => Tail(todo) # <<>>
             /\ route \in VersionRoutes /\ route \notin Measured
  <2>1. Tail(todo) \in Pending(route)
    BY <1>4, VersionTodoFacts DEF Pending
  <2>2. route \in VersionRoutes /\ route \notin Measured
    BY <1>4 DEF VersionRoutes, Measured
  <2> QED
    BY <1>4, <2>1, <2>2, VersionTodoFacts
<1>5. CASE \E a \in {"raw", "semantic", "markdown", "bytes"} :
              /\ todo \in VersionTodos(a)
              /\ a = "raw" => route \in {"extraction", "chunks"}
              /\ a = "semantic" => route = "semantic"
              /\ a = "markdown" => route = "markdown"
              /\ a = "bytes" => route = "raw_file"
  <2>1. PICK a \in {"raw", "semantic", "markdown", "bytes"} :
              /\ todo \in VersionTodos(a)
              /\ a = "raw" => route \in {"extraction", "chunks"}
              /\ a = "semantic" => route = "semantic"
              /\ a = "markdown" => route = "markdown"
              /\ a = "bytes" => route = "raw_file"
    BY <1>5
  <2> QED
    BY <1>4, <2>1
<1> QED
  BY <1>1, <1>2, <1>3, <1>5 DEF Pending

Todos == UNION {Pending(r) : r \in Routes \cup {"none"}}

Named == Routes \cup {"none"}
Targets == {"first", "second"}
Codes == {0, 200, 404, 410}

ReadRequests == [route : Named, todo : Todos, target : Targets, code : Codes]

(* A request is at some statement of its route.  One that is still to be    *)
(* answered has no code; if the version was purged when the request began, *)
(* a route of versions has not got past its first look; and the row is     *)
(* looked at again only for a caller it was hidden from.                   *)
ReadsInv ==
    /\ catalogued \in [archived : BOOLEAN, linked : BOOLEAN, progress : Progress,
                       bytes : BOOLEAN, purged : BOOLEAN, second : {"absent", "live", "purged"}]
    /\ request.todo \in Pending(request.route)
    /\ request \in ReadRequests
    /\ witnessed.gone => catalogued.purged
    /\ request.todo # <<>> =>
          /\ request.code = 0
          /\ witnessed.gone /\ request.route \in VersionRoutes => Head(request.todo) = "version"
          /\ Head(request.todo) = "buried" => witnessed.hidden
    /\ AnswersAreTrue

(* A statement of a request takes it on, or answers it truly. *)
LEMMA StatementKeeps ==
    ASSUME ReadsInv, request.todo # <<>>, UNCHANGED <<access, catalogued, purge>>, Witness,
           NEW next \in ReadRequests,
           request' = next, next.route = request.route,
           next.todo \in Pending(request.route),
           next.todo # <<>> =>
              /\ next.code = 0
              /\ witnessed.gone => request.route \notin VersionRoutes
              /\ Head(next.todo) = "buried" => HiddenFrom(request.route, catalogued),
           next.todo = <<>> =>
              /\ witnessed.gone /\ request.route \in VersionRoutes => next.code \in {0, 410}
              /\ next.code = 200 /\ request.route \in Measured /\ next.target = "first" => ~witnessed.gone
              /\ next.code = 410 => \/ catalogued.purged
                                    \/ next.target = "second" /\ catalogued.second = "purged"
              /\ next.code = 404 => \/ witnessed.hidden
                                    \/ HiddenFrom(request.route, catalogued)
                                    \/ Lacking(request.route, catalogued)
    PROVE  ReadsInv'
<1>1. witnessed' = [hidden  |-> witnessed.hidden \/ HiddenFrom(request'.route, catalogued'),
                    lacking |-> witnessed.lacking \/ Lacking(request'.route, catalogued'),
                    gone    |-> witnessed.gone]
  BY DEF Witness
<1>2. /\ witnessed.hidden \/ HiddenFrom(request.route, catalogued) => witnessed'.hidden
      /\ witnessed.lacking \/ Lacking(request.route, catalogued) => witnessed'.lacking
      /\ witnessed'.gone = witnessed.gone
  BY <1>1
<1>3. /\ request' \in ReadRequests
      /\ catalogued' = catalogued /\ request'.route = request.route
  OBVIOUS
<1>4. Pending(request.route)' = Pending(request.route)
  BY DEF Pending
<1>5. AnswersAreTrue'
  BY <1>2, <1>3 DEF ReadsInv, AnswersAreTrue, Measured
<1> QED
  BY <1>2, <1>3, <1>4, <1>5 DEF ReadsInv

(* How a request goes on, and how it is answered. *)
LEMMA RequestMoves ==
    ASSUME ReadsInv, request.todo # <<>>
    PROVE  /\ GoOn => /\ request' \in ReadRequests /\ request'.route = request.route
                      /\ request'.target = request.target /\ request'.todo = Tail(request.todo)
                      /\ request'.code = IF Tail(request.todo) = <<>> THEN 200 ELSE 0
           /\ \A code \in {404, 410} : AnswerWith(code) =>
                 /\ request' \in ReadRequests /\ request'.route = request.route
                 /\ request'.target = request.target /\ request'.todo = <<>>
                 /\ request'.code = code
           /\ \A t \in {"first", "second"} :
                 request' = [request EXCEPT !.todo = Tail(@), !.target = t] =>
                    /\ request' \in ReadRequests /\ request'.route = request.route
                    /\ request'.todo = Tail(request.todo) /\ request'.code = 0
           /\ request' = [request EXCEPT !.todo = <<"buried">>] /\ request.route \in Burying =>
                 /\ request' \in ReadRequests /\ request'.route = request.route
                 /\ request'.todo = <<"buried">> /\ request'.code = 0
<1> DEFINE rest == Tail(request.todo)
<1>1. request \in ReadRequests /\ request.code = 0
  BY DEF ReadsInv
<1>2. request.route \in Routes \cup {"none"} /\ request.todo \in Pending(request.route)
  BY <1>1 DEF ReadRequests, ReadsInv, Named
<1>3. rest \in Todos
  BY <1>2, PendingFacts DEF Todos
<1>4. <<>> \in Todos
  BY <1>2 DEF Pending, Todos
<1>5. request.route \in Burying => <<"buried">> \in Todos
  BY <1>2 DEF Pending, Todos
<1> HIDE DEF rest
<1>6. ASSUME GoOn
      PROVE  /\ request' \in ReadRequests /\ request'.route = request.route
             /\ request'.target = request.target /\ request'.todo = rest
             /\ request'.code = IF rest = <<>> THEN 200 ELSE 0
  <2> DEFINE code == IF rest = <<>> THEN 200 ELSE 0
             new == [request EXCEPT !.todo = rest, !.code = code]
  <2>1. code \in Codes
    BY DEF Codes
  <2>2. request' = new
    BY <1>6, <1>1 DEF GoOn, rest
  <2> HIDE DEF code
  <2>3. new \in ReadRequests
    BY <1>1, <1>3, <2>1 DEF ReadRequests
  <2>4. new.route = request.route /\ new.target = request.target
    BY <1>1 DEF ReadRequests
  <2>5. new.todo = rest /\ new.code = code
    BY <1>1 DEF ReadRequests
  <2> HIDE DEF new
  <2> QED
    BY <2>2, <2>3, <2>4, <2>5 DEF code
<1>7. ASSUME NEW code \in {404, 410}, AnswerWith(code)
      PROVE  /\ request' \in ReadRequests /\ request'.route = request.route
             /\ request'.target = request.target /\ request'.todo = <<>>
             /\ request'.code = code
  <2> DEFINE none == <<>>
             new == [request EXCEPT !.todo = none, !.code = code]
  <2>1. request' = new
    BY <1>7 DEF AnswerWith
  <2>2. none \in Todos /\ none = <<>> /\ code \in Codes
    BY <1>4 DEF Codes
  <2> HIDE DEF none
  <2>3. new \in ReadRequests
    BY <1>1, <2>2 DEF ReadRequests
  <2>4. new.route = request.route /\ new.target = request.target
    BY <1>1 DEF ReadRequests
  <2>5. new.todo = none /\ new.code = code
    BY <1>1 DEF ReadRequests
  <2> HIDE DEF new
  <2> QED
    BY <2>1, <2>2, <2>3, <2>4, <2>5
<1>8. ASSUME NEW t \in {"first", "second"}, request' = [request EXCEPT !.todo = Tail(@), !.target = t]
      PROVE  /\ request' \in ReadRequests /\ request'.route = request.route
             /\ request'.todo = rest /\ request'.code = 0
  <2> DEFINE new == [request EXCEPT !.todo = rest, !.target = t]
  <2>1. request' = new /\ t \in Targets
    BY <1>1, <1>8 DEF rest, Targets
  <2>2. new \in ReadRequests
    BY <1>1, <1>3, <2>1 DEF ReadRequests
  <2>3. new.route = request.route /\ new.code = request.code
    BY <1>1 DEF ReadRequests
  <2>4. new.todo = rest
    BY <1>1 DEF ReadRequests
  <2> HIDE DEF new
  <2> QED
    BY <1>1, <2>1, <2>2, <2>3, <2>4
<1>9. ASSUME request' = [request EXCEPT !.todo = <<"buried">>], request.route \in Burying
      PROVE  /\ request' \in ReadRequests /\ request'.route = request.route
             /\ request'.todo = <<"buried">> /\ request'.code = 0
  <2>1. request' \in ReadRequests
    BY <1>1, <1>5, <1>9 DEF ReadRequests
  <2>2. request'.route = request.route /\ request'.code = request.code /\ request'.todo = <<"buried">>
    BY <1>1, <1>9 DEF ReadRequests
  <2> QED
    BY <1>1, <2>1, <2>2
<1> QED
  BY <1>6, <1>7, <1>8, <1>9 DEF rest

(* Every statement of a request keeps its answer true. *)
LEMMA StatementSteps ==
    ASSUME ReadsInv, ReadStep, Witness
    PROVE  ReadsInv'
<1> DEFINE todo == request.todo
           head == Head(request.todo)
           r == request.route
           T == Tail(request.todo)
<1>1. request.todo # <<>> /\ UNCHANGED <<access, catalogued, purge>>
  BY DEF ReadStep, LookUpVersion, LookUpDocument, LookUpBuried, LookUpTarget, CheckDocument, CheckLinks,
         FetchRaw, FetchSemantic, FetchMarkdown, FetchBytes, At, Others
<1>2. /\ request \in ReadRequests /\ todo \in Pending(r) /\ request.code = 0
      /\ witnessed.gone => catalogued.purged
      /\ witnessed.gone /\ r \in VersionRoutes => head = "version"
      /\ head = "buried" => witnessed.hidden
  BY <1>1 DEF ReadsInv
<1>3. /\ T \in Pending(r)
      /\ T # <<>> => Head(T) \notin {"version", "buried"}
      /\ head = "version" => r \in VersionRoutes /\ T # <<>>
      /\ head = "shown" => r \notin VersionRoutes /\ T # <<>>
      /\ head = "buried" => r \in Burying
      /\ head = "target" => r \in Measured
      /\ head = "raw" => r \in {"extraction", "chunks"}
      /\ head = "semantic" => r = "semantic"
      /\ head = "markdown" => r = "markdown"
      /\ head = "bytes" => r = "raw_file"
      /\ r \in Measured /\ T = <<>> => head \in {"target", "buried"}
  BY <1>1, <1>2, PendingFacts
<1>4. <<>> \in Pending(r)
  BY DEF Pending
<1> HIDE DEF todo, head, r, T
(* Going on: not past the look at a purged version, nor past the last one   *)
(* to be measured.                                                         *)
<1>5. ASSUME GoOn, ~(witnessed.gone /\ r \in VersionRoutes), head # "buried",
             head = "target" => ~(request.target = "first" /\ witnessed.gone)
      PROVE  ReadsInv'
  <2>1. /\ request' \in ReadRequests /\ request'.route = r /\ request'.target = request.target
        /\ request'.todo = T /\ request'.code = IF T = <<>> THEN 200 ELSE 0
    BY <1>1, <1>5, RequestMoves DEF r, T
  <2>2. /\ T # <<>> => request'.code = 0 /\ Head(T) # "buried"
        /\ T = <<>> => /\ request'.code = 200
                       /\ r \in Measured /\ request'.target = "first" => ~witnessed.gone
    BY <1>3, <1>5, <2>1
  <2>3. 200 \notin {404, 410}
    OBVIOUS
  <2> QED
    BY <1>1, <1>3, <1>5, <2>1, <2>2, <2>3, StatementKeeps DEF r
(* Answering that something is not there, or gone. *)
<1>6. ASSUME NEW code \in {404, 410}, AnswerWith(code), code = 404 => ~(witnessed.gone /\ r \in VersionRoutes),
             code = 410 => catalogued.purged \/ (request.target = "second" /\ catalogued.second = "purged"),
             code = 404 => witnessed.hidden \/ HiddenFrom(r, catalogued) \/ Lacking(r, catalogued)
      PROVE  ReadsInv'
  <2>1. /\ request' \in ReadRequests /\ request'.route = r /\ request'.target = request.target
        /\ request'.todo = <<>> /\ request'.code = code
    BY <1>1, <1>6, RequestMoves DEF r
  <2> QED
    BY <1>1, <1>4, <1>6, <2>1, StatementKeeps DEF r
<1>7. CASE LookUpVersion
  <2>1. head = "version" /\ r \in VersionRoutes
    BY <1>3, <1>7 DEF LookUpVersion, At, head
  <2> QED
    BY <1>2, <1>5, <1>6, <1>7, <2>1 DEF LookUpVersion
<1>8. CASE LookUpDocument
  <2>1. head = "shown" /\ r \notin VersionRoutes /\ T # <<>>
    BY <1>3, <1>8 DEF LookUpDocument, At, head
  <2>2. ASSUME NEW t \in {"first", "second"}, request' = [request EXCEPT !.todo = Tail(@), !.target = t]
        PROVE  ReadsInv'
    <3>1. request' \in ReadRequests /\ request'.route = r /\ request'.todo = T /\ request'.code = 0
      BY <1>1, <2>2, RequestMoves DEF r, T
    <3> QED
      BY <1>1, <1>3, <2>1, <3>1, StatementKeeps DEF r
  <2>3. ASSUME catalogued.archived, r \in Burying, request' = [request EXCEPT !.todo = <<"buried">>]
        PROVE  ReadsInv'
    <3>1. request' \in ReadRequests /\ request'.route = r /\ request'.todo = <<"buried">> /\ request'.code = 0
      BY <1>1, <2>3, RequestMoves DEF r
    <3>2. <<"buried">> \in Pending(r) /\ <<"buried">> # <<>> /\ Head(<<"buried">>) = "buried"
      BY <2>3, ShortSequences DEF Pending
    <3>3. HiddenFrom(r, catalogued)
      BY <2>1, <2>3 DEF HiddenFrom
    <3> QED
      BY <1>1, <2>1, <3>1, <3>2, <3>3, StatementKeeps DEF r
  <2>4. ASSUME catalogued.archived, AnswerWith(404) PROVE ReadsInv'
    BY <1>6, <2>1, <2>4 DEF HiddenFrom
  <2> QED
    BY <1>8, <2>2, <2>3, <2>4 DEF LookUpDocument, r
<1>9. CASE LookUpBuried
  <2>1. head = "buried" /\ r \notin VersionRoutes
    BY <1>3, <1>9 DEF LookUpBuried, At, head, Burying, VersionRoutes
  <2>2. (AnswerWith(410) /\ catalogued.purged) \/ AnswerWith(404)
    BY <1>9 DEF LookUpBuried
  <2> QED
    BY <1>2, <1>6, <2>1, <2>2
<1>10. CASE CheckDocument \/ CheckLinks
  <2>1. head \in {"document", "links"}
    BY <1>10 DEF CheckDocument, CheckLinks, At, head
  <2>2. GoOn \/ (AnswerWith(404) /\ HiddenFrom(r, catalogued))
    BY <1>10 DEF CheckDocument, CheckLinks, HiddenFrom
  <2>3. ~(witnessed.gone /\ r \in VersionRoutes) /\ head \notin {"buried", "target"}
    BY <1>2, <2>1
  <2> QED
    BY <1>5, <1>6, <2>2, <2>3
<1>11. CASE LookUpTarget
  <2>1. head = "target" /\ r \notin VersionRoutes
    BY <1>3, <1>11 DEF LookUpTarget, At, head, Measured, VersionRoutes
  <2>2. \/ GoOn /\ ~(request.target = "first" /\ catalogued.purged)
        \/ AnswerWith(410) /\ (catalogued.purged \/ (request.target = "second" /\ catalogued.second = "purged"))
    <3>1. request.target \in {"first", "second"}
      BY <1>2 DEF ReadRequests, Targets
    <3> QED
      BY <1>11, <3>1 DEF LookUpTarget
  <2> QED
    BY <1>2, <1>5, <1>6, <2>1, <2>2
<1>12. CASE FetchRaw \/ FetchSemantic \/ FetchMarkdown \/ FetchBytes
  <2>1. head \in {"raw", "semantic", "markdown", "bytes"}
    BY <1>12 DEF FetchRaw, FetchSemantic, FetchMarkdown, FetchBytes, At, head
  <2>2. GoOn \/ (AnswerWith(404) /\ Lacking(r, catalogued))
    <3>1. CASE FetchRaw
      <4>1. r \in {"extraction", "chunks"}
        BY <1>3, <3>1 DEF FetchRaw, At, head
      <4> QED
        BY <3>1, <4>1 DEF FetchRaw, Lacking
    <3>2. CASE FetchSemantic
      <4>1. r = "semantic"
        BY <1>3, <3>2 DEF FetchSemantic, At, head
      <4> QED
        BY <3>2, <4>1 DEF FetchSemantic, Lacking
    <3>3. CASE FetchMarkdown
      <4>1. r = "markdown"
        BY <1>3, <3>3 DEF FetchMarkdown, At, head
      <4> QED
        BY <3>3, <4>1 DEF FetchMarkdown, Lacking
    <3>4. CASE FetchBytes
      <4>1. r = "raw_file"
        BY <1>3, <3>4 DEF FetchBytes, At, head
      <4> QED
        BY <3>4, <4>1 DEF FetchBytes, Lacking
    <3> QED
      BY <1>12, <3>1, <3>2, <3>3, <3>4
  <2>3. ~(witnessed.gone /\ r \in VersionRoutes) /\ head \notin {"buried", "target"}
    BY <1>2, <2>1
  <2> QED
    BY <1>5, <1>6, <2>2, <2>3
<1> QED
  BY <1>7, <1>8, <1>9, <1>10, <1>11, <1>12 DEF ReadStep

(* What other requests do to a document leaves the answers true: what was   *)
(* purged stays purged.                                                    *)
LEMMA ElsewhereKeeps ==
    ASSUME ReadsInv, UNCHANGED <<access, request>>, Witness,
           catalogued' \in [archived : BOOLEAN, linked : BOOLEAN, progress : Progress,
                            bytes : BOOLEAN, purged : BOOLEAN, second : {"absent", "live", "purged"}],
           catalogued.purged => catalogued'.purged,
           catalogued.second = "purged" => catalogued'.second = "purged"
    PROVE  ReadsInv'
<1>1. /\ request.todo # <<>> =>
            /\ witnessed'.gone = witnessed.gone
            /\ witnessed.hidden => witnessed'.hidden
            /\ witnessed.lacking => witnessed'.lacking
      /\ request.todo = <<>> => witnessed' = witnessed
  <2>1. request.todo # <<>> =>
          witnessed' = [hidden  |-> witnessed.hidden \/ HiddenFrom(request'.route, catalogued'),
                        lacking |-> witnessed.lacking \/ Lacking(request'.route, catalogued'),
                        gone    |-> witnessed.gone]
    BY DEF Witness
  <2>2. request.todo = <<>> => witnessed' = witnessed
    BY DEF Witness
  <2>3. ASSUME request.todo # <<>>
        PROVE  /\ witnessed'.gone = witnessed.gone
               /\ witnessed.hidden => witnessed'.hidden
               /\ witnessed.lacking => witnessed'.lacking
    <3>1. witnessed' = [hidden  |-> witnessed.hidden \/ HiddenFrom(request'.route, catalogued'),
                        lacking |-> witnessed.lacking \/ Lacking(request'.route, catalogued'),
                        gone    |-> witnessed.gone]
      BY <2>1, <2>3
    <3> QED
      BY <3>1
  <2> QED
    BY <2>2, <2>3
<1>2. Pending(request.route)' = Pending(request.route) /\ ReadRequests' = ReadRequests
  BY DEF Pending, ReadRequests, Named, Todos, Targets, Codes
<1>3. AnswersAreTrue'
  BY <1>1 DEF ReadsInv, AnswersAreTrue
<1> QED
  BY <1>1, <1>2, <1>3 DEF ReadsInv

(* A request asked for starts at its first statement, with what is purged    *)
(* by then.                                                                *)
LEMMA AskKeeps ==
    ASSUME ReadsInv, NEW route \in Routes, Ask(route), Witness
    PROVE  ReadsInv'
<1> DEFINE first == StatementsOf(route)
           new == [NotAsked EXCEPT !.route = route, !.todo = first]
<1>1. request.todo = <<>> /\ request' = new /\ UNCHANGED <<access, catalogued, purge>>
  BY DEF Ask
<1>2. /\ first \in Pending(route) /\ first # <<>> /\ Head(first) # "buried"
      /\ route \in VersionRoutes => Head(first) = "version"
  BY FirstStatements
<1>3. first \in Todos /\ route \in Named /\ "first" \in Targets /\ 0 \in Codes
  BY <1>2 DEF Todos, Named, Targets, Codes
<1> HIDE DEF first
<1>4. NotAsked \in ReadRequests /\ NotAsked.code = 0
  <2>1. NotAsked = [route |-> "none", todo |-> <<>>, target |-> "first", code |-> 0]
    BY DEF NotAsked
  <2>2. <<>> \in Todos /\ "none" \in Named
    BY DEF Pending, Todos, Named
  <2> QED
    BY <1>3, <2>1, <2>2 DEF ReadRequests
<1>5. /\ new \in ReadRequests
      /\ new.route = route /\ new.todo = first /\ new.code = 0
  <2>1. new \in ReadRequests
    BY <1>3, <1>4 DEF ReadRequests
  <2>2. new.route = route /\ new.todo = first /\ new.code = NotAsked.code
    BY <1>4 DEF ReadRequests
  <2> QED
    BY <1>4, <2>1, <2>2
<1> HIDE DEF new
<1>6. witnessed'.gone = catalogued'.purged
  <2>1. witnessed' = [hidden  |-> NothingWitnessed.hidden \/ HiddenFrom(request'.route, catalogued'),
                      lacking |-> NothingWitnessed.lacking \/ Lacking(request'.route, catalogued'),
                      gone    |-> catalogued'.purged]
    BY <1>1, <1>2, <1>5 DEF Witness
  <2> QED
    BY <2>1
<1>7. Pending(route)' = Pending(route) /\ ReadRequests' = ReadRequests
  BY DEF Pending, ReadRequests, Named, Todos, Targets, Codes
<1>8. AnswersAreTrue'
  BY <1>1, <1>2, <1>5 DEF AnswersAreTrue
<1> QED
  BY <1>1, <1>2, <1>5, <1>6, <1>7, <1>8 DEF ReadsInv

(* Requests go on as their routes say, and their answers stay true. *)
LEMMA ReadsInductive == ReadsSpec => []ReadsInv
<1>1. ReadsInit => ReadsInv
  <2> SUFFICES ASSUME ReadsInit PROVE ReadsInv
    OBVIOUS
  <2>1. /\ catalogued = [archived |-> FALSE, linked |-> TRUE, progress |-> 0, bytes |-> TRUE,
                         purged |-> FALSE, second |-> "absent"]
        /\ request = [route |-> "none", todo |-> <<>>, target |-> "first", code |-> 0]
        /\ witnessed = [hidden |-> FALSE, lacking |-> FALSE, gone |-> FALSE]
    BY DEF ReadsInit, NotAsked, NothingWitnessed
  <2>2. <<>> \in Pending("none") /\ <<>> \in Todos /\ "none" \in Named /\ "first" \in Targets /\ 0 \in Codes
    BY DEF Pending, Todos, Named, Targets, Codes
  <2>3. request \in ReadRequests
    BY <2>1, <2>2 DEF ReadRequests
  <2>4. catalogued \in [archived : BOOLEAN, linked : BOOLEAN, progress : Progress,
                        bytes : BOOLEAN, purged : BOOLEAN, second : {"absent", "live", "purged"}]
    BY <2>1 DEF Progress
  <2>5. ~witnessed.gone /\ request.code = 0 /\ request.todo = <<>> /\ request.route = "none"
    BY <2>1
  <2> QED
    BY <2>2, <2>3, <2>4, <2>5 DEF ReadsInv, AnswersAreTrue
<1>2. ReadsInv /\ [ReadsNext]_readVars => ReadsInv'
  <2> SUFFICES ASSUME ReadsInv, [ReadsNext]_readVars PROVE ReadsInv'
    OBVIOUS
  <2> DEFINE Rows == [archived : BOOLEAN, linked : BOOLEAN, progress : Progress,
                      bytes : BOOLEAN, purged : BOOLEAN, second : {"absent", "live", "purged"}]
  <2>1. catalogued \in Rows
    BY DEF ReadsInv
  <2>2. ASSUME NEW row \in Rows, Elsewhere(row), Witness,
               catalogued.purged => row.purged, catalogued.second = "purged" => row.second = "purged"
        PROVE  ReadsInv'
    BY <2>2, ElsewhereKeeps DEF Elsewhere
  <2>3. CASE ArchiveRow /\ Witness
    <3>1. PICK row : row = [catalogued EXCEPT !.archived = TRUE]
      OBVIOUS
    <3>2. row \in Rows
      BY <2>1, <3>1
    <3>3. row.purged = catalogued.purged /\ row.second = catalogued.second
      BY <2>1, <3>1
    <3>4. Elsewhere(row)
      BY <2>3, <3>1 DEF ArchiveRow
    <3> QED
      BY <2>2, <2>3, <3>2, <3>3, <3>4
  <2>4. CASE UnarchiveRow /\ Witness
    <3>1. PICK row : row = [catalogued EXCEPT !.archived = FALSE]
      OBVIOUS
    <3>2. row \in Rows
      BY <2>1, <3>1
    <3>3. row.purged = catalogued.purged /\ row.second = catalogued.second
      BY <2>1, <3>1
    <3>4. Elsewhere(row)
      BY <2>4, <3>1 DEF UnarchiveRow
    <3> QED
      BY <2>2, <2>4, <3>2, <3>3, <3>4
  <2>5. CASE LinkCaller /\ Witness
    <3>1. PICK row : row = [catalogued EXCEPT !.linked = TRUE]
      OBVIOUS
    <3>2. row \in Rows
      BY <2>1, <3>1
    <3>3. row.purged = catalogued.purged /\ row.second = catalogued.second
      BY <2>1, <3>1
    <3>4. Elsewhere(row)
      BY <2>5, <3>1 DEF LinkCaller
    <3> QED
      BY <2>2, <2>5, <3>2, <3>3, <3>4
  <2>6. CASE UnlinkCaller /\ Witness
    <3>1. PICK row : row = [catalogued EXCEPT !.linked = FALSE]
      OBVIOUS
    <3>2. row \in Rows
      BY <2>1, <3>1
    <3>3. row.purged = catalogued.purged /\ row.second = catalogued.second
      BY <2>1, <3>1
    <3>4. Elsewhere(row)
      BY <2>6, <3>1 DEF UnlinkCaller
    <3> QED
      BY <2>2, <2>6, <3>2, <3>3, <3>4
  <2>7. CASE AppendVersion /\ Witness
    <3>1. PICK row : row = [catalogued EXCEPT !.second = "live"]
      OBVIOUS
    <3>2. row \in Rows
      BY <2>1, <3>1
    <3>3. row.purged = catalogued.purged /\ catalogued.second = "absent"
      BY <2>1, <2>7, <3>1 DEF AppendVersion
    <3>4. Elsewhere(row)
      BY <2>7, <3>1 DEF AppendVersion
    <3> QED
      BY <2>2, <2>7, <3>2, <3>3, <3>4
  <2>8. CASE (ExtractFirst \/ GenerateFirst) /\ Witness
    <3>1. PICK p \in {1, 2, 3} : Elsewhere([catalogued EXCEPT !.progress = p])
      BY <2>8 DEF ExtractFirst, GenerateFirst
    <3>2. PICK row : row = [catalogued EXCEPT !.progress = p]
      OBVIOUS
    <3>3. p \in Progress
      BY DEF Progress
    <3>4. row \in Rows
      BY <2>1, <3>2, <3>3
    <3>5. row.purged = catalogued.purged /\ row.second = catalogued.second
      BY <2>1, <3>2
    <3> QED
      BY <2>2, <2>8, <3>1, <3>2, <3>4, <3>5
  <2>9. CASE PurgeListed /\ Witness
    BY <2>1, <2>9, ElsewhereKeeps DEF PurgeListed
  <2>10. CASE PurgeStatement /\ Witness
    <3>1. UNCHANGED <<access, request>>
      BY <2>10 DEF PurgeStatement
    <3>2. CASE \E b \in {FALSE, catalogued.bytes} : catalogued' = [catalogued EXCEPT !.bytes = b]
      <4>1. PICK b \in BOOLEAN : catalogued' = [catalogued EXCEPT !.bytes = b]
        BY <2>1, <3>2
      <4>2. catalogued' \in Rows
        BY <2>1, <4>1
      <4>3. catalogued'.purged = catalogued.purged /\ catalogued'.second = catalogued.second
        BY <2>1, <4>1
      <4> QED
        BY <2>10, <3>1, <4>2, <4>3, ElsewhereKeeps
    <3>3. CASE catalogued' = [catalogued EXCEPT !.purged = TRUE]
      <4>1. catalogued' \in Rows
        BY <2>1, <3>3
      <4>2. catalogued'.purged /\ catalogued'.second = catalogued.second
        BY <2>1, <3>3
      <4> QED
        BY <2>10, <3>1, <4>1, <4>2, ElsewhereKeeps
    <3>4. CASE catalogued' = [catalogued EXCEPT !.second = "purged"]
      <4>1. catalogued' \in Rows
        BY <2>1, <3>4
      <4>2. catalogued'.purged = catalogued.purged /\ catalogued'.second = "purged"
        BY <2>1, <3>4
      <4> QED
        BY <2>10, <3>1, <4>1, <4>2, ElsewhereKeeps
    <3> QED
      BY <2>10, <3>2, <3>3, <3>4 DEF PurgeStatement
  <2>11. CASE ReadsCrash /\ Witness
    <3>1. request' = NotAsked /\ UNCHANGED <<access, catalogued>>
      BY <2>11 DEF ReadsCrash
    <3>2. NotAsked = [route |-> "none", todo |-> <<>>, target |-> "first", code |-> 0]
      BY DEF NotAsked
    <3>3. <<>> \in Pending("none") /\ <<>> \in Todos /\ "none" \in Named /\ "first" \in Targets /\ 0 \in Codes
      BY DEF Pending, Todos, Named, Targets, Codes
    <3>4. NotAsked \in ReadRequests /\ NotAsked.todo = <<>> /\ NotAsked.route = "none" /\ NotAsked.code = 0
      BY <3>2, <3>3 DEF ReadRequests
    <3>5. witnessed'.gone = witnessed.gone
      BY <2>11, <3>1, <3>4 DEF Witness
    <3>6. Pending("none")' = Pending("none") /\ ReadRequests' = ReadRequests
      BY DEF Pending, ReadRequests, Named, Todos, Targets, Codes
    <3>7. AnswersAreTrue'
      BY <3>1, <3>4 DEF AnswersAreTrue
    <3> QED
      BY <2>1, <3>1, <3>3, <3>4, <3>5, <3>6, <3>7 DEF ReadsInv
  <2>12. CASE \E route \in Routes : Ask(route) /\ Witness
    BY <2>12, AskKeeps
  <2>13. CASE ReadStep /\ Witness
    BY <2>13, StatementSteps
  <2>14. CASE UNCHANGED readVars
    <3>1. UNCHANGED <<access, catalogued, request, witnessed>>
      BY <2>14 DEF readVars
    <3>2. AnswersAreTrue'
      BY <3>1 DEF ReadsInv, AnswersAreTrue
    <3>3. Pending(request.route)' = Pending(request.route) /\ ReadRequests' = ReadRequests
      BY <3>1 DEF Pending, ReadRequests, Named, Todos, Targets, Codes
    <3> QED
      BY <3>1, <3>2, <3>3 DEF ReadsInv
  <2> QED
    BY <2>3, <2>4, <2>5, <2>6, <2>7, <2>8, <2>9, <2>10, <2>11, <2>12, <2>13, <2>14 DEF ReadsNext
<1> QED
  BY <1>1, <1>2, PTL DEF ReadsSpec

(* Whatever is uploaded, generated, shared, archived and purged during a    *)
(* request, its answer is true of the document at some moment of it.       *)
THEOREM ReadsTellTheTruth == ReadsSpec => []AnswersAreTrue
<1>1. ReadsInv => AnswersAreTrue
  BY DEF ReadsInv
<1> QED
  BY <1>1, ReadsInductive, PTL

-----------------------------------------------------------------------------
(* Requests with a key.                                                    *)

Methods == Generators \cup {NoMethod}
KeyedStages ==
    {"idle", "check", "run", "claim", "parse", "extracted", "raw", "version", "generate", "ready",
     "keep", "done"}
KeyedCodes == {0, 200, 404, 409, 422, 500, 502}

SentRequests ==
    [route : KeyedRoutes, key : Keys, method : Methods, stage : KeyedStages, read : Statuses,
     body : Bodies, code : KeyedCodes, promise : Bodies]

KeyedVersions == [status : Statuses, extraction : Bodies, semantic : Bodies]

(* What may be answered on a route to a request that names this method. *)
Fits(route, method, body) ==
    /\ body # Nothing
    /\ method # NoMethod => body.method = method
    /\ route = "semantic" <=> body.method # NoMethod

(* What is wrong with no request: it asks for a method only where one is    *)
(* read, is at a statement of its route, and holds what fits it.           *)
SoundRequest(q) ==
    /\ q.route # "semantic" => q.method = NoMethod
    /\ q.stage \in {"claim", "parse", "extracted"} => q.route # "semantic"
    /\ q.stage \in {"raw", "version", "generate", "ready"} => q.route = "semantic"
    /\ q.stage \in {"extracted", "ready", "keep"} \/ (q.stage = "done" /\ q.code = 200) =>
          Fits(q.route, q.method, q.body)
    /\ q.stage = "done" /\ q.code = 200 /\ q.promise # Nothing => q.body = q.promise

(* A promised answer is the one kept, and nobody is past the look for it:    *)
(* nothing will replace it.  A request under way with a promise has a key.  *)
PromiseInv ==
    /\ \A s \in Slots, m \in Methods : promised[<<s, m>>] # Nothing =>
          /\ kept[s].hash = m /\ kept[s].body = promised[<<s, m>>]
          /\ \A c \in Clients : SlotOf(sent[c]) = s /\ InFlight(c) => sent[c].stage = "check"
    /\ \A c \in Clients : InFlight(c) /\ sent[c].promise # Nothing =>
          sent[c].key # NoKey /\ sent[c].promise = promised[<<SlotOf(sent[c]), sent[c].method>>]

KeyedInv ==
    /\ keyed \in KeyedVersions
    /\ keyed.semantic # Nothing => keyed.semantic.method \in Generators
    /\ kept \in [Slots -> [hash : Methods, body : Bodies]]
    /\ sent \in [Clients -> SentRequests]
    /\ promised \in [Slots \X Methods -> Bodies]
    /\ runs \in 0..MaxRuns
    /\ \A s \in Slots : kept[s].body # Nothing => Fits(s[2], kept[s].hash, kept[s].body)
    /\ \A c \in Clients : SoundRequest(sent[c])
    /\ PromiseInv

(* Nothing is said of any other request, and this one asks what it asked. *)
MovesOnly(c) ==
    /\ sent' \in [Clients -> SentRequests]
    /\ \A b \in Clients : b # c => sent'[b] = sent[b]

AsksTheSame(c) ==
    /\ sent'[c].route = sent[c].route /\ sent'[c].key = sent[c].key
    /\ sent'[c].method = sent[c].method /\ sent'[c].promise = sent[c].promise

(* One request moves, and neither what is kept nor what is promised. *)
LEMMA OneRequestMoves ==
    ASSUME KeyedInv, NEW c \in Clients, MovesOnly(c), UNCHANGED <<kept, promised>>,
           keyed' \in KeyedVersions,
           keyed'.semantic # Nothing => keyed'.semantic.method \in Generators,
           runs' \in 0..MaxRuns,
           SoundRequest(sent'[c]),
           sent'[c].stage \notin {"idle", "done", "check"} =>
              \A s \in Slots, m \in Methods : SlotOf(sent'[c]) = s => promised[<<s, m>>] = Nothing,
           sent'[c].stage \notin {"idle", "done"} /\ sent'[c].promise # Nothing =>
              /\ sent'[c].key # NoKey
              /\ sent'[c].promise = promised[<<SlotOf(sent'[c]), sent'[c].method>>]
    PROVE  KeyedInv'
<1>1. /\ sent' \in [Clients -> SentRequests]
      /\ \A b \in Clients : b # c => sent'[b] = sent[b]
  BY DEF MovesOnly
<1>2. \A b \in Clients : SoundRequest(sent[b])'
  BY <1>1 DEF KeyedInv, SoundRequest, Fits, Nothing
<1>3. \A s \in Slots : kept'[s].body # Nothing => Fits(s[2], kept'[s].hash, kept'[s].body)
  BY DEF KeyedInv
<1>4. /\ \A b \in Clients : b # c => SlotOf(sent'[b]) = SlotOf(sent[b]) /\ (InFlight(b)' <=> InFlight(b))
      /\ InFlight(c)' <=> sent'[c].stage \notin {"idle", "done"}
  BY <1>1 DEF SlotOf, InFlight
<1>5. PromiseInv'
  <2>1. ASSUME NEW s \in Slots, NEW m \in Methods, promised[<<s, m>>] # Nothing
        PROVE  /\ kept[s].hash = m /\ kept[s].body = promised[<<s, m>>]
               /\ \A b \in Clients : SlotOf(sent'[b]) = s /\ InFlight(b)' => sent'[b].stage = "check"
    <3>1. /\ kept[s].hash = m /\ kept[s].body = promised[<<s, m>>]
          /\ \A b \in Clients : SlotOf(sent[b]) = s /\ InFlight(b) => sent[b].stage = "check"
      BY <2>1 DEF KeyedInv, PromiseInv
    <3>2. SlotOf(sent'[c]) = s /\ InFlight(c)' => sent'[c].stage = "check"
      BY <1>1, <1>4, <2>1
    <3> QED
      BY <1>1, <1>4, <3>1, <3>2
  <2>2. ASSUME NEW b \in Clients, InFlight(b)', sent'[b].promise # Nothing
        PROVE  sent'[b].key # NoKey /\ sent'[b].promise = promised[<<SlotOf(sent'[b]), sent'[b].method>>]
    BY <1>1, <1>4, <2>2 DEF KeyedInv, PromiseInv
  <2>3. Nothing' = Nothing /\ Slots' = Slots /\ Methods' = Methods
    BY DEF Nothing, Slots, Methods
  <2> QED
    BY <2>1, <2>2, <2>3 DEF PromiseInv, SlotOf
<1> QED
  BY <1>1, <1>2, <1>3, <1>5 DEF KeyedInv, KeyedVersions

(* A request under way that goes on, asking what it asked, past the look.   *)
LEMMA RequestGoesOn ==
    ASSUME KeyedInv, NEW c \in Clients, MovesOnly(c), AsksTheSame(c), UNCHANGED <<kept, promised>>,
           InFlight(c), sent[c].stage # "check",
           keyed' \in KeyedVersions,
           keyed'.semantic # Nothing => keyed'.semantic.method \in Generators,
           runs' \in 0..MaxRuns,
           SoundRequest(sent'[c])
    PROVE  KeyedInv'
<1>1. \A s \in Slots, m \in Methods : SlotOf(sent'[c]) = s => promised[<<s, m>>] = Nothing
  BY DEF KeyedInv, PromiseInv, AsksTheSame, SlotOf
<1>2. sent'[c].promise # Nothing =>
         /\ sent'[c].key # NoKey
         /\ sent'[c].promise = promised[<<SlotOf(sent'[c]), sent'[c].method>>]
  BY DEF KeyedInv, PromiseInv, AsksTheSame, SlotOf
<1> QED
  BY <1>1, <1>2, OneRequestMoves

(* The empty answer and the request before the first have their shape. *)
LEMMA NothingIsABody == Nothing \in Bodies /\ NotSent \in SentRequests
<1>1. Nothing \in Bodies
  BY KeyedRequestsAssumption DEF Nothing, Bodies
<1>2. "STORED" \in Statuses
  BY DEF Statuses
<1>3. NotSent.key \in Keys /\ NotSent.method \in Methods
  BY KeyedRequestsAssumption DEF NotSent, Methods
<1> QED
  BY <1>1, <1>2, <1>3 DEF NotSent, SentRequests, KeyedRoutes, KeyedStages, KeyedCodes

(* A request goes on to its next statement. *)
LEMMA ContinueMoves ==
    ASSUME KeyedInv, NEW c \in Clients, NEW stage \in KeyedStages, ContinueWith(c, stage)
    PROVE  /\ MovesOnly(c) /\ AsksTheSame(c)
           /\ sent'[c].stage = stage /\ sent'[c].body = sent[c].body
<1> DEFINE new == [sent[c] EXCEPT !.stage = stage]
<1>1. sent \in [Clients -> SentRequests] /\ sent[c] \in SentRequests
  BY DEF KeyedInv
<1>2. new \in SentRequests
  BY <1>1 DEF SentRequests
<1>3. new.stage = stage /\ new.body = sent[c].body /\ new.route = sent[c].route /\ new.key = sent[c].key
  BY <1>1 DEF SentRequests
<1>4. new.method = sent[c].method /\ new.promise = sent[c].promise
  BY <1>1 DEF SentRequests
<1>5. sent' = [sent EXCEPT ![c] = new]
  BY <1>1 DEF ContinueWith
<1> HIDE DEF new
<1> QED
  BY <1>1, <1>2, <1>3, <1>4, <1>5 DEF MovesOnly, AsksTheSame

(* A request is answered well. *)
LEMMA AnswerMoves ==
    ASSUME KeyedInv, NEW c \in Clients, NEW body \in Bodies, AnswerWell(c, body)
    PROVE  /\ MovesOnly(c) /\ AsksTheSame(c)
           /\ sent'[c].stage = "done" /\ sent'[c].code = 200 /\ sent'[c].body = body
<1> DEFINE new == [sent[c] EXCEPT !.stage = "done", !.code = 200, !.body = body]
<1>1. sent \in [Clients -> SentRequests] /\ sent[c] \in SentRequests
  BY DEF KeyedInv
<1>2. "done" \in KeyedStages /\ 200 \in KeyedCodes
  BY DEF KeyedStages, KeyedCodes
<1>3. new \in SentRequests
  BY <1>1, <1>2 DEF SentRequests
<1>4. new.stage = "done" /\ new.code = 200 /\ new.body = body
  BY <1>1 DEF SentRequests
<1>5. new.route = sent[c].route /\ new.key = sent[c].key
  BY <1>1 DEF SentRequests
<1>6. new.method = sent[c].method /\ new.promise = sent[c].promise
  BY <1>1 DEF SentRequests
<1>7. sent' = [sent EXCEPT ![c] = new]
  BY <1>1 DEF AnswerWell
<1> HIDE DEF new
<1> QED
  BY <1>1, <1>3, <1>4, <1>5, <1>6, <1>7 DEF MovesOnly, AsksTheSame

(* An error leaves the invariant as it is, whatever was done before it. *)
LEMMA ErrorKeeps ==
    ASSUME KeyedInv, NEW c \in Clients, NEW code \in KeyedCodes \ {200}, AnswerError(c, code),
           UNCHANGED <<kept, promised>>,
           keyed' \in KeyedVersions,
           keyed'.semantic # Nothing => keyed'.semantic.method \in Generators,
           runs' \in 0..MaxRuns
    PROVE  KeyedInv'
<1> DEFINE new == [NotSent EXCEPT !.stage = "done", !.code = code]
<1>1. sent \in [Clients -> SentRequests] /\ NotSent \in SentRequests
  BY NothingIsABody DEF KeyedInv
<1>2. "done" \in KeyedStages
  BY DEF KeyedStages
<1>3. new \in SentRequests
  BY <1>1, <1>2 DEF SentRequests
<1>4. new.stage = "done" /\ new.code = code /\ new.method = NoMethod
  BY DEF NotSent
<1>5. sent' = [sent EXCEPT ![c] = new]
  BY DEF AnswerError
<1> HIDE DEF new
<1>6. MovesOnly(c)
  BY <1>1, <1>3, <1>5 DEF MovesOnly
<1>7. sent'[c] = new
  BY <1>1, <1>5
<1>8. SoundRequest(sent'[c])
  BY <1>4, <1>7 DEF SoundRequest
<1> QED
  BY <1>4, <1>6, <1>7, <1>8, OneRequestMoves

(* What is known of any request. *)
LEMMA SentFacts ==
    ASSUME KeyedInv, NEW c \in Clients
    PROVE  /\ sent[c] \in SentRequests /\ SoundRequest(sent[c])
           /\ sent[c].route \in KeyedRoutes /\ sent[c].key \in Keys /\ sent[c].method \in Methods
           /\ sent[c].body \in Bodies
           /\ sent[c].key # NoKey => SlotOf(sent[c]) \in Slots /\ SlotOf(sent[c])[2] = sent[c].route
<1>1. sent[c] \in SentRequests
  BY DEF KeyedInv
<1>2. /\ sent[c].route \in KeyedRoutes /\ sent[c].key \in Keys /\ sent[c].method \in Methods
      /\ sent[c].body \in Bodies
  BY <1>1 DEF SentRequests
<1> QED
  BY <1>1, <1>2 DEF KeyedInv, Slots, SlotOf

(* A request starts with what its key promises at that moment. *)
LEMMA SendKeeps ==
    ASSUME KeyedInv, NEW c \in Clients, NEW route \in KeyedRoutes, NEW key \in Keys,
           NEW method \in Methods, Send(c, route, key, method)
    PROVE  KeyedInv'
<1> DEFINE q == [NotSent EXCEPT !.route = route, !.key = key, !.method = method, !.stage = "check"]
           p == IF key = NoKey THEN Nothing ELSE promised[<<SlotOf(q), method>>]
           new == [q EXCEPT !.promise = p]
<1>1. sent \in [Clients -> SentRequests] /\ NotSent \in SentRequests
  BY NothingIsABody DEF KeyedInv
<1>2. "check" \in KeyedStages
  BY DEF KeyedStages
<1>3. q \in SentRequests
  BY <1>1, <1>2 DEF SentRequests
<1>4. q.route = route /\ q.key = key /\ q.method = method /\ q.stage = "check"
  BY DEF NotSent
<1>5. SlotOf(q) = <<key, route>>
  BY <1>4 DEF SlotOf
<1>6. sent' = [sent EXCEPT ![c] = new] /\ UNCHANGED <<keyed, kept, promised, runs>>
      /\ (route # "semantic" => method = NoMethod)
  BY DEF Send
<1> HIDE DEF q
<1>7. p \in Bodies
  <2>1. CASE key = NoKey
    BY <2>1, NothingIsABody
  <2>2. CASE key # NoKey
    <3>1. <<key, route>> \in Slots
      BY <2>2 DEF Slots
    <3> QED
      BY <2>2, <3>1, <1>5 DEF KeyedInv
  <2> QED
    BY <2>1, <2>2
<1>8. p # Nothing => key # NoKey /\ p = promised[<<<<key, route>>, method>>]
  BY <1>5
<1> HIDE DEF p
<1>9. new \in SentRequests
  BY <1>3, <1>7 DEF SentRequests
<1>10. new.promise = p /\ new.route = route /\ new.key = key /\ new.method = method
  BY <1>3, <1>4 DEF SentRequests
<1>11. new.stage = "check"
  BY <1>3, <1>4 DEF SentRequests
<1> HIDE DEF new
<1>12. MovesOnly(c) /\ sent'[c] = new
  BY <1>1, <1>6, <1>9 DEF MovesOnly
<1>13. SoundRequest(sent'[c])
  BY <1>6, <1>10, <1>11, <1>12 DEF SoundRequest
<1>14. SlotOf(sent'[c]) = <<key, route>>
  BY <1>10, <1>12 DEF SlotOf
<1>15. /\ keyed' \in KeyedVersions /\ runs' \in 0..MaxRuns
       /\ keyed'.semantic # Nothing => keyed'.semantic.method \in Generators
  BY <1>6 DEF KeyedInv, KeyedVersions
<1> QED
  BY <1>6, <1>8, <1>10, <1>11, <1>12, <1>13, <1>14, <1>15, OneRequestMoves

(* The look for a kept answer: no promise is missed, and a replay is one. *)
LEMMA CheckKeyKeeps ==
    ASSUME KeyedInv, NEW c \in Clients, CheckKey(c)
    PROVE  KeyedInv'
<1> DEFINE q == sent[c]
           row == IF q.key = NoKey THEN Unkept ELSE kept[SlotOf(q)]
<1>1. /\ q \in SentRequests /\ SoundRequest(q) /\ q.route \in KeyedRoutes /\ q.key \in Keys
      /\ q.method \in Methods
      /\ q.key # NoKey => SlotOf(q) \in Slots /\ SlotOf(q)[2] = q.route
  BY SentFacts
<1>2. InFlight(c) /\ q.stage = "check" /\ UNCHANGED <<keyed, kept, promised, runs>>
  BY DEF CheckKey, Stage
<1>3. /\ keyed' \in KeyedVersions /\ runs' \in 0..MaxRuns
      /\ keyed'.semantic # Nothing => keyed'.semantic.method \in Generators
  BY <1>2 DEF KeyedInv, KeyedVersions
<1>4. \/ row.body = Nothing /\ ContinueWith(c, "run")
      \/ row.body # Nothing /\ row.hash # HashOf(q) /\ AnswerError(c, 422)
      \/ row.body # Nothing /\ row.hash = HashOf(q) /\ AnswerWell(c, row.body)
  BY DEF CheckKey
<1>5. CASE row.body = Nothing /\ ContinueWith(c, "run")
  <2>1. "run" \in KeyedStages
    BY DEF KeyedStages
  <2>2. MovesOnly(c) /\ AsksTheSame(c) /\ sent'[c].stage = "run"
    BY <1>5, <2>1, ContinueMoves
  <2>3. SoundRequest(sent'[c])
    BY <1>1, <2>2 DEF SoundRequest, AsksTheSame
  <2>4. ASSUME NEW s \in Slots, NEW m \in Methods, SlotOf(sent'[c]) = s
        PROVE  promised[<<s, m>>] = Nothing
    <3>1. SlotOf(q) = s
      BY <2>2, <2>4 DEF AsksTheSame, SlotOf
    <3>2. q.key # NoKey
      BY <2>4, <3>1 DEF Slots, SlotOf
    <3>3. kept[s].body = Nothing
      BY <1>5, <3>1, <3>2
    <3> QED
      BY <3>3 DEF KeyedInv, PromiseInv
  <2>5. sent'[c].promise # Nothing =>
           /\ sent'[c].key # NoKey
           /\ sent'[c].promise = promised[<<SlotOf(sent'[c]), sent'[c].method>>]
    BY <1>2, <2>2 DEF KeyedInv, PromiseInv, AsksTheSame, SlotOf
  <2> HIDE DEF row
  <2> QED
    BY <1>2, <1>3, <2>2, <2>3, <2>4, <2>5, OneRequestMoves
<1>6. CASE row.body # Nothing /\ row.hash # HashOf(q) /\ AnswerError(c, 422)
  <2>1. 422 \in KeyedCodes \ {200}
    BY DEF KeyedCodes
  <2> HIDE DEF row
  <2> QED
    BY <1>2, <1>3, <1>6, <2>1, ErrorKeeps
<1>7. CASE row.body # Nothing /\ row.hash = HashOf(q) /\ AnswerWell(c, row.body)
  <2>1. q.key # NoKey
    BY <1>7 DEF Unkept
  <2>2. row = kept[SlotOf(q)] /\ SlotOf(q) \in Slots /\ SlotOf(q)[2] = q.route
    BY <1>1, <2>1
  <2> HIDE DEF row
  <2>3. row.body \in Bodies
    BY <2>2 DEF KeyedInv
  <2>4. Fits(q.route, q.method, row.body)
    BY <1>7, <2>2 DEF KeyedInv, HashOf
  <2>5. q.promise # Nothing => row.body = q.promise
    BY <1>1, <1>2, <2>2 DEF KeyedInv, PromiseInv
  <2>6. /\ MovesOnly(c) /\ AsksTheSame(c)
        /\ sent'[c].stage = "done" /\ sent'[c].code = 200 /\ sent'[c].body = row.body
    BY <1>7, <2>3, AnswerMoves
  <2>7. SoundRequest(sent'[c])
    BY <1>1, <2>4, <2>5, <2>6 DEF SoundRequest, AsksTheSame
  <2> QED
    BY <1>2, <1>3, <2>6, <2>7, OneRequestMoves
<1> QED
  BY <1>4, <1>5, <1>6, <1>7

(* A request under way past the look goes on and nothing is done.          *)
LEMMA GoingOnKeeps ==
    ASSUME KeyedInv, NEW c \in Clients, NEW stage \in KeyedStages, ContinueWith(c, stage),
           UNCHANGED <<kept, promised>>, InFlight(c), sent[c].stage # "check",
           stage \notin {"idle", "done", "check"},
           keyed' \in KeyedVersions,
           keyed'.semantic # Nothing => keyed'.semantic.method \in Generators,
           runs' \in 0..MaxRuns,
           stage \in {"claim", "parse", "extracted"} => sent[c].route # "semantic",
           stage \in {"raw", "version", "generate", "ready"} => sent[c].route = "semantic",
           stage \in {"extracted", "ready", "keep"} =>
              Fits(sent[c].route, sent[c].method, sent[c].body)
    PROVE  KeyedInv'
<1>1. MovesOnly(c) /\ AsksTheSame(c) /\ sent'[c].stage = stage /\ sent'[c].body = sent[c].body
  BY ContinueMoves
<1>2. SoundRequest(sent[c])
  BY SentFacts
<1>3. SoundRequest(sent'[c])
  BY <1>1, <1>2 DEF SoundRequest, AsksTheSame
<1> QED
  BY <1>1, <1>3, RequestGoesOn

(* The version as it is: what the lemmas above ask of it.                  *)
LEMMA VersionAsItWas ==
    ASSUME KeyedInv, UNCHANGED <<keyed, runs>>
    PROVE  /\ keyed' \in KeyedVersions /\ runs' \in 0..MaxRuns
           /\ keyed'.semantic # Nothing => keyed'.semantic.method \in Generators
  BY DEF KeyedInv, KeyedVersions

(* The status is read and claimed. *)
LEMMA ClaimsKeep ==
    ASSUME KeyedInv, NEW c \in Clients, CheckFailed(c) \/ ClaimExtraction(c)
    PROVE  KeyedInv'
<1>1. SoundRequest(sent[c]) /\ sent[c].route \in KeyedRoutes
  BY SentFacts
<1>2. {"claim", "parse"} \subseteq KeyedStages /\ 409 \in KeyedCodes \ {200} /\ "EXTRACTING" \in Statuses
  BY DEF KeyedStages, KeyedCodes, Statuses
<1>3. CASE CheckFailed(c)
  <2>1. /\ InFlight(c) /\ sent[c].stage = "run" /\ sent[c].route = "retry"
        /\ UNCHANGED <<keyed, kept, promised, runs>>
        /\ ContinueWith(c, "claim") \/ AnswerError(c, 409)
    BY <1>3 DEF CheckFailed, Stage
  <2>2. CASE ContinueWith(c, "claim")
    BY <1>2, <2>1, <2>2, VersionAsItWas, GoingOnKeeps
  <2>3. CASE AnswerError(c, 409)
    BY <1>2, <2>1, <2>3, VersionAsItWas, ErrorKeeps
  <2> QED
    BY <2>1, <2>2, <2>3
<1>4. CASE ClaimExtraction(c)
  <2>1. /\ InFlight(c) /\ sent[c].stage \in {"run", "claim"} /\ sent[c].route # "semantic"
        /\ UNCHANGED <<kept, promised, runs>>
        /\ \/ keyed' = [keyed EXCEPT !.status = "EXTRACTING"] /\ ContinueWith(c, "parse")
           \/ UNCHANGED keyed /\ AnswerError(c, 409)
    BY <1>1, <1>4 DEF ClaimExtraction, Stage, SoundRequest
  <2>2. CASE keyed' = [keyed EXCEPT !.status = "EXTRACTING"] /\ ContinueWith(c, "parse")
    <3>1. /\ keyed' \in KeyedVersions /\ runs' \in 0..MaxRuns
          /\ keyed'.semantic # Nothing => keyed'.semantic.method \in Generators
      BY <1>2, <2>1, <2>2 DEF KeyedInv, KeyedVersions
    <3> QED
      BY <1>2, <2>1, <2>2, <3>1, GoingOnKeeps
  <2>3. CASE UNCHANGED keyed /\ AnswerError(c, 409)
    BY <1>2, <2>1, <2>3, VersionAsItWas, ErrorKeeps
  <2> QED
    BY <2>1, <2>2, <2>3
<1> QED
  BY <1>3, <1>4

(* What a run makes is an answer that is not empty.                        *)
LEMMA MadeIsABody ==
    ASSUME NEW run \in 0..MaxRuns, NEW method \in Methods, run < MaxRuns
    PROVE  /\ [method |-> method, run |-> run + 1] \in Bodies
           /\ [method |-> method, run |-> run + 1] # Nothing
           /\ run + 1 \in 0..MaxRuns
<1>1. run + 1 \in 0..(MaxRuns + 1) /\ run + 1 # 0 /\ run + 1 \in 0..MaxRuns
  BY KeyedRequestsAssumption
<1>2. [method |-> method, run |-> run + 1].run # Nothing.run
  BY <1>1 DEF Nothing
<1> QED
  BY <1>1, <1>2 DEF Bodies, Methods

(* A run of the parser makes an answer, or fails. *)
LEMMA ParseKeeps ==
    ASSUME KeyedInv, NEW c \in Clients, Parse(c)
    PROVE  KeyedInv'
<1>1. SoundRequest(sent[c]) /\ sent[c] \in SentRequests /\ sent \in [Clients -> SentRequests]
  BY SentFacts DEF KeyedInv
<1>2. InFlight(c) /\ sent[c].stage = "parse" /\ sent[c].route # "semantic" /\ UNCHANGED <<kept, promised>>
  BY <1>1 DEF Parse, Stage, SoundRequest
<1>3. CASE /\ keyed' = [keyed EXCEPT !.status = "FAILED"]
           /\ AnswerError(c, 422)
           /\ UNCHANGED runs
  <2>1. 422 \in KeyedCodes \ {200} /\ "FAILED" \in Statuses
    BY DEF KeyedCodes, Statuses
  <2>2. /\ keyed' \in KeyedVersions /\ runs' \in 0..MaxRuns
        /\ keyed'.semantic # Nothing => keyed'.semantic.method \in Generators
    BY <1>3, <2>1 DEF KeyedInv, KeyedVersions
  <2> QED
    BY <1>2, <1>3, <2>1, <2>2, ErrorKeeps
<1>4. CASE /\ runs < MaxRuns
           /\ runs' = runs + 1
           /\ keyed' = [keyed EXCEPT !.extraction = [method |-> NoMethod, run |-> runs + 1]]
           /\ sent' = [sent EXCEPT ![c].stage = "extracted",
                                   ![c].body = [method |-> NoMethod, run |-> runs + 1]]
  <2> DEFINE made == [method |-> NoMethod, run |-> runs + 1]
             new == [sent[c] EXCEPT !.stage = "extracted", !.body = made]
  <2>1. made \in Bodies /\ made # Nothing /\ runs + 1 \in 0..MaxRuns
    BY <1>4, MadeIsABody DEF KeyedInv, Methods
  <2>2. made.method = NoMethod
    OBVIOUS
  <2>3. keyed' = [keyed EXCEPT !.extraction = made]
    BY <1>4
  <2>4. sent' = [sent EXCEPT ![c] = new]
    BY <1>1, <1>4
  <2> HIDE DEF made
  <2>5. "extracted" \in KeyedStages
    BY DEF KeyedStages
  <2>6. new \in SentRequests
    BY <1>1, <2>1, <2>5 DEF SentRequests
  <2>7. new.stage = "extracted" /\ new.body = made /\ new.route = sent[c].route
    BY <1>1 DEF SentRequests
  <2>8. new.key = sent[c].key /\ new.method = sent[c].method /\ new.promise = sent[c].promise
    BY <1>1 DEF SentRequests
  <2> HIDE DEF new
  <2>9. MovesOnly(c) /\ AsksTheSame(c) /\ sent'[c] = new
    BY <1>1, <2>4, <2>6, <2>7, <2>8 DEF MovesOnly, AsksTheSame
  <2>10. SoundRequest(sent'[c])
    BY <1>1, <1>2, <2>1, <2>2, <2>7, <2>8, <2>9 DEF SoundRequest, Fits
  <2>11. keyed' \in KeyedVersions
    BY <2>1, <2>3 DEF KeyedInv, KeyedVersions
  <2>12. keyed'.semantic # Nothing => keyed'.semantic.method \in Generators
    BY <2>3 DEF KeyedInv
  <2> QED
    BY <1>2, <1>4, <2>1, <2>9, <2>10, <2>11, <2>12, RequestGoesOn
<1> QED
  BY <1>3, <1>4 DEF Parse

(* The version is extracted. *)
LEMMA MarkExtractedKeeps ==
    ASSUME KeyedInv, NEW c \in Clients, MarkExtracted(c)
    PROVE  KeyedInv'
<1>1. SoundRequest(sent[c])
  BY SentFacts
<1>2. /\ InFlight(c) /\ sent[c].stage = "extracted" /\ UNCHANGED <<kept, promised, runs>>
      /\ keyed' = [keyed EXCEPT !.status = "EXTRACTED"] /\ ContinueWith(c, "keep")
  BY DEF MarkExtracted, Stage
<1>3. "keep" \in KeyedStages /\ "EXTRACTED" \in Statuses
  BY DEF KeyedStages, Statuses
<1>4. /\ keyed' \in KeyedVersions /\ runs' \in 0..MaxRuns
      /\ keyed'.semantic # Nothing => keyed'.semantic.method \in Generators
  BY <1>2, <1>3 DEF KeyedInv, KeyedVersions
<1> QED
  BY <1>1, <1>2, <1>3, <1>4, GoingOnKeeps DEF SoundRequest

(* What a document that is stored holds; the method a generator is asked.   *)
LEMMA SemanticKeeps ==
    ASSUME KeyedInv, NEW c \in Clients, LookForSemantic(c) \/ FetchRawFor(c)
    PROVE  KeyedInv'
<1>1. /\ SoundRequest(sent[c]) /\ sent[c] \in SentRequests /\ sent \in [Clients -> SentRequests]
      /\ sent[c].method \in Methods
  BY SentFacts DEF KeyedInv
<1>2. {"raw", "version", "keep"} \subseteq KeyedStages /\ 404 \in KeyedCodes \ {200}
  BY DEF KeyedStages, KeyedCodes
<1>3. CASE FetchRawFor(c)
  <2>1. /\ InFlight(c) /\ sent[c].stage = "raw" /\ UNCHANGED <<keyed, kept, promised, runs>>
        /\ AnswerError(c, 404) \/ ContinueWith(c, "version")
    BY <1>3 DEF FetchRawFor, Stage
  <2>2. CASE AnswerError(c, 404)
    BY <1>2, <2>1, <2>2, VersionAsItWas, ErrorKeeps
  <2>3. CASE ContinueWith(c, "version")
    <3>1. sent[c].route = "semantic"
      BY <1>1, <2>1 DEF SoundRequest
    <3> QED
      BY <1>2, <2>1, <2>3, <3>1, VersionAsItWas, GoingOnKeeps
  <2> QED
    BY <2>1, <2>2, <2>3
<1>4. CASE LookForSemantic(c)
  <2>1. /\ InFlight(c) /\ sent[c].stage = "run" /\ sent[c].route = "semantic"
        /\ UNCHANGED <<keyed, kept, promised, runs>>
        /\ \/ /\ keyed.semantic # Nothing /\ sent[c].method \in {NoMethod, keyed.semantic.method}
              /\ sent' = [sent EXCEPT ![c].stage = "keep", ![c].body = keyed.semantic]
           \/ ContinueWith(c, "raw")
    BY <1>4 DEF LookForSemantic, Stage
  <2>2. CASE ContinueWith(c, "raw")
    BY <1>2, <2>1, <2>2, VersionAsItWas, GoingOnKeeps
  <2>3. CASE /\ keyed.semantic # Nothing /\ sent[c].method \in {NoMethod, keyed.semantic.method}
             /\ sent' = [sent EXCEPT ![c].stage = "keep", ![c].body = keyed.semantic]
    <3> DEFINE found == keyed.semantic
               new == [sent[c] EXCEPT !.stage = "keep", !.body = found]
    <3>1. /\ keyed.semantic \in Bodies /\ keyed.semantic # Nothing
          /\ keyed.semantic.method \in Generators
      BY <2>3 DEF KeyedInv, KeyedVersions
    <3>2. sent' = [sent EXCEPT ![c] = new]
      BY <1>1, <2>3
    <3>0. found \in Bodies /\ found = keyed.semantic
      BY <3>1
    <3> HIDE DEF found
    <3>10. "keep" \in KeyedStages /\ sent[c] \in SentRequests
      BY <1>1, <1>2
    <3>3. new \in SentRequests
      BY <3>0, <3>10 DEF SentRequests
    <3>4. new.stage = "keep" /\ new.body = found /\ new.route = sent[c].route
      BY <1>1 DEF SentRequests
    <3>5. new.key = sent[c].key /\ new.method = sent[c].method /\ new.promise = sent[c].promise
      BY <1>1 DEF SentRequests
    <3> HIDE DEF new
    <3>6. MovesOnly(c) /\ AsksTheSame(c) /\ sent'[c] = new
      BY <1>1, <3>2, <3>3, <3>4, <3>5 DEF MovesOnly, AsksTheSame
    <3>7. keyed.semantic.method # NoMethod
      BY <3>1, KeyedRequestsAssumption
    <3>8. Fits(sent[c].route, sent[c].method, found)
      BY <3>0, <2>1, <2>3, <3>1, <3>7 DEF Fits
    <3>9. SoundRequest(sent'[c])
      BY <1>1, <2>1, <3>4, <3>5, <3>6, <3>8 DEF SoundRequest
    <3> QED
      BY <2>1, <3>6, <3>9, VersionAsItWas, RequestGoesOn
  <2> QED
    BY <2>1, <2>2, <2>3
<1> QED
  BY <1>3, <1>4

(* The version is read. *)
LEMMA FetchVersionKeeps ==
    ASSUME KeyedInv, NEW c \in Clients, FetchVersion(c)
    PROVE  KeyedInv'
<1> DEFINE new == [sent[c] EXCEPT !.stage = "generate", !.read = keyed.status]
<1>1. /\ SoundRequest(sent[c]) /\ sent[c] \in SentRequests /\ sent \in [Clients -> SentRequests]
      /\ keyed.status \in Statuses
  BY SentFacts DEF KeyedInv, KeyedVersions
<1>2. InFlight(c) /\ sent[c].stage = "version" /\ UNCHANGED <<keyed, kept, promised, runs>>
  BY DEF FetchVersion, Stage
<1>3. sent' = [sent EXCEPT ![c] = new]
  BY <1>1 DEF FetchVersion
<1>4. "generate" \in KeyedStages
  BY DEF KeyedStages
<1>5. new \in SentRequests
  BY <1>1, <1>4 DEF SentRequests
<1>6. new.stage = "generate" /\ new.route = sent[c].route
  BY <1>1 DEF SentRequests
<1>7. new.key = sent[c].key /\ new.method = sent[c].method /\ new.promise = sent[c].promise
  BY <1>1 DEF SentRequests
<1> HIDE DEF new
<1>8. MovesOnly(c) /\ AsksTheSame(c) /\ sent'[c] = new
  BY <1>1, <1>3, <1>5, <1>6, <1>7 DEF MovesOnly, AsksTheSame
<1>9. SoundRequest(sent'[c])
  BY <1>1, <1>2, <1>6, <1>7, <1>8 DEF SoundRequest
<1> QED
  BY <1>2, <1>8, <1>9, VersionAsItWas, RequestGoesOn

(* A run of the generator makes a document of the method asked for. *)
LEMMA GenerateKeeps ==
    ASSUME KeyedInv, NEW c \in Clients, GenerateWith(c)
    PROVE  KeyedInv'
<1> DEFINE made == [method |-> Requested(sent[c]), run |-> runs + 1]
           next == IF sent[c].read = "EXTRACTED" THEN "ready" ELSE "keep"
           new == [sent[c] EXCEPT !.body = made, !.stage = next]
<1>1. /\ SoundRequest(sent[c]) /\ sent[c] \in SentRequests /\ sent \in [Clients -> SentRequests]
      /\ sent[c].method \in Methods
  BY SentFacts DEF KeyedInv
<1>2. InFlight(c) /\ sent[c].stage = "generate" /\ UNCHANGED <<kept, promised>>
  BY DEF GenerateWith, Stage
<1>3. sent[c].route = "semantic"
  BY <1>1, <1>2 DEF SoundRequest
<1>4. CASE AnswerError(c, 502) /\ UNCHANGED <<keyed, runs>>
  <2>1. 502 \in KeyedCodes \ {200}
    BY DEF KeyedCodes
  <2> QED
    BY <1>2, <1>4, <2>1, VersionAsItWas, ErrorKeeps
<1>5. CASE /\ runs < MaxRuns
           /\ runs' = runs + 1
           /\ keyed' = [keyed EXCEPT !.semantic = made]
           /\ sent' = [sent EXCEPT ![c].body = made, ![c].stage = next]
  <2>1. Requested(sent[c]) \in Generators
    BY <1>1, KeyedRequestsAssumption DEF Requested, Methods
  <2>2. made \in Bodies /\ made # Nothing /\ runs + 1 \in 0..MaxRuns
    BY <1>5, <2>1, MadeIsABody DEF KeyedInv, Methods
  <2>3. made.method = Requested(sent[c])
    OBVIOUS
  <2>4. sent' = [sent EXCEPT ![c] = new]
    BY <1>1, <1>5
  <2> HIDE DEF made
  <2>5. next \in KeyedStages /\ next \in {"ready", "keep"}
    BY DEF KeyedStages
  <2> HIDE DEF next
  <2>6. new \in SentRequests
    BY <1>1, <2>2, <2>5 DEF SentRequests
  <2>7. new.stage = next /\ new.body = made /\ new.route = sent[c].route
    BY <1>1 DEF SentRequests
  <2>8. new.key = sent[c].key /\ new.method = sent[c].method /\ new.promise = sent[c].promise
    BY <1>1 DEF SentRequests
  <2> HIDE DEF new
  <2>9. MovesOnly(c) /\ AsksTheSame(c) /\ sent'[c] = new
    BY <1>1, <2>4, <2>6, <2>7, <2>8 DEF MovesOnly, AsksTheSame
  <2>10. Fits(sent[c].route, sent[c].method, made)
    BY <1>3, <2>1, <2>2, <2>3, KeyedRequestsAssumption DEF Fits, Requested
  <2>11. SoundRequest(sent'[c])
    BY <1>1, <1>3, <2>5, <2>7, <2>8, <2>9, <2>10 DEF SoundRequest
  <2>12. keyed' \in KeyedVersions
    BY <1>5, <2>2 DEF KeyedInv, KeyedVersions
  <2>13. keyed'.semantic = made
    BY <1>5 DEF KeyedInv, KeyedVersions
  <2> QED
    BY <1>2, <1>5, <2>1, <2>2, <2>3, <2>9, <2>11, <2>12, <2>13, RequestGoesOn
<1> QED
  BY <1>4, <1>5 DEF GenerateWith

(* The version goes to review, or the request fails. *)
LEMMA MarkReadyKeeps ==
    ASSUME KeyedInv, NEW c \in Clients, MarkReady(c)
    PROVE  KeyedInv'
<1>1. SoundRequest(sent[c])
  BY SentFacts
<1>2. /\ InFlight(c) /\ sent[c].stage = "ready" /\ UNCHANGED <<kept, promised, runs>>
      /\ \/ keyed' = [keyed EXCEPT !.status = "NEEDS_REVIEW"] /\ ContinueWith(c, "keep")
         \/ UNCHANGED keyed /\ AnswerError(c, 500)
  BY DEF MarkReady, Stage
<1>3. "keep" \in KeyedStages /\ "NEEDS_REVIEW" \in Statuses /\ 500 \in KeyedCodes \ {200}
  BY DEF KeyedStages, KeyedCodes, Statuses
<1>4. CASE keyed' = [keyed EXCEPT !.status = "NEEDS_REVIEW"] /\ ContinueWith(c, "keep")
  <2>1. /\ keyed' \in KeyedVersions /\ runs' \in 0..MaxRuns
        /\ keyed'.semantic # Nothing => keyed'.semantic.method \in Generators
    BY <1>2, <1>3, <1>4 DEF KeyedInv, KeyedVersions
  <2>2. Fits(sent[c].route, sent[c].method, sent[c].body)
    BY <1>1, <1>2 DEF SoundRequest
  <2> QED
    BY <1>2, <1>3, <1>4, <2>1, <2>2, GoingOnKeeps
<1>5. CASE UNCHANGED keyed /\ AnswerError(c, 500)
  BY <1>2, <1>3, <1>5, VersionAsItWas, ErrorKeeps
<1> QED
  BY <1>2, <1>4, <1>5

(* The answer is kept.  Its request is past the look, so its key had        *)
(* promised nothing; it does now only if nobody else is under way with it. *)
LEMMA KeepAnswerKeeps ==
    ASSUME KeyedInv, NEW c \in Clients, KeepAnswer(c)
    PROVE  KeyedInv'
<1> DEFINE q == sent[c]
           s0 == SlotOf(q)
           row == [hash |-> q.method, body |-> q.body]
           alone == \A b \in Clients \ {c} : ~InFlight(b) \/ SlotOf(sent[b]) # s0
<1>1. /\ q \in SentRequests /\ SoundRequest(q) /\ q.route \in KeyedRoutes /\ q.key \in Keys
      /\ q.method \in Methods /\ q.body \in Bodies
      /\ q.key # NoKey => s0 \in Slots /\ s0[2] = q.route
  BY SentFacts
<1>2. /\ InFlight(c) /\ q.stage = "keep" /\ UNCHANGED <<keyed, runs>> /\ AnswerWell(c, q.body)
      /\ IF q.key = NoKey THEN UNCHANGED <<kept, promised>>
         ELSE /\ kept' = [kept EXCEPT ![s0] = row]
              /\ promised' = IF alone /\ promised[<<s0, q.method>>] = Nothing
                             THEN [promised EXCEPT ![<<s0, q.method>>] = q.body]
                             ELSE promised
  BY DEF KeepAnswer, Stage, HashOf
<1>3. /\ MovesOnly(c) /\ AsksTheSame(c)
      /\ sent'[c].stage = "done" /\ sent'[c].code = 200 /\ sent'[c].body = q.body
  BY <1>1, <1>2, AnswerMoves
<1>4. \A s \in Slots, m \in Methods : s0 = s => promised[<<s, m>>] = Nothing
  BY <1>2 DEF KeyedInv, PromiseInv
<1>5. q.promise = Nothing
  <2>1. q.promise # Nothing => q.key # NoKey /\ q.promise = promised[<<s0, q.method>>]
    BY <1>2 DEF KeyedInv, PromiseInv
  <2> QED
    BY <1>1, <1>4, <2>1
<1>6. Fits(q.route, q.method, q.body)
  BY <1>1, <1>2 DEF SoundRequest
<1>7. SoundRequest(sent'[c])
  BY <1>1, <1>3, <1>5, <1>6 DEF SoundRequest, AsksTheSame
<1>8. /\ keyed' \in KeyedVersions /\ runs' \in 0..MaxRuns
      /\ keyed'.semantic # Nothing => keyed'.semantic.method \in Generators
  BY <1>2, VersionAsItWas
<1>9. CASE q.key = NoKey
  BY <1>2, <1>3, <1>7, <1>8, <1>9, OneRequestMoves
<1>10. CASE q.key # NoKey
  <2>1. /\ kept' = [kept EXCEPT ![s0] = row]
        /\ \/ promised' = promised
           \/ alone /\ promised' = [promised EXCEPT ![<<s0, q.method>>] = q.body]
    BY <1>2, <1>10
  <2>2. s0 \in Slots /\ s0[2] = q.route /\ <<s0, q.method>> \in Slots \X Methods
    BY <1>1, <1>10
  <2>3. row \in [hash : Methods, body : Bodies] /\ row.hash = q.method /\ row.body = q.body
    BY <1>1
  <2> HIDE DEF row
  <2>4. /\ kept \in [Slots -> [hash : Methods, body : Bodies]]
        /\ promised \in [Slots \X Methods -> Bodies]
        /\ sent \in [Clients -> SentRequests]
    BY DEF KeyedInv
  <2>5. /\ kept' \in [Slots -> [hash : Methods, body : Bodies]]
        /\ kept'[s0] = row /\ \A s \in Slots : s # s0 => kept'[s] = kept[s]
    BY <2>1, <2>2, <2>3, <2>4
  <2>6. /\ promised' \in [Slots \X Methods -> Bodies]
        /\ \A s \in Slots, m \in Methods : s # s0 => promised'[<<s, m>>] = promised[<<s, m>>]
    BY <1>1, <2>1, <2>2, <2>4
  <2>7. \A m \in Methods : promised'[<<s0, m>>] # Nothing =>
           alone /\ m = q.method /\ promised'[<<s0, m>>] = q.body
    BY <1>1, <1>4, <2>1, <2>2, <2>4
  <2>8. /\ sent' \in [Clients -> SentRequests]
        /\ \A b \in Clients : b # c => sent'[b] = sent[b]
    BY <1>3 DEF MovesOnly
  <2>9. /\ ~InFlight(c)'
        /\ \A b \in Clients : b # c => (InFlight(b)' <=> InFlight(b))
    BY <1>3, <2>8 DEF InFlight
  <2>10. \A s \in Slots : kept'[s].body # Nothing => Fits(s[2], kept'[s].hash, kept'[s].body)
    BY <1>6, <2>2, <2>3, <2>5 DEF KeyedInv
  <2>11. \A b \in Clients : SoundRequest(sent'[b])
    BY <1>7, <2>8 DEF KeyedInv
  <2>12. ASSUME NEW s \in Slots, NEW m \in Methods, promised'[<<s, m>>] # Nothing
         PROVE  /\ kept'[s].hash = m /\ kept'[s].body = promised'[<<s, m>>]
                /\ \A b \in Clients : SlotOf(sent'[b]) = s /\ InFlight(b)' => sent'[b].stage = "check"
    <3>1. CASE s = s0
      <4>1. alone /\ m = q.method /\ promised'[<<s0, m>>] = q.body
        BY <2>7, <2>12, <3>1
      <4>2. kept'[s].hash = m /\ kept'[s].body = promised'[<<s, m>>]
        BY <2>3, <2>5, <3>1, <4>1
      <4>3. ASSUME NEW b \in Clients, SlotOf(sent'[b]) = s, InFlight(b)'
            PROVE  FALSE
        <5>1. b # c /\ InFlight(b) /\ sent'[b] = sent[b]
          BY <2>8, <2>9, <4>3
        <5> QED
          BY <3>1, <4>1, <4>3, <5>1
      <4> QED
        BY <4>2, <4>3
    <3>2. CASE s # s0
      <4>1. promised[<<s, m>>] # Nothing /\ promised'[<<s, m>>] = promised[<<s, m>>]
        BY <2>6, <2>12, <3>2
      <4>2. /\ kept[s].hash = m /\ kept[s].body = promised[<<s, m>>]
            /\ \A b \in Clients : SlotOf(sent[b]) = s /\ InFlight(b) => sent[b].stage = "check"
        BY <4>1 DEF KeyedInv, PromiseInv
      <4>3. kept'[s] = kept[s]
        BY <2>5, <3>2
      <4> QED
        BY <2>8, <2>9, <4>1, <4>2, <4>3
    <3> QED
      BY <3>1, <3>2
  <2>13. ASSUME NEW b \in Clients, InFlight(b)', sent'[b].promise # Nothing
         PROVE  /\ sent'[b].key # NoKey
                /\ sent'[b].promise = promised'[<<SlotOf(sent'[b]), sent'[b].method>>]
    <3>1. b # c /\ InFlight(b) /\ sent'[b] = sent[b]
      BY <2>8, <2>9, <2>13
    <3>2. sent[b].key # NoKey /\ sent[b].promise = promised[<<SlotOf(sent[b]), sent[b].method>>]
      BY <2>13, <3>1 DEF KeyedInv, PromiseInv
    <3>3. SlotOf(sent[b]) \in Slots /\ sent[b].method \in Methods
      BY <3>2, SentFacts
    <3>4. SlotOf(sent[b]) # s0
      BY <1>4, <2>13, <3>1, <3>2, <3>3
    <3>5. promised'[<<SlotOf(sent[b]), sent[b].method>>] = promised[<<SlotOf(sent[b]), sent[b].method>>]
      BY <2>6, <3>3, <3>4
    <3> QED
      BY <3>1, <3>2, <3>5
  <2>14. Nothing' = Nothing /\ Slots' = Slots /\ Methods' = Methods
    BY DEF Nothing, Slots, Methods
  <2>15. PromiseInv'
    BY <2>12, <2>13, <2>14 DEF PromiseInv, SlotOf
  <2> QED
    BY <1>8, <2>5, <2>6, <2>8, <2>10, <2>11, <2>15 DEF KeyedInv, KeyedVersions, SoundRequest, Fits
<1> QED
  BY <1>9, <1>10

(* Requests stay sound and promises are kept. *)
LEMMA KeyedInductive == KeyedSpec => []KeyedInv
<1>1. KeyedInit => KeyedInv
  <2> SUFFICES ASSUME KeyedInit PROVE KeyedInv
    OBVIOUS
  <2>1. Nothing \in Bodies /\ NotSent \in SentRequests /\ NoMethod \in Methods
    BY NothingIsABody DEF Methods
  <2>2. EarlierExtraction \in Bodies
    BY KeyedRequestsAssumption DEF EarlierExtraction, Bodies
  <2>3. keyed \in KeyedVersions /\ keyed.semantic = Nothing
    BY <2>1, <2>2 DEF KeyedInit, KeyedVersions, Statuses
  <2>4. Unkept \in [hash : Methods, body : Bodies] /\ Unkept.body = Nothing
    BY <2>1 DEF Unkept
  <2>5. /\ kept \in [Slots -> [hash : Methods, body : Bodies]]
        /\ \A s \in Slots : kept[s].body = Nothing
    BY <2>4 DEF KeyedInit
  <2>6. sent \in [Clients -> SentRequests] /\ \A c \in Clients : sent[c] = NotSent
    BY <2>1 DEF KeyedInit
  <2>7. /\ promised \in [Slots \X Methods -> Bodies]
        /\ \A s \in Slots, m \in Methods : promised[<<s, m>>] = Nothing
    BY <2>1 DEF KeyedInit, Methods
  <2>8. runs \in 0..MaxRuns
    BY KeyedRequestsAssumption DEF KeyedInit
  <2>9. NotSent.stage = "idle" /\ NotSent.method = NoMethod
    BY DEF NotSent
  <2>10. \A c \in Clients : SoundRequest(sent[c]) /\ ~InFlight(c)
    BY <2>6, <2>9 DEF SoundRequest, InFlight
  <2>11. PromiseInv
    BY <2>7, <2>10 DEF PromiseInv
  <2> QED
    BY <2>3, <2>5, <2>6, <2>7, <2>8, <2>10, <2>11 DEF KeyedInv
<1>2. KeyedInv /\ [KeyedNext]_keyedVars => KeyedInv'
  <2>1. ASSUME KeyedInv, UNCHANGED keyedVars PROVE KeyedInv'
    BY <2>1 DEF keyedVars, KeyedInv, PromiseInv, SoundRequest, Fits, InFlight, SlotOf
  <2>2. ASSUME KeyedInv, KeyedNext PROVE KeyedInv'
    <3>1. PICK c \in Clients :
             \/ \E route \in KeyedRoutes, key \in Keys, method \in Generators \cup {NoMethod} :
                   Send(c, route, key, method)
             \/ ServeKeyed(c)
      BY <2>2 DEF KeyedNext
    <3>2. CASE \E route \in KeyedRoutes, key \in Keys, method \in Generators \cup {NoMethod} :
                  Send(c, route, key, method)
      BY <2>2, <3>2, SendKeeps DEF Methods
    <3>3. CASE ServeKeyed(c)
      BY <2>2, <3>3, CheckKeyKeeps, ClaimsKeep, ParseKeeps, MarkExtractedKeeps, SemanticKeeps,
         FetchVersionKeeps, GenerateKeeps, MarkReadyKeeps, KeepAnswerKeeps DEF ServeKeyed
    <3> QED
      BY <3>1, <3>2, <3>3
  <2> QED
    BY <2>1, <2>2
<1> QED
  BY <1>1, <1>2, PTL DEF KeyedSpec

(* A request answered well was answered what its key had promised when it   *)
(* was sent, a document of the method it named, and what a run has made:    *)
(* _check_idempotency and _store_idempotency around the three routes,      *)
(* whatever requests overlap and however many there are.                   *)
THEOREM AnswersUnderKeys == KeyedSpec => []KeysKeepTheirPromise
<1>1. KeyedInv => KeysKeepTheirPromise
  BY DEF KeyedInv, SoundRequest, Fits, KeysKeepTheirPromise
<1> QED
  BY <1>1, KeyedInductive, PTL

-----------------------------------------------------------------------------
(* The calls to a language model.                                          *)

CallRecords == [stage : CallStages, attempt : Nat, delay : Int]

(* No answer costs more than the dearest.                                   *)
LEMMA DearestAnswer ==
    /\ Max(AnswerCosts \cup {0}) \in Nat
    /\ \A cost \in AnswerCosts : cost <= Max(AnswerCosts \cup {0})
<1> DEFINE S == AnswerCosts \cup {0}
<1>1. IsFiniteSet(S) /\ S # {} /\ S \subseteq Nat
  BY ModelCallsAssumption, FS_AddElement
<1>2. \E m \in S : \A y \in S : m >= y
  BY <1>1, LargestMember
<1>3. Max(S) \in S /\ \A y \in S : Max(S) >= y
  BY <1>2 DEF Max
<1> QED
  BY <1>1, <1>3

Minings ==
    [stage : {"idle", "batches", "done"}, todo : SUBSET SectionNumbers, used : Nat, tripped : BOOLEAN,
     triples : SUBSET Triple, warned : SUBSET SectionNumbers, answered : SUBSET SectionNumbers]

GroundedIn(r) ==
    \A t \in r.triples : t.refs # {} /\ t.refs \subseteq Sections[t.section] /\ t.section \in r.answered

(* The extraction: what is kept is grounded, every section is answered for, *)
(* warned of or left, and a call is out only while the budget is not spent.  *)
MiningInv ==
    /\ mining \in Minings
    /\ GroundedIn(mining)
    /\ mining.stage # "idle" => mining.answered \cup mining.warned \cup mining.todo = SectionNumbers
    /\ mining.stage = "done" => mining.todo = {}
    /\ mining.used < TokenBudget + Max(AnswerCosts \cup {0})
    /\ calls["extraction"].stage # "none" =>
          mining.stage = "batches" /\ mining.used < TokenBudget /\ mining.todo # {}

(* The requests on the wire, one by one: there are two threads.             *)
OnTheWire(c) == IF calls[c].stage = "flight" THEN 1 ELSE 0

ModelInv ==
    /\ calls \in [ModelCallers -> CallRecords]
    /\ permits = MaxConcurrent - OnTheWire("extraction") - OnTheWire("chat")
    /\ MiningInv

(* A batch is of the sections left. *)
LEMMA NextBatchIsLeft == NextBatch \subseteq mining.todo
  BY DEF NextBatch

(* One call goes on, the other stays.                                      *)
LEMMA CallMoves ==
    ASSUME NEW c \in ModelCallers, NEW to \in CallRecords, calls \in [ModelCallers -> CallRecords],
           Call(c, to)
    PROVE  /\ calls' \in [ModelCallers -> CallRecords] /\ calls'[c] = to
           /\ \A b \in ModelCallers : b # c => calls'[b] = calls[b]
  BY DEF Call

(* No call is a call record. *)
LEMMA NoCallIsOne == NoCall \in CallRecords /\ NoCall.stage = "none"
  BY DEF NoCall, CallRecords, CallStages

(* A call is sent, backs off or wakes up, and the extraction stands.        *)
LEMMA CallerKeeps ==
    ASSUME ModelInv, NEW c \in ModelCallers, SendRequest(c) \/ BackOff(c) \/ WakeUp(c)
    PROVE  ModelInv'
<1>1. calls \in [ModelCallers -> CallRecords] /\ calls[c] \in CallRecords
  BY DEF ModelInv
<1>2. {"none", "waiting", "flight", "sleeping"} \subseteq CallStages
  BY DEF CallStages
<1>3. calls[c].attempt \in Nat /\ calls[c].delay \in Int
  BY <1>1 DEF CallRecords
<1>9. permits \in Int
  BY ModelCallsAssumption DEF ModelInv, OnTheWire
<1>4. \E to \in CallRecords :
         /\ Call(c, to) /\ UNCHANGED mining /\ calls[c].stage # "none" /\ to.stage # "none"
         /\ permits' = permits + OnTheWire(c) - IF to.stage = "flight" THEN 1 ELSE 0
  <2>1. CASE SendRequest(c)
    <3> DEFINE to == [calls[c] EXCEPT !.stage = "flight"]
    <3>1. Call(c, to) /\ calls[c].stage = "waiting" /\ permits' = permits - 1 /\ UNCHANGED mining
      BY <2>1 DEF SendRequest
    <3>2. to \in CallRecords
      BY <1>1, <1>2 DEF CallRecords
    <3>3. to.stage = "flight"
      BY <1>1 DEF CallRecords
    <3> HIDE DEF to
    <3> QED
      BY <1>9, <3>1, <3>2, <3>3 DEF OnTheWire
  <2>2. CASE BackOff(c)
    <3>0. PICK failure \in Failures : \E d \in RetryDelays(failure, calls[c].attempt) :
             Call(c, [calls[c] EXCEPT !.stage = "sleeping", !.delay = d])
      BY <2>2 DEF BackOff
    <3>1. PICK d \in RetryDelays(failure, calls[c].attempt) :
             Call(c, [calls[c] EXCEPT !.stage = "sleeping", !.delay = d])
      BY <3>0
    <3> DEFINE to == [calls[c] EXCEPT !.stage = "sleeping", !.delay = d]
    <3>2. calls[c].stage = "flight" /\ permits' = permits + 1 /\ UNCHANGED mining
      BY <2>2 DEF BackOff
    <3>3. d \in Int
      <4>1. BackoffCap \in Int /\ 2^(calls[c].attempt) \in Int
        BY <1>3, ModelCallsAssumption
      <4>2. \A delay \in Int : AtMostCap(delay) \in Int
        BY <4>1 DEF AtMostCap
      <4> QED
        BY <4>1, <4>2 DEF RetryDelays
    <3>4. to \in CallRecords
      BY <1>1, <1>2, <3>3 DEF CallRecords
    <3>5. to.stage = "sleeping"
      BY <1>1 DEF CallRecords
    <3>6. Call(c, to)
      BY <3>1
    <3> HIDE DEF to
    <3> QED
      BY <1>9, <3>2, <3>4, <3>5, <3>6 DEF OnTheWire
  <2>3. CASE WakeUp(c)
    <3> DEFINE to == [stage |-> "waiting", attempt |-> calls[c].attempt + 1, delay |-> 0]
    <3>1. Call(c, to) /\ calls[c].stage = "sleeping" /\ UNCHANGED <<permits, mining>>
      BY <2>3 DEF WakeUp
    <3>2. to \in CallRecords /\ to.stage = "waiting"
      BY <1>2, <1>3 DEF CallRecords
    <3> HIDE DEF to
    <3> QED
      BY <1>9, <3>1, <3>2 DEF OnTheWire
  <2> QED
    BY <2>1, <2>2, <2>3
<1>5. PICK to \in CallRecords :
         /\ Call(c, to) /\ UNCHANGED mining /\ calls[c].stage # "none" /\ to.stage # "none"
         /\ permits' = permits + OnTheWire(c) - IF to.stage = "flight" THEN 1 ELSE 0
  BY <1>4
<1>6. /\ calls' \in [ModelCallers -> CallRecords] /\ calls'[c] = to
      /\ \A b \in ModelCallers : b # c => calls'[b] = calls[b]
  BY <1>1, <1>5, CallMoves
<1>7. permits' = MaxConcurrent - OnTheWire("extraction")' - OnTheWire("chat")'
  BY <1>5, <1>6, ModelCallsAssumption DEF ModelInv, OnTheWire, ModelCallers
<1>8. MiningInv'
  BY <1>5, <1>6 DEF ModelInv, MiningInv, GroundedIn, ModelCallers
<1> QED
  BY <1>6, <1>7, <1>8 DEF ModelInv

(* A call is made while the extraction stands, or a chat's returns.         *)
LEMMA CallsAsked ==
    ASSUME ModelInv, AskText \/ AskBatch
    PROVE  ModelInv'
<1> DEFINE to == [NoCall EXCEPT !.stage = "waiting"]
<1>1. to \in CallRecords
  BY NoCallIsOne DEF CallRecords, CallStages
<1>2. to.stage = "waiting"
  BY DEF NoCall
<1> HIDE DEF to
<1>3. PICK c \in ModelCallers :
         /\ Call(c, to) /\ calls[c].stage = "none" /\ UNCHANGED <<permits, mining>>
         /\ c = "extraction" => mining.stage = "batches" /\ ~OverBudget /\ mining.todo # {}
  BY DEF AskText, AskBatch, Mining, ModelCallers, to
<1>4. /\ calls' \in [ModelCallers -> CallRecords] /\ calls'[c] = to
      /\ \A b \in ModelCallers : b # c => calls'[b] = calls[b]
  BY <1>1, <1>3, CallMoves DEF ModelInv
<1>5. permits' = MaxConcurrent - OnTheWire("extraction")' - OnTheWire("chat")'
  BY <1>2, <1>3, <1>4 DEF ModelInv, OnTheWire, ModelCallers
<1>6. mining.used \in Nat /\ TokenBudget \in Nat
  BY ModelCallsAssumption DEF ModelInv, MiningInv, Minings
<1>7. MiningInv'
  BY <1>2, <1>3, <1>4, <1>6 DEF ModelInv, MiningInv, GroundedIn, OverBudget, ModelCallers
<1> QED
  BY <1>4, <1>5, <1>7 DEF ModelInv

(* A request comes back with its permit. *)
LEMMA ReturnsMoves ==
    ASSUME ModelInv, NEW c \in ModelCallers, Returns(c)
    PROVE  /\ calls' \in [ModelCallers -> CallRecords]
           /\ permits' = MaxConcurrent - OnTheWire("extraction")' - OnTheWire("chat")'
           /\ calls[c].stage = "flight" /\ calls'[c].stage = "none"
           /\ \A b \in ModelCallers : b # c => calls'[b] = calls[b]
<1>1. calls[c].stage = "flight" /\ permits' = permits + 1 /\ Call(c, NoCall)
  BY DEF Returns
<1>2. /\ calls' \in [ModelCallers -> CallRecords] /\ calls'[c] = NoCall
      /\ \A b \in ModelCallers : b # c => calls'[b] = calls[b]
  BY <1>1, NoCallIsOne, CallMoves DEF ModelInv
<1>3. calls'[c].stage = "none"
  BY <1>2, NoCallIsOne
<1> QED
  BY <1>1, <1>2, <1>3, ModelCallsAssumption DEF ModelInv, OnTheWire, ModelCallers

(* The extraction stands while a chat is answered. *)
LEMMA TextReturnsKeeps ==
    ASSUME ModelInv, TextReturns
    PROVE  ModelInv'
<1>1. "chat" \in ModelCallers /\ "extraction" \in ModelCallers
  BY DEF ModelCallers
<1>2. Returns("chat") /\ UNCHANGED mining
  BY DEF TextReturns
<1>3. /\ calls' \in [ModelCallers -> CallRecords]
      /\ permits' = MaxConcurrent - OnTheWire("extraction")' - OnTheWire("chat")'
      /\ calls'["extraction"] = calls["extraction"]
  BY <1>1, <1>2, ReturnsMoves
<1> QED
  BY <1>2, <1>3 DEF ModelInv, MiningInv, GroundedIn

(* The walk over the document's sections moves to a new record.             *)
LEMMA MiningMoves ==
    ASSUME ModelInv, mining' \in Minings,
           calls' \in [ModelCallers -> CallRecords],
           permits' = MaxConcurrent - OnTheWire("extraction")' - OnTheWire("chat")',
           GroundedIn(mining'),
           mining'.stage # "idle" =>
              mining'.answered \cup mining'.warned \cup mining'.todo = SectionNumbers,
           mining'.stage = "done" => mining'.todo = {},
           mining'.used < TokenBudget + Max(AnswerCosts \cup {0}),
           calls'["extraction"].stage # "none" =>
              mining'.stage = "batches" /\ mining'.used < TokenBudget /\ mining'.todo # {}
    PROVE  ModelInv'
  BY DEF ModelInv, MiningInv, GroundedIn

(* Nothing moves on the wire. *)
LEMMA WireStays ==
    ASSUME ModelInv, UNCHANGED <<permits, calls>>
    PROVE  /\ calls' \in [ModelCallers -> CallRecords]
           /\ permits' = MaxConcurrent - OnTheWire("extraction")' - OnTheWire("chat")'
  BY DEF ModelInv, OnTheWire

(* No extraction is under way. *)
LEMMA NotMiningFacts ==
    /\ NotMining \in Minings /\ NotMining.stage = "idle" /\ NotMining.todo = {}
    /\ NotMining.used = 0 /\ NotMining.triples = {} /\ NotMining.answered = {}
    /\ 0 < TokenBudget + Max(AnswerCosts \cup {0})
<1>1. 0 < TokenBudget + Max(AnswerCosts \cup {0})
  BY ModelCallsAssumption, DearestAnswer
<1> QED
  BY <1>1 DEF NotMining, Minings

(* An extraction starts: every section is left, or warned of. *)
LEMMA ExtractTriplesKeeps ==
    ASSUME ModelInv, ExtractTriples
    PROVE  ModelInv'
<1> DEFINE cited == {s \in SectionNumbers : Sections[s] # {}}
           bare == {s \in SectionNumbers : Sections[s] = {}}
           new == [NotMining EXCEPT !.stage = "batches", !.todo = cited, !.warned = bare]
<1>1. mining' = new /\ UNCHANGED <<permits, calls>> /\ mining.stage # "batches"
  BY DEF ExtractTriples
<1>2. cited \in SUBSET SectionNumbers /\ bare \in SUBSET SectionNumbers /\ cited \cup bare = SectionNumbers
  OBVIOUS
<1> HIDE DEF cited, bare
<1>3. new \in Minings
  BY <1>2, NotMiningFacts DEF Minings
<1>4. new.stage = "batches" /\ new.todo = cited /\ new.warned = bare
  BY NotMiningFacts DEF Minings
<1>5. new.used = 0 /\ new.triples = {} /\ new.answered = {}
  BY NotMiningFacts DEF Minings
<1> HIDE DEF new
<1>6. GroundedIn(new)
  BY <1>5 DEF GroundedIn
<1>7. calls["extraction"].stage = "none" /\ calls'["extraction"].stage = "none"
  BY <1>1 DEF ModelInv, MiningInv
<1> QED
  BY <1>1, <1>2, <1>3, <1>4, <1>5, <1>6, <1>7, NotMiningFacts, WireStays, MiningMoves

(* A batch is passed over: its budget is spent, or its call failed.         *)
LEMMA BatchPassed ==
    ASSUME ModelInv, mining.stage = "batches",
           calls' \in [ModelCallers -> CallRecords], calls'["extraction"].stage = "none",
           permits' = MaxConcurrent - OnTheWire("extraction")' - OnTheWire("chat")',
           NEW r \in Minings, mining' = r,
           r.stage = "batches", r.todo = mining.todo \ NextBatch,
           r.warned = mining.warned \cup NextBatch, r.used = mining.used,
           r.triples = mining.triples, r.answered = mining.answered
    PROVE  ModelInv'
<1>1. GroundedIn(mining')
  BY DEF ModelInv, MiningInv, GroundedIn
<1>2. mining.answered \cup mining.warned \cup mining.todo = SectionNumbers
  BY DEF ModelInv, MiningInv
<1>3. r.answered \cup r.warned \cup r.todo = SectionNumbers
  BY <1>2, NextBatchIsLeft
<1>4. mining.used < TokenBudget + Max(AnswerCosts \cup {0})
  BY DEF ModelInv, MiningInv
<1> QED
  BY <1>1, <1>3, <1>4, MiningMoves

(* A batch past the budget. *)
LEMMA SkipBatchKeeps ==
    ASSUME ModelInv, SkipBatch
    PROVE  ModelInv'
<1> DEFINE left == mining.todo \ NextBatch
           named == mining.warned \cup NextBatch
           new == [mining EXCEPT !.tripped = TRUE, !.todo = left, !.warned = named]
<1>1. /\ mining' = new /\ UNCHANGED <<permits, calls>> /\ mining.stage = "batches"
      /\ calls["extraction"].stage = "none"
  BY DEF SkipBatch, Mining
<1>2. mining \in Minings
  BY DEF ModelInv, MiningInv
<1>3. left \in SUBSET SectionNumbers /\ named \in SUBSET SectionNumbers
  BY <1>2, NextBatchIsLeft DEF Minings
<1>4. left = mining.todo \ NextBatch /\ named = mining.warned \cup NextBatch
  OBVIOUS
<1> HIDE DEF left, named
<1>5. new \in Minings
  BY <1>2, <1>3 DEF Minings
<1>6. new.stage = mining.stage /\ new.todo = left /\ new.warned = named
  BY <1>2 DEF Minings
<1>7. new.used = mining.used /\ new.triples = mining.triples /\ new.answered = mining.answered
  BY <1>2 DEF Minings
<1> HIDE DEF new
<1> QED
  BY <1>1, <1>4, <1>5, <1>6, <1>7, WireStays, BatchPassed

(* A batch whose call failed. *)
LEMMA BatchFailsKeeps ==
    ASSUME ModelInv, BatchFails
    PROVE  ModelInv'
<1> DEFINE left == mining.todo \ NextBatch
           named == mining.warned \cup NextBatch
           new == [mining EXCEPT !.todo = left, !.warned = named]
<1>1. mining' = new /\ Returns("extraction")
  BY DEF BatchFails
<1>2. mining \in Minings
  BY DEF ModelInv, MiningInv
<1>3. left \in SUBSET SectionNumbers /\ named \in SUBSET SectionNumbers
  BY <1>2, NextBatchIsLeft DEF Minings
<1>4. left = mining.todo \ NextBatch /\ named = mining.warned \cup NextBatch
  OBVIOUS
<1> HIDE DEF left, named
<1>5. new \in Minings
  BY <1>2, <1>3 DEF Minings
<1>6. new.stage = mining.stage /\ new.todo = left /\ new.warned = named
  BY <1>2 DEF Minings
<1>7. new.used = mining.used /\ new.triples = mining.triples /\ new.answered = mining.answered
  BY <1>2 DEF Minings
<1> HIDE DEF new
<1>8. "extraction" \in ModelCallers
  BY DEF ModelCallers
<1>9. /\ calls' \in [ModelCallers -> CallRecords]
      /\ permits' = MaxConcurrent - OnTheWire("extraction")' - OnTheWire("chat")'
      /\ calls["extraction"].stage = "flight" /\ calls'["extraction"].stage = "none"
  BY <1>1, <1>8, ReturnsMoves
<1>10. mining.stage = "batches"
  BY <1>9 DEF ModelInv, MiningInv
<1> QED
  BY <1>1, <1>4, <1>5, <1>6, <1>7, <1>9, <1>10, BatchPassed

(* What is said of a section of the batch speaks of a section.              *)
LEMMA SaidOfASection ==
    ASSUME mining.todo \subseteq SectionNumbers, NEW t \in Said(NextBatch), IsGrounded(t, NextBatch)
    PROVE  t \in Triple
<1>1. CASE provider.batch = 1
  <2>1. t \in [section : NextBatch, refs : SUBSET CitedRefs]
    BY <1>1 DEF Said
  <2> QED
    BY <2>1, NextBatchIsLeft DEF Triple
<1>2. CASE provider.batch # 1
  BY <1>2 DEF Said
<1> QED
  BY <1>1, <1>2

(* A batch answered: what is kept of it is grounded. *)
LEMMA BatchAnsweredKeeps ==
    ASSUME ModelInv, BatchAnswered
    PROVE  ModelInv'
<1>1. PICK t \in Said(NextBatch), cost \in AnswerCosts :
         mining' = [mining EXCEPT
            !.todo = @ \ NextBatch, !.used = @ + cost,
            !.answered = @ \cup NextBatch,
            !.triples = IF IsGrounded(t, NextBatch) THEN @ \cup {t} ELSE @,
            !.warned = IF ~IsGrounded(t, NextBatch) /\ t.section \in NextBatch
                       THEN @ \cup {t.section} ELSE @]
  BY DEF BatchAnswered
<1> DEFINE left == mining.todo \ NextBatch
           spent == mining.used + cost
           heard == mining.answered \cup NextBatch
           held == IF IsGrounded(t, NextBatch) THEN mining.triples \cup {t} ELSE mining.triples
           named == IF ~IsGrounded(t, NextBatch) /\ t.section \in NextBatch
                    THEN mining.warned \cup {t.section} ELSE mining.warned
           new == [mining EXCEPT !.todo = left, !.used = spent, !.answered = heard,
                                 !.triples = held, !.warned = named]
<1>2. mining' = new /\ Returns("extraction")
  BY <1>1 DEF BatchAnswered
<1>3. mining \in Minings /\ GroundedIn(mining)
  BY DEF ModelInv, MiningInv
<1>4. "extraction" \in ModelCallers
  BY DEF ModelCallers
<1>5. /\ calls' \in [ModelCallers -> CallRecords]
      /\ permits' = MaxConcurrent - OnTheWire("extraction")' - OnTheWire("chat")'
      /\ calls["extraction"].stage = "flight" /\ calls'["extraction"].stage = "none"
  BY <1>2, <1>4, ReturnsMoves
<1>6. mining.stage = "batches" /\ mining.used < TokenBudget
  BY <1>5 DEF ModelInv, MiningInv
<1>7. mining.used \in Nat /\ mining.todo \subseteq SectionNumbers
      /\ mining.answered \subseteq SectionNumbers /\ mining.warned \subseteq SectionNumbers
  BY <1>3 DEF Minings
<1>8. spent \in Nat /\ spent < TokenBudget + Max(AnswerCosts \cup {0})
  <2>1. cost \in Nat /\ cost <= Max(AnswerCosts \cup {0}) /\ TokenBudget \in Nat
    BY ModelCallsAssumption, DearestAnswer
  <2> QED
    BY <1>6, <1>7, <2>1, DearestAnswer
<1>9. left \in SUBSET SectionNumbers /\ heard \in SUBSET SectionNumbers
  BY <1>7, NextBatchIsLeft
<1>10. named \in SUBSET SectionNumbers /\ mining.warned \subseteq named
  BY <1>7, NextBatchIsLeft
<1>11. held \in SUBSET Triple
  BY <1>3, <1>7, SaidOfASection DEF Minings
<1>12. \A u \in held : u.refs # {} /\ u.refs \subseteq Sections[u.section] /\ u.section \in heard
  BY <1>3 DEF GroundedIn, IsGrounded
<1>13. left = mining.todo \ NextBatch /\ heard = mining.answered \cup NextBatch
  OBVIOUS
<1> HIDE DEF left, spent, heard, held, named
<1>14. new \in Minings
  BY <1>3, <1>8, <1>9, <1>10, <1>11 DEF Minings
<1>15. new.stage = mining.stage /\ new.todo = left /\ new.used = spent
  BY <1>3 DEF Minings
<1>16. new.answered = heard /\ new.triples = held /\ new.warned = named
  BY <1>3 DEF Minings
<1> HIDE DEF new
<1>17. GroundedIn(mining')
  BY <1>2, <1>12, <1>16 DEF GroundedIn
<1>18. mining.answered \cup mining.warned \cup mining.todo = SectionNumbers
  BY <1>6 DEF ModelInv, MiningInv
<1>19. new.answered \cup new.warned \cup new.todo = SectionNumbers
  BY <1>9, <1>10, <1>13, <1>15, <1>16, <1>18
<1> QED
  BY <1>2, <1>5, <1>6, <1>8, <1>14, <1>15, <1>17, <1>19, MiningMoves

(* Nothing is left. *)
LEMMA ExtractionEndsKeeps ==
    ASSUME ModelInv, ExtractionEnds
    PROVE  ModelInv'
<1> DEFINE new == [mining EXCEPT !.stage = "done"]
<1>1. mining' = new /\ UNCHANGED <<permits, calls>> /\ mining.stage = "batches" /\ mining.todo = {}
  BY DEF ExtractionEnds
<1>2. mining \in Minings /\ GroundedIn(mining)
  BY DEF ModelInv, MiningInv
<1>3. new \in Minings
  BY <1>2 DEF Minings
<1>4. new.stage = "done" /\ new.todo = mining.todo /\ new.used = mining.used
  BY <1>2 DEF Minings
<1>5. new.answered = mining.answered /\ new.triples = mining.triples /\ new.warned = mining.warned
  BY <1>2 DEF Minings
<1> HIDE DEF new
<1>6. GroundedIn(mining')
  BY <1>1, <1>2, <1>5 DEF GroundedIn
<1>7. /\ mining.answered \cup mining.warned \cup mining.todo = SectionNumbers
      /\ mining.used < TokenBudget + Max(AnswerCosts \cup {0})
      /\ calls["extraction"].stage = "none"
  BY <1>1 DEF ModelInv, MiningInv
<1> QED
  BY <1>1, <1>3, <1>4, <1>5, <1>6, <1>7, WireStays, MiningMoves

(* A restart forgets the extraction and frees the permits. *)
LEMMA ModelRestartKeeps ==
    ASSUME ModelInv, ModelRestart
    PROVE  ModelInv'
<1>1. /\ permits' = MaxConcurrent /\ mining' = NotMining
      /\ calls' = [c \in ModelCallers |-> NoCall]
  BY DEF ModelRestart
<1>2. calls' \in [ModelCallers -> CallRecords] /\ \A c \in ModelCallers : calls'[c].stage = "none"
  BY <1>1, NoCallIsOne
<1>3. permits' = MaxConcurrent - OnTheWire("extraction")' - OnTheWire("chat")'
  BY <1>1, <1>2, ModelCallsAssumption DEF OnTheWire, ModelCallers
<1>4. calls'["extraction"].stage = "none"
  BY <1>2 DEF ModelCallers
<1>5. GroundedIn(NotMining)
  BY NotMiningFacts DEF GroundedIn
<1> QED
  BY <1>1, <1>2, <1>3, <1>4, <1>5, NotMiningFacts, MiningMoves

(* The requests on the wire counted one by one are their number.            *)
LEMMA OnTheWireCounted ==
    Cardinality({c \in ModelCallers : calls[c].stage = "flight"}) =
       OnTheWire("extraction") + OnTheWire("chat")
<1> DEFINE S == {c \in ModelCallers : calls[c].stage = "flight"}
<1>1. CASE calls["extraction"].stage = "flight" /\ calls["chat"].stage = "flight"
  <2>1. S = {"extraction"} \cup {"chat"} /\ "chat" \notin {"extraction"}
    BY <1>1 DEF ModelCallers
  <2>2. IsFiniteSet({"extraction"}) /\ Cardinality({"extraction"}) = 1
    BY FS_Singleton
  <2>3. Cardinality({"extraction"} \cup {"chat"}) = 1 + 1
    BY <2>1, <2>2, FS_AddElement
  <2> QED
    BY <1>1, <2>1, <2>3 DEF OnTheWire
<1>2. CASE calls["extraction"].stage = "flight" /\ calls["chat"].stage # "flight"
  <2>1. S = {"extraction"}
    BY <1>2 DEF ModelCallers
  <2>2. Cardinality({"extraction"}) = 1
    BY FS_Singleton
  <2> QED
    BY <1>2, <2>1, <2>2 DEF OnTheWire
<1>3. CASE calls["extraction"].stage # "flight" /\ calls["chat"].stage = "flight"
  <2>1. S = {"chat"}
    BY <1>3 DEF ModelCallers
  <2>2. Cardinality({"chat"}) = 1
    BY FS_Singleton
  <2> QED
    BY <1>3, <2>1, <2>2 DEF OnTheWire
<1>4. CASE calls["extraction"].stage # "flight" /\ calls["chat"].stage # "flight"
  <2>1. S = {}
    BY <1>4 DEF ModelCallers
  <2> QED
    BY <1>4, <2>1, FS_EmptySet DEF OnTheWire
<1> QED
  BY <1>1, <1>2, <1>3, <1>4

(* Permits are counted, and the extraction stays grounded. *)
LEMMA ModelInductive == ModelSpec => []ModelInv
<1>1. ModelInit => ModelInv
  <2> SUFFICES ASSUME ModelInit PROVE ModelInv
    OBVIOUS
  <2>1. calls \in [ModelCallers -> CallRecords] /\ \A c \in ModelCallers : calls[c].stage = "none"
    BY NoCallIsOne DEF ModelInit
  <2>2. permits = MaxConcurrent - OnTheWire("extraction") - OnTheWire("chat")
    BY <2>1, ModelCallsAssumption DEF ModelInit, OnTheWire, ModelCallers
  <2>3. mining = NotMining /\ GroundedIn(mining)
    BY NotMiningFacts DEF ModelInit, GroundedIn
  <2> QED
    BY <2>1, <2>2, <2>3, NotMiningFacts DEF ModelInv, MiningInv, ModelCallers
<1>2. ModelInv /\ [ModelNext]_modelVars => ModelInv'
  <2>1. ASSUME ModelInv, ModelNext PROVE ModelInv'
    <3>1. CASE GenerateAssets
      BY <2>1, <3>1, WireStays DEF GenerateAssets, ModelInv, MiningInv, GroundedIn
    <3> QED
      BY <2>1, <3>1, CallsAsked, TextReturnsKeeps, CallerKeeps, ExtractTriplesKeeps, SkipBatchKeeps,
         BatchAnsweredKeeps, BatchFailsKeeps, ExtractionEndsKeeps, ModelRestartKeeps DEF ModelNext
  <2>2. ASSUME ModelInv, UNCHANGED modelVars PROVE ModelInv'
    BY <2>2, WireStays DEF modelVars, ModelInv, MiningInv, GroundedIn
  <2> QED
    BY <2>1, <2>2
<1> QED
  BY <1>1, <1>2, PTL DEF ModelSpec

(* Whatever the model answers and whatever fails, what an extraction keeps  *)
(* cites the section it speaks of, none of the sections is lost, the budget *)
(* is overrun by less than an answer and the permits are as many as the     *)
(* requests on the wire leave: EntityExtractor and the clients' retries.    *)
THEOREM ModelAnswersAreSifted == ModelSpec => []ModelIsUsedWell
<1>1. ModelInv => ModelIsUsedWell
  <2> SUFFICES ASSUME ModelInv PROVE ModelIsUsedWell
    OBVIOUS
  <2>1. ExtractionIsGrounded
    BY DEF ModelInv, MiningInv, GroundedIn, ExtractionIsGrounded
  <2>2. PermitsComeBack
    BY OnTheWireCounted, ModelCallsAssumption DEF ModelInv, OnTheWire, PermitsComeBack
  <2> QED
    BY <2>1, <2>2 DEF ModelIsUsedWell
<1> QED
  BY <1>1, ModelInductive, PTL

-----------------------------------------------------------------------------
(* Types of what the requests hold.                                        *)

(* Whatever is left to do of a request are statements. *)
LEMMA PendingStatements == \A route : Pending(route) \subseteq Seq(Statements)
<1>1. DocumentTodos \cup MeasuredTodos \cup {<<>>, <<"buried">>} \subseteq Seq(Statements)
  BY DEF DocumentTodos, MeasuredTodos, Statements
<1>2. \A a \in {"raw", "semantic", "markdown", "bytes"} : VersionTodos(a) \subseteq Seq(Statements)
  BY DEF VersionTodos, Statements
<1> QED BY <1>1, <1>2 DEF Pending

PurgeStatements == {"bytes", "row", "second"}

(* What ReadsInv leaves open: the configured access, the purge, the notes.  *)
ReadsBeside ==
    /\ access \in AccessModes
    /\ purge \in Seq(PurgeStatements)
    /\ witnessed \in [hidden : BOOLEAN, lacking : BOOLEAN, gone : BOOLEAN]

LEMMA PurgeTyped ==
    ASSUME purge \in Seq(PurgeStatements), [ReadsNext]_readVars
    PROVE  purge' \in Seq(PurgeStatements)
<1>1. CASE UNCHANGED purge
  BY <1>1
<1>2. CASE PurgeListed
  <2>1. PICK first \in {<<>>, <<"bytes", "row">>}, then \in {<<>>, <<"second">>} : purge' = first \o then
    BY <1>2 DEF PurgeListed
  <2>2. <<>> \in Seq(PurgeStatements) /\ <<"bytes", "row">> \in Seq(PurgeStatements)
        /\ <<"second">> \in Seq(PurgeStatements)
    BY DEF PurgeStatements
  <2>3. first \in Seq(PurgeStatements) /\ then \in Seq(PurgeStatements)
    BY <2>1, <2>2
  <2>4. \A s, t \in Seq(PurgeStatements) : s \o t \in Seq(PurgeStatements)
    OBVIOUS
  <2> HIDE DEF PurgeStatements
  <2> QED BY <2>1, <2>3, <2>4
<1>3. CASE PurgeStatement
  BY <1>3 DEF PurgeStatement
<1>4. CASE ReadsCrash
  BY <1>4 DEF ReadsCrash
<1>5. ASSUME NEW route \in Routes, Ask(route) PROVE UNCHANGED purge
  BY <1>5 DEF Ask
<1>6. ReadStep => UNCHANGED purge
  BY DEF ReadStep, LookUpVersion, LookUpDocument, LookUpBuried, LookUpTarget, CheckDocument, CheckLinks,
         FetchRaw, FetchSemantic, FetchMarkdown, FetchBytes, Others
<1>7. ArchiveRow \/ UnarchiveRow \/ LinkCaller \/ UnlinkCaller \/ AppendVersion \/ ExtractFirst \/ GenerateFirst
        => UNCHANGED purge
  BY DEF ArchiveRow, UnarchiveRow, LinkCaller, UnlinkCaller, AppendVersion, ExtractFirst, GenerateFirst, Elsewhere
<1> QED BY <1>1, <1>2, <1>3, <1>4, <1>5, <1>6, <1>7 DEF ReadsNext, readVars

LEMMA AccessStays == [ReadsNext]_readVars => UNCHANGED access
<1> SUFFICES ASSUME [ReadsNext]_readVars PROVE UNCHANGED access
  OBVIOUS
<1>1. ASSUME NEW route \in Routes, Ask(route) PROVE UNCHANGED access
  BY <1>1 DEF Ask
<1>2. ReadStep => UNCHANGED access
  BY DEF ReadStep, LookUpVersion, LookUpDocument, LookUpBuried, LookUpTarget, CheckDocument, CheckLinks,
         FetchRaw, FetchSemantic, FetchMarkdown, FetchBytes, Others
<1>3. ArchiveRow \/ UnarchiveRow \/ LinkCaller \/ UnlinkCaller \/ AppendVersion \/ ExtractFirst \/ GenerateFirst
        \/ PurgeListed \/ PurgeStatement \/ ReadsCrash => UNCHANGED access
  BY DEF ArchiveRow, UnarchiveRow, LinkCaller, UnlinkCaller, AppendVersion, ExtractFirst, GenerateFirst, Elsewhere,
         PurgeListed, PurgeStatement, ReadsCrash
<1> QED BY <1>1, <1>2, <1>3 DEF ReadsNext, readVars

(* What is the case in a state is so or is not. *)
LEMMA WitnessTyped ==
    ASSUME ReadsInv, ReadsInv', witnessed \in [hidden : BOOLEAN, lacking : BOOLEAN, gone : BOOLEAN],
           [ReadsNext]_readVars
    PROVE  witnessed' \in [hidden : BOOLEAN, lacking : BOOLEAN, gone : BOOLEAN]
<1>1. CASE UNCHANGED witnessed
  BY <1>1
<1>2. CASE Witness
  <2>1. catalogued'.purged \in BOOLEAN /\ witnessed.gone \in BOOLEAN
    BY DEF ReadsInv
  <2>2. NothingWitnessed \in [hidden : BOOLEAN, lacking : BOOLEAN, gone : BOOLEAN]
    BY DEF NothingWitnessed
  <2>3. \/ witnessed' = witnessed
        \/ \E was \in {witnessed, NothingWitnessed}, g \in {catalogued'.purged, witnessed.gone} :
              witnessed' = [hidden  |-> was.hidden \/ HiddenFrom(request'.route, catalogued'),
                            lacking |-> was.lacking \/ Lacking(request'.route, catalogued'),
                            gone    |-> g]
    BY <1>2 DEF Witness
  <2>4. CASE witnessed' = witnessed
    BY <2>4
  <2>5. ASSUME NEW was \in {witnessed, NothingWitnessed}, NEW g \in {catalogued'.purged, witnessed.gone},
               NEW h, h = HiddenFrom(request'.route, catalogued'),
               NEW l, l = Lacking(request'.route, catalogued'),
               witnessed' = [hidden |-> was.hidden \/ h, lacking |-> was.lacking \/ l, gone |-> g]
        PROVE  witnessed' \in [hidden : BOOLEAN, lacking : BOOLEAN, gone : BOOLEAN]
    <3>1. g \in BOOLEAN /\ (was.hidden \/ h) \in BOOLEAN /\ (was.lacking \/ l) \in BOOLEAN
      BY <2>1
    <3> QED BY <2>5, <3>1
  <2> QED BY <2>3, <2>4, <2>5
<1> QED BY <1>1, <1>2 DEF ReadsNext, readVars

(* A request is at a statement of its route, and its answer has a code of   *)
(* those a route may give, whatever the rest of the deployment does.       *)
THEOREM ReadsAreTyped == ReadsSpec => []ReadsTypeOK
<1>1. ReadsInit => ReadsBeside
  BY DEF ReadsInit, ReadsBeside, NothingWitnessed
<1>2. ReadsInv /\ ReadsInv' /\ ReadsBeside /\ [ReadsNext]_readVars => ReadsBeside'
  BY PurgeTyped, AccessStays, WitnessTyped DEF ReadsBeside
<1>3. ReadsInv /\ ReadsBeside => ReadsTypeOK
  <2> SUFFICES ASSUME ReadsInv, ReadsBeside PROVE ReadsTypeOK
    OBVIOUS
  <2>1. request.todo \in Seq(Statements)
    BY PendingStatements DEF ReadsInv
  <2>2. \A i \in 1..Len(request.todo) : request.todo[i] \in Statements
    BY <2>1
  <2>3. \A i \in 1..Len(purge) : purge[i] \in {"bytes", "row", "second"}
    BY DEF ReadsBeside, PurgeStatements
  <2>4. request.route \in Named /\ request.target \in Targets /\ request.code \in Codes
    BY DEF ReadsInv, ReadRequests
  <2> QED BY <2>2, <2>3, <2>4 DEF ReadsInv, ReadsBeside, ReadsTypeOK, Named, Targets, Codes
<1> QED BY <1>1, <1>2, <1>3, ReadsInductive, PTL DEF ReadsSpec

(* What requests with a key hold, and what is kept and promised for them,   *)
(* is of their kinds.                                                      *)
THEOREM KeyedIsTyped == KeyedSpec => []KeyedTypeOK
<1>1. KeyedInv => KeyedTypeOK
  <2> SUFFICES ASSUME KeyedInv PROVE KeyedTypeOK
    OBVIOUS
  <2>1. ASSUME NEW c \in Clients PROVE sent[c] \in SentRequests
    BY DEF KeyedInv
  <2>2. ASSUME NEW c \in Clients
        PROVE  /\ sent[c].route \in KeyedRoutes /\ sent[c].key \in Keys
               /\ sent[c].body \in Bodies /\ sent[c].promise \in Bodies
               /\ sent[c].code \in {0, 200, 404, 409, 422, 500, 502}
    BY <2>1 DEF SentRequests, KeyedCodes
  <2> QED BY <2>2 DEF KeyedInv, KeyedVersions, KeyedTypeOK, Methods
<1> QED BY <1>1, KeyedInductive, PTL

-----------------------------------------------------------------------------
(* How many numbers there are up to n. *)
LEMMA IntervalCounted == \A n \in Nat : IsFiniteSet(1..n) /\ Cardinality(1..n) = n
  BY FS_Interval

(* A power of two counts the subsets of an interval. *)
LEMMA PowerIsNumber == \A n \in Nat : 2^n \in Nat
<1> TAKE n \in Nat
<1>1. IsFiniteSet(1..n) /\ Cardinality(1..n) = n
  BY IntervalCounted
<1>2. IsFiniteSet(SUBSET (1..n)) /\ Cardinality(SUBSET (1..n)) = 2^n
  BY <1>1, FS_SUBSET
<1> QED BY <1>2, FS_CardinalityType

(* However long a server asks to wait, the delay slept is capped. *)
LEMMA DelaysAreCapped ==
    ASSUME NEW failure, NEW attempt \in Nat
    PROVE  RetryDelays(failure, attempt) \subseteq 0..BackoffCap
<1>1. BackoffCap \in Nat /\ 2^attempt \in Nat
  BY ModelCallsAssumption, PowerIsNumber
<1>2. \A delay \in Nat : AtMostCap(delay) \in 0..BackoffCap
  BY <1>1 DEF AtMostCap
<1>3. \A asked \in {-1, 1, BackoffCap + 1} : (IF asked < 0 THEN 0 ELSE asked) \in Nat
  BY <1>1
<1>4. \A jitter \in {0, 1} : 2^attempt + jitter \in Nat
  BY <1>1
<1> HIDE DEF AtMostCap
<1> QED BY <1>2, <1>3, <1>4 DEF RetryDelays

CappedCalls == [stage : CallStages, attempt : 0..MaxRetries, delay : 0..BackoffCap]

(* Nothing sleeps before a last attempt that it has not got. *)
CallsAreCapped ==
    /\ calls \in [ModelCallers -> CappedCalls]
    /\ \A c \in ModelCallers : calls[c].stage = "sleeping" => calls[c].attempt < MaxRetries

(* One call goes on. *)
LEMMA CallCapped ==
    ASSUME CallsAreCapped, NEW c \in ModelCallers, NEW to \in CappedCalls, Call(c, to),
           to.stage = "sleeping" => to.attempt < MaxRetries
    PROVE  CallsAreCapped'
<1>1. calls' = [calls EXCEPT ![c] = to]
  BY DEF Call
<1>2. calls' \in [ModelCallers -> CappedCalls]
  BY <1>1 DEF CallsAreCapped
<1>3. \A b \in ModelCallers : calls'[b] = IF b = c THEN to ELSE calls[b]
  BY <1>1 DEF CallsAreCapped
<1> QED BY <1>2, <1>3 DEF CallsAreCapped, CappedCalls

LEMMA NoCallIsCapped == NoCall \in CappedCalls /\ NoCall.stage = "none"
  BY ModelCallsAssumption DEF NoCall, CappedCalls, CallStages

LEMMA CapsKept == CallsAreCapped /\ [ModelNext]_modelVars => CallsAreCapped'
<1> SUFFICES ASSUME CallsAreCapped, [ModelNext]_modelVars PROVE CallsAreCapped'
  OBVIOUS
<1>1. "chat" \in ModelCallers /\ "extraction" \in ModelCallers
  BY DEF ModelCallers
<1>2. CASE UNCHANGED calls
  BY <1>2 DEF CallsAreCapped, CappedCalls
<1>3. ASSUME NEW c \in ModelCallers, SendRequest(c) PROVE CallsAreCapped'
  <2> DEFINE to == [calls[c] EXCEPT !.stage = "flight"]
  <2>1. to \in CappedCalls /\ to.stage = "flight"
    BY DEF CallsAreCapped, CappedCalls, CallStages
  <2>2. Call(c, to)
    BY <1>3 DEF SendRequest
  <2> HIDE DEF to
  <2> QED BY <2>1, <2>2, CallCapped
<1>4. ASSUME NEW c \in ModelCallers, BackOff(c) PROVE CallsAreCapped'
  <2>1. calls[c] \in CappedCalls
    BY DEF CallsAreCapped
  <2>2. calls[c].attempt \in Nat /\ calls[c].attempt \in 0..MaxRetries /\ calls[c].attempt < MaxRetries
    BY <1>4, <2>1, ModelCallsAssumption DEF BackOff, CappedCalls
  <2>3. PICK failure \in Failures : \E d \in RetryDelays(failure, calls[c].attempt) :
           Call(c, [calls[c] EXCEPT !.stage = "sleeping", !.delay = d])
    BY <1>4 DEF BackOff
  <2>4. PICK d \in RetryDelays(failure, calls[c].attempt) :
           Call(c, [calls[c] EXCEPT !.stage = "sleeping", !.delay = d])
    BY <2>3
  <2>5. d \in 0..BackoffCap
    BY <2>2, <2>4, DelaysAreCapped
  <2> DEFINE to == [calls[c] EXCEPT !.stage = "sleeping", !.delay = d]
  <2>6. to \in CappedCalls /\ to.attempt = calls[c].attempt
    BY <2>1, <2>5 DEF CappedCalls, CallStages
  <2>7. Call(c, to)
    BY <2>4
  <2> HIDE DEF to
  <2> QED BY <2>2, <2>6, <2>7, CallCapped
<1>5. ASSUME NEW c \in ModelCallers, WakeUp(c) PROVE CallsAreCapped'
  <2>1. calls[c] \in CappedCalls /\ calls[c].stage = "sleeping" /\ calls[c].attempt < MaxRetries
    BY <1>5 DEF CallsAreCapped, WakeUp
  <2> DEFINE to == [stage |-> "waiting", attempt |-> calls[c].attempt + 1, delay |-> 0]
  <2>2. to \in CappedCalls /\ to.stage = "waiting"
    BY <2>1, ModelCallsAssumption DEF CappedCalls, CallStages
  <2>3. Call(c, to)
    BY <1>5 DEF WakeUp
  <2> HIDE DEF to
  <2> QED BY <2>2, <2>3, CallCapped
<1>6. ASSUME NEW c \in ModelCallers, Returns(c) PROVE CallsAreCapped'
  BY <1>6, NoCallIsCapped, CallCapped DEF Returns
<1>7. CASE AskText \/ AskBatch
  <2> DEFINE to == [NoCall EXCEPT !.stage = "waiting"]
  <2>1. to \in CappedCalls /\ to.stage = "waiting"
    BY ModelCallsAssumption DEF NoCall, CappedCalls, CallStages
  <2>2. \E c \in ModelCallers : Call(c, to)
    BY <1>1, <1>7 DEF AskText, AskBatch
  <2> HIDE DEF to
  <2> QED BY <2>1, <2>2, CallCapped
<1>8. CASE ModelRestart
  <2>1. calls' = [c \in ModelCallers |-> NoCall]
    BY <1>8 DEF ModelRestart
  <2> QED BY <2>1, NoCallIsCapped DEF CallsAreCapped, CappedCalls
<1> QED
  BY <1>1, <1>2, <1>3, <1>4, <1>5, <1>6, <1>7, <1>8
     DEF ModelNext, TextReturns, BatchAnswered, BatchFails, ExtractTriples, SkipBatch, ExtractionEnds,
         GenerateAssets, modelVars

-----------------------------------------------------------------------------
Dearest == Max(AnswerCosts \cup {0})

(* No answer has been paid for but those to batches that are not left. *)
Paid == mining.used <= (Len(Sections) - Cardinality(mining.todo)) * Dearest

(* The numbers of the sections, and how many of them are left. *)
LEMMA SectionsCounted ==
    /\ Len(Sections) \in Nat
    /\ \A S \in SUBSET SectionNumbers :
          IsFiniteSet(S) /\ Cardinality(S) \in 0..Len(Sections)
<1>1. Len(Sections) \in Nat /\ SectionNumbers = 1..Len(Sections)
  BY ModelCallsAssumption DEF SectionNumbers
<1> HIDE DEF SectionNumbers
<1>2. IsFiniteSet(1..Len(Sections)) /\ Cardinality(1..Len(Sections)) = Len(Sections)
  BY <1>1, IntervalCounted
<1>3. ASSUME NEW S \in SUBSET SectionNumbers PROVE IsFiniteSet(S) /\ Cardinality(S) \in 0..Len(Sections)
  <2>1. IsFiniteSet(SectionNumbers) /\ Cardinality(SectionNumbers) = Len(Sections)
    BY <1>1, <1>2
  <2>2. IsFiniteSet(S) /\ Cardinality(S) <= Len(Sections)
    BY <2>1, FS_Subset
  <2>3. Cardinality(S) \in Nat
    BY <2>2, FS_CardinalityType
  <2> QED BY <1>1, <2>2, <2>3
<1> QED BY <1>1, <1>3

(* The next batch of an unfinished extraction has a section. *)
LEMMA NextBatchShortens ==
    ASSUME mining.todo \in SUBSET SectionNumbers, mining.todo # {}, provider.batch \in BatchSizes
    PROVE  Cardinality(mining.todo \ NextBatch) < Cardinality(mining.todo)
<1>1. SectionNumbers \subseteq Nat
  BY ModelCallsAssumption DEF SectionNumbers
<1>2. PICK s \in mining.todo : \A t \in mining.todo : s <= t
  BY <1>1, LeastNumber
<1>3. {t \in mining.todo : t < s} = {}
  <2>1. \A t \in mining.todo : t \in Nat /\ s \in Nat /\ s <= t
    BY <1>1, <1>2
  <2>2. \A t \in mining.todo : ~(t < s)
    BY <2>1
  <2> QED BY <2>2
<1>4. s \in NextBatch
  <2>1. provider.batch \in Nat \ {0}
    BY ModelCallsAssumption
  <2>2. Cardinality({t \in mining.todo : t < s}) = 0
    BY <1>3, FS_EmptySet
  <2> QED BY <2>1, <2>2 DEF NextBatch
<1>5. mining.todo \ NextBatch \subseteq mining.todo /\ mining.todo \ NextBatch # mining.todo
  BY <1>4
<1>6. IsFiniteSet(mining.todo) /\ Cardinality(mining.todo) \in Nat
  BY SectionsCounted
<1> HIDE DEF NextBatch
<1> QED BY <1>5, <1>6, FS_Subset, FS_CardinalityType

LEMMA Products ==
    /\ \A a, b, m \in Nat : a <= b => a * m <= b * m
    /\ \A a, m \in Nat : (a + 1) * m = a * m + m /\ a * m \in Nat
  OBVIOUS

(* An answer is paid for by the sections it takes. *)
LEMMA PaidStep ==
    ASSUME ModelInv, ModelInv', Paid, provider.batch \in BatchSizes, [ModelNext]_modelVars
    PROVE  Paid'
<1>1. /\ mining \in Minings /\ mining.todo \in SUBSET SectionNumbers /\ mining.used \in Nat
      /\ mining'.todo \in SUBSET SectionNumbers /\ mining'.used \in Nat
  BY DEF ModelInv, MiningInv, Minings
<1>2. /\ Len(Sections) \in Nat
      /\ Cardinality(mining.todo) \in 0..Len(Sections) /\ Cardinality(mining'.todo) \in 0..Len(Sections)
  BY <1>1, SectionsCounted
<1>3. Dearest \in Nat /\ \A cost \in AnswerCosts : cost \in Nat /\ cost <= Dearest
  BY DearestAnswer, ModelCallsAssumption DEF Dearest
<1> DEFINE done == Len(Sections) - Cardinality(mining.todo)
           next == Len(Sections) - Cardinality(mining'.todo)
<1>4. done \in Nat /\ next \in Nat
  BY <1>2
<1>5. CASE mining'.used = 0
  <2>1. next * Dearest \in Nat
    BY <1>3, <1>4, Products
  <2> HIDE DEF next
  <2> QED BY <1>5, <2>1 DEF Paid, next
<1>6. CASE mining'.used = mining.used /\ mining'.todo \subseteq mining.todo
  <2>1. IsFiniteSet(mining.todo)
    BY <1>1, SectionsCounted
  <2>2. Cardinality(mining'.todo) <= Cardinality(mining.todo)
    BY <1>6, <2>1, FS_Subset
  <2>3. done <= next
    BY <1>2, <2>2
  <2>4. done * Dearest <= next * Dearest /\ done * Dearest \in Nat /\ next * Dearest \in Nat
    BY <1>3, <1>4, <2>3, Products
  <2>5. mining.used <= done * Dearest
    BY DEF Paid
  <2> HIDE DEF done, next
  <2>6. mining'.used <= next * Dearest
    BY <1>1, <1>6, <2>4, <2>5
  <2> QED BY <2>6 DEF Paid, next
<1>7. ASSUME NEW cost \in AnswerCosts, mining'.used = mining.used + cost,
             mining'.todo = mining.todo \ NextBatch, mining.todo # {}
      PROVE  Paid'
  <2>1. Cardinality(mining'.todo) < Cardinality(mining.todo)
    BY <1>1, <1>7, NextBatchShortens
  <2>2. done + 1 <= next
    BY <1>2, <2>1
  <2>3. mining.used <= done * Dearest
    BY DEF Paid
  <2> HIDE DEF done, next
  <2>4. done + 1 \in Nat
    BY <1>4
  <2>5. (done + 1) * Dearest <= next * Dearest
    BY <1>3, <1>4, <2>2, <2>4, Products
  <2>6. (done + 1) * Dearest = done * Dearest + Dearest /\ done * Dearest \in Nat /\ next * Dearest \in Nat
    BY <1>3, <1>4, Products
  <2>7. cost \in Nat /\ cost <= Dearest
    BY <1>3
  <2>8. mining'.used = mining.used + cost
    BY <1>7
  <2>9. mining'.used <= next * Dearest
    BY <1>1, <1>3, <2>3, <2>5, <2>6, <2>7, <2>8
  <2> QED BY <2>9 DEF Paid, next
<1>8. CASE ExtractTriples \/ ModelRestart
  <2> DEFINE with == {s \in SectionNumbers : Sections[s] # {}}
             without == {s \in SectionNumbers : Sections[s] = {}}
  <2>2. \/ mining' = NotMining
        \/ mining' = [NotMining EXCEPT !.stage = "batches", !.todo = with, !.warned = without]
    BY <1>8 DEF ExtractTriples, ModelRestart
  <2> HIDE DEF with, without
  <2>3. NotMining.used = 0 /\ "used" \in DOMAIN NotMining
    BY DEF NotMining
  <2>4. [NotMining EXCEPT !.stage = "batches", !.todo = with, !.warned = without].used = 0
    BY <2>3
  <2>1. mining'.used = 0
    BY <2>2, <2>3, <2>4
  <2> QED BY <1>5, <2>1
<1>9. CASE SkipBatch \/ BatchFails \/ ExtractionEnds
  <2>1. mining'.used = mining.used /\ mining'.todo \subseteq mining.todo
    BY <1>1, <1>9 DEF SkipBatch, BatchFails, ExtractionEnds, Minings
  <2> QED BY <1>6, <2>1
<1>10. CASE BatchAnswered
  <2>1. PICK t \in Said(NextBatch), cost \in AnswerCosts :
          mining' = [mining EXCEPT
             !.todo = @ \ NextBatch, !.used = @ + cost,
             !.answered = @ \cup NextBatch,
             !.triples = IF IsGrounded(t, NextBatch) THEN @ \cup {t} ELSE @,
             !.warned = IF ~IsGrounded(t, NextBatch) /\ t.section \in NextBatch
                        THEN @ \cup {t.section} ELSE @]
    BY <1>10 DEF BatchAnswered
  <2>2. mining'.used = mining.used + cost /\ mining'.todo = mining.todo \ NextBatch
    BY <1>1, <2>1 DEF Minings
  <2>3. mining.todo # {}
    <3>1. calls["extraction"].stage = "flight"
      BY <1>10 DEF BatchAnswered, Returns
    <3> QED BY <3>1 DEF ModelInv, MiningInv
  <2> QED BY <1>7, <2>2, <2>3
<1>11. CASE UNCHANGED mining
  BY <1>6, <1>11
<1>12. AskText \/ TextReturns \/ AskBatch \/ GenerateAssets => UNCHANGED mining
  BY DEF AskText, TextReturns, AskBatch, GenerateAssets
<1>13. \A c \in ModelCallers : SendRequest(c) \/ BackOff(c) \/ WakeUp(c) => UNCHANGED mining
  BY DEF SendRequest, BackOff, WakeUp
<1> QED BY <1>8, <1>9, <1>10, <1>11, <1>12, <1>13 DEF ModelNext, modelVars

(* What the calls and the mining leave open: the client that is configured, *)
(* the permits that are left and the assets.                               *)
ModelBeside ==
    /\ provider \in [client : ModelClients, batch : BatchSizes]
    /\ permits \in Nat
    /\ assets \subseteq SUBSET SectionNumbers

LEMMA BesideKept == ModelBeside /\ [ModelNext]_modelVars => ModelBeside'
<1> SUFFICES ASSUME ModelBeside, [ModelNext]_modelVars PROVE ModelBeside'
  OBVIOUS
<1>1. UNCHANGED provider
  BY DEF ModelNext, modelVars, AskText, TextReturns, BatchAnswered, BatchFails, Returns, ExtractTriples, SkipBatch,
         AskBatch, ExtractionEnds, GenerateAssets, ModelRestart, SendRequest, BackOff, WakeUp
<1>2. \/ permits' = permits \/ permits' = permits + 1 \/ permits' = MaxConcurrent
      \/ permits > 0 /\ permits' = permits - 1
  BY DEF ModelNext, modelVars, AskText, TextReturns, BatchAnswered, BatchFails, Returns, ExtractTriples, SkipBatch,
         AskBatch, ExtractionEnds, GenerateAssets, ModelRestart, SendRequest, BackOff, WakeUp
<1>3. permits' \in Nat
  BY <1>2, ModelCallsAssumption DEF ModelBeside
<1>4. GenerateAssets => assets' \subseteq SUBSET SectionNumbers
  BY DEF GenerateAssets
<1>5. GenerateAssets \/ UNCHANGED assets
  BY DEF ModelNext, modelVars, AskText, TextReturns, BatchAnswered, BatchFails, Returns, ExtractTriples, SkipBatch,
         AskBatch, ExtractionEnds, GenerateAssets, ModelRestart, SendRequest, BackOff, WakeUp
<1> QED BY <1>1, <1>3, <1>4, <1>5 DEF ModelBeside

(* Nothing is slept for longer than the cap or after the last attempt, and  *)
(* no more tokens are used than the answers to all sections can cost.       *)
THEOREM ModelIsTyped == ModelSpec => []ModelTypeOK
<1>1. ModelInit => ModelBeside /\ CallsAreCapped /\ Paid
  <2> SUFFICES ASSUME ModelInit PROVE ModelBeside /\ CallsAreCapped /\ Paid
    OBVIOUS
  <2>1. ModelBeside
    BY ModelCallsAssumption DEF ModelInit, ModelBeside
  <2>2. CallsAreCapped
    BY NoCallIsCapped DEF ModelInit, CallsAreCapped
  <2>3. Paid
    <3>1. mining.used = 0 /\ mining.todo \in SUBSET SectionNumbers
      BY DEF ModelInit, NotMining
    <3>2. Len(Sections) - Cardinality(mining.todo) \in Nat
      BY <3>1, SectionsCounted
    <3>3. Dearest \in Nat
      BY DearestAnswer DEF Dearest
    <3>4. (Len(Sections) - Cardinality(mining.todo)) * Dearest \in Nat
      BY <3>2, <3>3, Products
    <3> QED BY <3>1, <3>4 DEF Paid
  <2> QED BY <2>1, <2>2, <2>3
<1>2. ModelInv /\ ModelInv' /\ ModelBeside /\ Paid /\ [ModelNext]_modelVars => Paid'
  BY PaidStep DEF ModelBeside
<1>3. ModelInv /\ ModelBeside /\ CallsAreCapped /\ Paid => ModelTypeOK
  <2> SUFFICES ASSUME ModelInv, ModelBeside, CallsAreCapped, Paid PROVE ModelTypeOK
    OBVIOUS
  <2>1. permits \in 0..MaxConcurrent
    <3>1. PermitsComeBack /\ Cardinality({c \in ModelCallers : calls[c].stage = "flight"}) \in Nat
      BY OnTheWireCounted, ModelCallsAssumption DEF ModelInv, OnTheWire, PermitsComeBack
    <3> QED BY <3>1, ModelCallsAssumption DEF ModelBeside, PermitsComeBack
  <2>2. mining \in Minings
    BY DEF ModelInv, MiningInv
  <2>3. mining.used \in 0..(Len(Sections) * Dearest)
    <3> DEFINE done == Len(Sections) - Cardinality(mining.todo)
    <3>1. done \in Nat /\ done <= Len(Sections) /\ Len(Sections) \in Nat
      BY <2>2, SectionsCounted DEF Minings
    <3>2. Dearest \in Nat
      BY DearestAnswer DEF Dearest
    <3>3. mining.used <= done * Dearest /\ mining.used \in Nat
      BY <2>2 DEF Paid, Minings
    <3> HIDE DEF done
    <3>4. done * Dearest <= Len(Sections) * Dearest /\ done * Dearest \in Nat
      BY <3>1, <3>2, Products
    <3>5. Len(Sections) * Dearest \in Nat
      BY <3>1, <3>2, Products
    <3> QED BY <3>3, <3>4, <3>5
  <2> QED BY <2>1, <2>2, <2>3 DEF ModelTypeOK, ModelBeside, CallsAreCapped, CappedCalls, Minings, Dearest
<1> QED BY <1>1, <1>2, <1>3, ModelInductive, BesideKept, CapsKept, PTL DEF ModelSpec

-----------------------------------------------------------------------------
(* Types of the tables whose rows are read in order.                       *)

(* The edges of a pair make an aggregate: its strongest, few enough, and    *)
(* their number.                                                           *)
LEMMA AggregateFacts ==
    ASSUME NEW edges \in SUBSET EdgeRanks, edges # {}
    PROVE  AggregateOf(edges) \in Evidence
<1>1. EdgeRanks \subseteq Nat \ {0} /\ IsFiniteSet(EdgeRanks) /\ CacheTopN \in Nat \ {0}
  BY RelationsAssumption
<1>2. IsFiniteSet(edges) /\ Total(Ascending(edges), edges)
  <2>1. edges \in SUBSET Int
    BY <1>1
  <2> QED BY <1>1, <2>1, FS_Subset, AscendingFacts
<1>3. Cardinality(edges) \in 1..Cardinality(EdgeRanks)
  <2>1. Cardinality(edges) \in Nat /\ Cardinality(EdgeRanks) \in Nat
        /\ Cardinality(edges) <= Cardinality(EdgeRanks)
    BY <1>1, <1>2, FS_CardinalityType, FS_Subset
  <2>2. Cardinality(edges) # 0
    BY <1>2, FS_EmptySet
  <2> QED BY <2>1, <2>2
<1> DEFINE ranked == InOrder(edges, Ascending(edges))
           n == IF Len(ranked) < CacheTopN THEN Len(ranked) ELSE CacheTopN
<1>4. ranked \in Seq(edges) /\ Len(ranked) = Cardinality(edges)
  BY <1>2, InOrderFacts
<1>5. AggregateOf(edges) = [top |-> SubSeq(ranked, 1, n), count |-> Cardinality(edges)]
  BY DEF AggregateOf, RankPairs, FirstFew
<1> HIDE DEF ranked
<1>6. n \in 1..CacheTopN /\ n <= Len(ranked)
  BY <1>1, <1>3, <1>4
<1> HIDE DEF n
<1>7. SubSeq(ranked, 1, n) \in [1..n -> EdgeRanks]
  <2>1. Len(ranked) \in Nat /\ n \in Nat
    BY <1>1, <1>4, <1>6
  <2>2. SubSeq(ranked, 1, n) = [i \in 1..n |-> ranked[i]]
    BY <1>4, <1>6, <2>1
  <2>3. \A i \in 1..Len(ranked) : ranked[i] \in edges
    BY <1>4
  <2>4. \A i \in 1..n : ranked[i] \in EdgeRanks
    BY <1>6, <2>1, <2>3
  <2> QED BY <2>2, <2>4
<1>8. SubSeq(ranked, 1, n) \in UNION {[1..k -> EdgeRanks] : k \in 1..CacheTopN}
  BY <1>6, <1>7
<1> QED BY <1>3, <1>5, <1>8 DEF Evidence

(* What is computed of a pair that has edges, and what is kept and held of  *)
(* it, is an aggregate.                                                    *)
LEMMA ExplainedIsEvidence ==
    ASSUME RelationsShape, NEW p \in Pairs, ExplainAggregate(p) # NoEvidence
    PROVE  ExplainAggregate(p) \in Evidence
<1>1. bridges[{p[1], p[2]}] \in SUBSET EdgeRanks
  BY PairFacts DEF RelationsShape
<1> QED BY <1>1, AggregateFacts DEF ExplainAggregate

EvidenceKept ==
    /\ relationRows \in [Pairs -> Evidence \cup {NoEvidence}]
    /\ \A w \in Projecting : warming[w].stage = "write" => warming[w].evidence \in Evidence
    /\ \A r \in Reading : reading[r] # NotReading => reading[r].evidence \in Evidence

LEMMA EvidenceStays ==
    RelationsShape /\ EvidenceKept /\ [RelationsNext]_relationVars => EvidenceKept'
<1> SUFFICES ASSUME RelationsShape, EvidenceKept, [RelationsNext]_relationVars
             PROVE  EvidenceKept'
  OBVIOUS
<1>1. /\ warming \in [Projecting -> Warmings] /\ reading \in [Reading -> Readings]
      /\ relationRows \in [Pairs -> Evidence \cup {NoEvidence}]
      /\ \A w \in Projecting : warming[w].stage = "write" => warming[w].pair \in warming[w].todo
      /\ \A r \in Reading : reading[r] # NotReading => reading[r].pair \in Pairs
  BY DEF RelationsShape, EvidenceKept
<1>2. \A w \in Projecting : warming[w].todo \subseteq Pairs
  BY <1>1 DEF Warmings
(* The row written is evidence held. *)
<1>3. ASSUME NEW p \in Pairs, NEW evidence \in Evidence, Upsert(p, evidence)
      PROVE  relationRows' \in [Pairs -> Evidence \cup {NoEvidence}]
  BY <1>1, <1>3 DEF Upsert
(* A thread whose next stage is no write holds nothing that matters. *)
<1>4. ASSUME NEW w \in Projecting, NEW new,
             warming' = [warming EXCEPT ![w] = new],
             new.stage = "write" => new.evidence \in Evidence
      PROVE  \A x \in Projecting : warming'[x].stage = "write" => warming'[x].evidence \in Evidence
  BY <1>1, <1>4 DEF EvidenceKept
<1>5. NotWarming.stage = "none"
  BY DEF NotWarming
<1>6. ASSUME NEW w \in Projecting, NEW d \in Related, ProjectDocument(w, d) PROVE EvidenceKept'
  <2>1. [NotWarming EXCEPT !.stage = "list", !.of = d].stage = "list"
    BY DEF NotWarming
  <2> QED BY <1>4, <1>6, <2>1 DEF ProjectDocument, EvidenceKept
<1>7. ASSUME NEW d \in Related, DropSubgraph(d) PROVE EvidenceKept'
  BY <1>7 DEF DropSubgraph, EvidenceKept
<1>8. ASSUME NEW w \in Projecting, WarmList(w) PROVE EvidenceKept'
  <2> DEFINE new == [warming[w] EXCEPT !.stage = "pairs", !.todo = PairsToWarm(warming[w].of)]
  <2>1. new.stage = "pairs" /\ warming' = [warming EXCEPT ![w] = new]
    BY <1>1, <1>8 DEF WarmList, Warmings
  <2> HIDE DEF new
  <2> QED BY <1>4, <1>8, <2>1 DEF WarmList, EvidenceKept
<1>9. ASSUME NEW w \in Projecting, WarmListFails(w) \/ WarmEnds(w) PROVE EvidenceKept'
  BY <1>4, <1>5, <1>9 DEF WarmListFails, WarmEnds, EvidenceKept
<1>10. ASSUME NEW w \in Projecting, WarmCompute(w) PROVE EvidenceKept'
  <2>1. PICK p \in warming[w].todo :
          IF ExplainAggregate(p) = NoEvidence
          THEN warming' = [warming EXCEPT ![w].todo = @ \ {p}]
          ELSE warming' = [warming EXCEPT ![w].stage = "write", ![w].pair = p,
                                          ![w].evidence = ExplainAggregate(p)]
    BY <1>10 DEF WarmCompute
  <2>2. p \in Pairs /\ warming[w].stage = "pairs"
    BY <1>2, <1>10, <2>1 DEF WarmCompute
  <2>3. CASE ExplainAggregate(p) = NoEvidence
    <3> DEFINE new == [warming[w] EXCEPT !.todo = warming[w].todo \ {p}]
    <3>1. new.stage = "pairs" /\ warming' = [warming EXCEPT ![w] = new]
      BY <1>1, <2>1, <2>2, <2>3 DEF Warmings
    <3> HIDE DEF new
    <3> QED BY <1>4, <1>10, <3>1 DEF WarmCompute, EvidenceKept
  <2>4. CASE ExplainAggregate(p) # NoEvidence
    <3>0. PICK evidence : evidence = ExplainAggregate(p)
      OBVIOUS
    <3> DEFINE new == [warming[w] EXCEPT !.stage = "write", !.pair = p, !.evidence = evidence]
    <3>1. new.evidence = evidence /\ warming' = [warming EXCEPT ![w] = new]
      <4>1. warming[w] \in Warmings
        BY <1>1
      <4>2. new.evidence = evidence
        BY <4>1 DEF Warmings
      <4> QED BY <1>1, <2>1, <2>4, <3>0, <4>2
    <3>2. ExplainAggregate(p) \in Evidence
      BY <2>2, <2>4, ExplainedIsEvidence
    <3> HIDE DEF new
    <3> QED BY <1>4, <1>10, <3>0, <3>1, <3>2 DEF WarmCompute, EvidenceKept
  <2> QED BY <2>3, <2>4
<1>11. ASSUME NEW w \in Projecting, WarmWrite(w) \/ WarmPairFails(w) PROVE EvidenceKept'
  <2> DEFINE new == [warming[w] EXCEPT !.stage = "pairs", !.todo = warming[w].todo \ {warming[w].pair},
                                       !.pair = <<>>, !.evidence = NoEvidence]
  <2>1. new.stage = "pairs" /\ warming' = [warming EXCEPT ![w] = new] /\ UNCHANGED reading
    BY <1>1, <1>11 DEF WarmWrite, WarmPairFails, Warmings
  <2>2. warming[w].pair \in Pairs /\ warming[w].evidence \in Evidence
    BY <1>1, <1>2, <1>11 DEF WarmWrite, WarmPairFails, EvidenceKept
  <2>3. relationRows' \in [Pairs -> Evidence \cup {NoEvidence}]
    BY <1>1, <1>3, <1>11, <2>2 DEF WarmWrite, WarmPairFails
  <2> HIDE DEF new
  <2> QED BY <1>4, <2>1, <2>3 DEF EvidenceKept
<1>12. ASSUME NEW r \in Reading, NEW p \in Pairs, NEW refresh \in BOOLEAN, Read(r, p, refresh)
       PROVE  EvidenceKept'
  <2>1. /\ UNCHANGED <<relationRows, warming>> /\ ExplainAggregate(p) \in Evidence
        /\ reading' = [reading EXCEPT ![r] = [pair |-> p, evidence |-> ExplainAggregate(p)]]
    BY <1>12, ExplainedIsEvidence DEF Read
  <2> QED BY <1>1, <2>1 DEF EvidenceKept
<1>13. ASSUME NEW r \in Reading, ReadWrites(r) PROVE EvidenceKept'
  <2>1. /\ Upsert(reading[r].pair, reading[r].evidence) /\ UNCHANGED warming
        /\ reading' = [reading EXCEPT ![r] = NotReading]
        /\ reading[r].pair \in Pairs /\ reading[r].evidence \in Evidence
    BY <1>1, <1>13 DEF ReadWrites, EvidenceKept
  <2> QED BY <1>1, <1>3, <2>1 DEF EvidenceKept
<1>14. CASE RelationsCrash
  BY <1>5, <1>14 DEF RelationsCrash, EvidenceKept
<1>15. CASE UNCHANGED relationVars
  BY <1>15 DEF relationVars, EvidenceKept
<1> QED
  BY <1>6, <1>7, <1>8, <1>9, <1>10, <1>11, <1>12, <1>13, <1>14, <1>15 DEF RelationsNext

(* Every row of the table is an aggregate of edges there can be, and so is  *)
(* what a reader holds to write later, whatever is projected meanwhile.    *)
THEOREM RelationsAreTyped == RelationsSpec => []RelationsTypeOK
<1>1. RelationsInit => EvidenceKept
  BY DEF RelationsInit, EvidenceKept, NotWarming
<1>2. RelationsShape /\ EvidenceKept => RelationsTypeOK
  BY DEF RelationsShape, EvidenceKept, RelationsTypeOK, Warmings
<1>3. (RelationsShape /\ CachedIsCurrent) /\ EvidenceKept /\ [RelationsNext]_relationVars => EvidenceKept'
  BY EvidenceStays
<1> QED BY <1>1, <1>2, <1>3, CacheInductive, PTL DEF RelationsSpec

-----------------------------------------------------------------------------
(* A deployment's projector has hooks, each for one of the tables. *)
LEMMA HookFacts ==
    ASSUME NEW h \in Hooks
    PROVE  Len(h) \in Nat \ {0} /\ DOMAIN h = 1..Len(h) /\ \A i \in 1..Len(h) : h[i] \in ToSet(Tables)
<1>1. PICK on \in (SUBSET ToSet(Tables)) \ {{}} : h = Where(Tables, on)
  BY HooksAssumption DEF HooksAssumption
<1>2. Tables \in Seq(ToSet(Tables))
  BY DEF Tables, ToSet
<1>3. h \in Seq(ToSet(Tables) \cap on) /\ Range(h) = Range(Tables) \cap on
  BY <1>1, <1>2, WhereFacts
<1>4. Len(h) # 0
  <2>0. ToSet(Tables) = Range(Tables)
    BY DEF ToSet, Range
  <2>1. Range(Tables) \cap on # {}
    BY <1>1, <2>0
  <2>2. h # <<>>
    BY <1>3, <2>1 DEF Range
  <2> QED BY <1>3, <2>2
<1> QED BY <1>3, <1>4

EnrichmentRows == [id : Ids, at : Nat, by : Projections]

ActiveRuns == [stage : DOMAIN wired, step : {"extract", "save"}, layout : Layouts, batch : SUBSET Ids]

EnrichmentTyped ==
    /\ wired \in Hooks
    /\ rows \in [ToSet(Tables) -> SUBSET EnrichmentRows]
    /\ clock \in Nat
    /\ layout \in [raw : Layouts, semantic : Layouts]
    /\ projection \in [Projections -> {Waiting, Done} \cup ActiveRuns]
    /\ backfill \in {"idle", "raw", "semantic", "claims"}
    /\ "on" \in DOMAIN walk /\ walk.on \in BOOLEAN

(* A projection that runs is at the table of one of its hooks. *)
LEMMA RunFacts ==
    ASSUME EnrichmentTyped, NEW p \in Projections, projection[p].step \in {"extract", "save"}
    PROVE  /\ projection[p] \in ActiveRuns /\ projection[p].stage \in 1..Len(wired)
           /\ Table(p) \in ToSet(Tables)
<1>1. projection[p] \in {Waiting, Done} \cup ActiveRuns
  BY DEF EnrichmentTyped
<1>2. projection[p] \in ActiveRuns
  BY <1>1 DEF Waiting, Done
<1> QED BY <1>2, HookFacts DEF EnrichmentTyped, ActiveRuns, Table

LEMMA NextStageTyped ==
    ASSUME EnrichmentTyped, NEW p \in Projections, projection[p].step \in {"extract", "save"},
           NextStage(p), wired' = wired
    PROVE  projection' \in [Projections -> {Waiting, Done} \cup ActiveRuns']
<1>1. projection[p] \in ActiveRuns /\ projection[p].stage \in 1..Len(wired)
  BY RunFacts
<1>2. Len(wired) \in Nat /\ DOMAIN wired = 1..Len(wired)
  BY HookFacts DEF EnrichmentTyped
<1> DEFINE next == [projection[p] EXCEPT !.stage = projection[p].stage + 1, !.step = "extract", !.batch = {}]
<1>3. projection[p].stage # Len(wired) => next \in ActiveRuns
  <2> SUFFICES ASSUME projection[p].stage # Len(wired) PROVE next \in ActiveRuns
    OBVIOUS
  <2>1. projection[p].stage + 1 \in DOMAIN wired
    BY <1>1, <1>2
  <2> QED BY <1>1, <2>1 DEF ActiveRuns
<1>4. projection' = [projection EXCEPT ![p] = IF projection[p].stage = Len(wired) THEN Done ELSE next]
  BY DEF NextStage
<1>5. ActiveRuns' = ActiveRuns
  BY DEF ActiveRuns
<1> HIDE DEF next
<1> QED BY <1>3, <1>4, <1>5 DEF EnrichmentTyped

LEMMA EnrichmentTypeStep == EnrichmentTyped /\ [EnrichmentNext]_enrichmentVars => EnrichmentTyped'
<1> SUFFICES ASSUME EnrichmentTyped, [EnrichmentNext]_enrichmentVars PROVE EnrichmentTyped'
  OBVIOUS
<1>1. wired' = wired
  BY DEF EnrichmentNext, StartProjection, ExtractAndDelete, SaveRows, BackfillRaw, BackfillSemantic,
         BackfillDelete, BackfillFails, StartWalk, FetchPage, EnrichmentRestart, enrichmentVars
<1>2. ActiveRuns' = ActiveRuns
  BY <1>1 DEF ActiveRuns
<1>3. ASSUME NEW p \in Projections, StartProjection(p) PROVE EnrichmentTyped'
  <2>1. 1 \in DOMAIN wired
    BY HookFacts DEF EnrichmentTyped
  <2>2. [stage |-> 1, step |-> "extract", layout |-> layout.semantic, batch |-> {}] \in ActiveRuns
    BY <2>1 DEF EnrichmentTyped, ActiveRuns
  <2> QED BY <1>2, <1>3, <2>2 DEF StartProjection, EnrichmentTyped
<1>4. ASSUME NEW p \in Projections, ExtractAndDelete(p) PROVE EnrichmentTyped'
  <2>1. /\ projection[p].step = "extract" /\ projection[p] \in ActiveRuns
        /\ UNCHANGED <<wired, clock, layout, backfill, walk>>
    BY <1>4, RunFacts DEF ExtractAndDelete
  <2>2. rows' \in [ToSet(Tables) -> SUBSET EnrichmentRows]
    BY <1>4 DEF ExtractAndDelete, EnrichmentTyped
  <2>3. CASE NextStage(p)
    BY <2>1, <2>2, <2>3, NextStageTyped DEF EnrichmentTyped
  <2>4. ASSUME NEW b \in BatchesFrom(Table(p), projection[p].layout),
               projection' = [projection EXCEPT ![p].step = "save", ![p].batch = b]
        PROVE  EnrichmentTyped'
    <3>1. b \in SUBSET Ids
      <4>1. projection[p].layout \in Layouts
        BY <2>1 DEF ActiveRuns
      <4> QED BY <4>1, BatchIds
    <3>2. [projection[p] EXCEPT !.step = "save", !.batch = b] \in ActiveRuns
      BY <2>1, <3>1 DEF ActiveRuns
    <3> QED BY <1>2, <2>1, <2>2, <2>4, <3>2 DEF EnrichmentTyped
  <2> QED BY <1>4, <2>3, <2>4 DEF ExtractAndDelete
<1>5. ASSUME NEW p \in Projections, SaveRows(p) PROVE EnrichmentTyped'
  <2>1. /\ projection[p].step = "save" /\ projection[p] \in ActiveRuns /\ Table(p) \in ToSet(Tables)
        /\ NextStage(p) /\ UNCHANGED <<wired, layout, backfill, walk>>
    BY <1>5, RunFacts DEF SaveRows
  <2>2. RowsOf(p) \subseteq EnrichmentRows
    BY <2>1 DEF RowsOf, ActiveRuns, EnrichmentRows, EnrichmentTyped
  <2>3. rows' \in [ToSet(Tables) -> SUBSET EnrichmentRows]
    <3>1. rows[Table(p)] \in SUBSET EnrichmentRows
      BY <2>1 DEF EnrichmentTyped
    <3>2. CASE rows' = rows
      BY <3>2 DEF EnrichmentTyped
    <3>3. ASSUME NEW clash \in SUBSET rows[Table(p)],
                 rows' = [rows EXCEPT ![Table(p)] = (rows[Table(p)] \ clash) \cup RowsOf(p)]
          PROVE  rows' \in [ToSet(Tables) -> SUBSET EnrichmentRows]
      BY <2>2, <3>1, <3>3 DEF EnrichmentTyped
    <3> QED BY <1>5, <3>2, <3>3 DEF SaveRows
  <2>4. clock' \in Nat
    BY <1>5 DEF SaveRows, EnrichmentTyped
  <2> QED BY <2>1, <2>3, <2>4, NextStageTyped DEF EnrichmentTyped
<1>6. CASE BackfillRaw \/ BackfillSemantic \/ BackfillFails
  <2>1. UNCHANGED <<rows, clock, projection, walk>> /\ layout' \in [raw : Layouts, semantic : Layouts]
        /\ backfill' \in {"idle", "raw", "semantic", "claims"}
    BY <1>6 DEF BackfillRaw, BackfillSemantic, BackfillFails, EnrichmentTyped, Layouts
  <2> QED BY <1>1, <1>2, <2>1 DEF EnrichmentTyped
<1>7. CASE BackfillDelete
  <2>1. UNCHANGED <<clock, projection, layout, walk>> /\ (\E t : rows' = [rows EXCEPT ![t] = {}])
        /\ backfill' \in {"idle", "claims"}
    BY <1>7 DEF BackfillDelete
  <2> QED BY <1>1, <1>2, <2>1 DEF EnrichmentTyped
<1>8. CASE StartWalk \/ FetchPage
  <2>1. UNCHANGED <<rows, clock, projection, layout, backfill>>
    BY <1>8 DEF StartWalk, FetchPage
  <2>2. "on" \in DOMAIN walk' /\ walk'.on \in BOOLEAN
    <3>1. CASE StartWalk
      BY <3>1 DEF StartWalk, NoWalk
    <3>2. CASE FetchPage
      <4>1. walk.on /\ \E seen, at, id :
               walk' \in {[walk EXCEPT !.seen = seen, !.at = at, !.id = id],
                         [walk EXCEPT !.seen = seen, !.on = FALSE]}
        BY <3>2 DEF FetchPage
      <4> QED BY <4>1 DEF EnrichmentTyped
    <3> QED BY <1>8, <3>1, <3>2
  <2> QED BY <1>1, <1>2, <2>1, <2>2 DEF EnrichmentTyped
<1>9. CASE EnrichmentRestart
  BY <1>2, <1>9 DEF EnrichmentRestart, EnrichmentTyped
<1>10. CASE UNCHANGED enrichmentVars
  BY <1>2, <1>10 DEF enrichmentVars, EnrichmentTyped
<1> QED
  BY <1>3, <1>4, <1>5, <1>6, <1>7, <1>8, <1>9, <1>10 DEF EnrichmentNext

(* Whatever hooks a deployment has, a projection that runs is at the table  *)
(* of one of them, and the tables hold rows with ids an extraction gives.  *)
THEOREM EnrichmentIsTyped == EnrichmentSpec => []EnrichmentTypeOK
<1>1. EnrichmentInit => EnrichmentTyped
  <2>1. {Tables[i] : i \in DOMAIN Tables} = ToSet(Tables)
    BY DEF ToSet
  <2> QED BY <2>1 DEF EnrichmentInit, EnrichmentTyped, Layouts, NoWalk
<1>2. EnrichmentTyped => EnrichmentTypeOK
  <2> SUFFICES ASSUME EnrichmentTyped PROVE EnrichmentTypeOK
    OBVIOUS
  <2>1. ASSUME NEW i \in DOMAIN Tables, NEW r \in rows[Tables[i]]
        PROVE  r.id \in Ids /\ r.at \in Nat /\ r.by \in Projections
    <3>1. Tables[i] \in ToSet(Tables)
      BY <2>1 DEF ToSet
    <3> QED BY <2>1, <3>1 DEF EnrichmentTyped, EnrichmentRows
  <2> QED BY <2>1 DEF EnrichmentTyped, EnrichmentTypeOK, ActiveRuns
<1> QED BY <1>1, <1>2, EnrichmentTypeStep, PTL DEF EnrichmentSpec

-----------------------------------------------------------------------------
(* The services together.                                                  *)

(* Each part moves by itself, and the others rest meanwhile. *)
LEMMA PartsMove ==
    ASSUME [ServicesNext]_servicesVars
    PROVE  /\ [TaxonomyNext]_taxonomyVars
           /\ [PublicationNext]_publicationVars
           /\ [RoutingNext]_routingVars
           /\ [EnrichmentNext]_enrichmentVars
           /\ [CascadeNext]_cascadeVars
           /\ [ListingNext]_listingVars
           /\ [RelationsNext]_relationVars
           /\ [ReadsNext]_readVars
           /\ [ModelNext]_modelVars
           /\ [SearchNext]_searchVars
           /\ [GraphReadsNext]_graphReadVars
           /\ [TopicGroupingNext]_groupingVars
           /\ [KeyedNext]_keyedVars
           /\ [AuditNext]_auditVars
           /\ [SchemaNext]_schemaVars
<1>1. CASE TaxonomyMoves
  BY <1>1 DEF TaxonomyMoves, Rest
<1>2. CASE PublicationMoves
  BY <1>2 DEF PublicationMoves, Rest
<1>3. CASE RoutingMoves
  BY <1>3 DEF RoutingMoves, Rest
<1>4. CASE EnrichmentMoves
  BY <1>4 DEF EnrichmentMoves, Rest
<1>5. CASE CascadeMoves
  BY <1>5 DEF CascadeMoves, Rest
<1>6. CASE ListingMoves
  BY <1>6 DEF ListingMoves, Rest
<1>7. CASE RelationMoves
  BY <1>7 DEF RelationMoves, Rest
<1>8. CASE ReadsMoves
  BY <1>8 DEF ReadsMoves, Rest
<1>9. CASE ModelMoves
  BY <1>9 DEF ModelMoves, Rest
<1>10. CASE SearchMoves
  BY <1>10 DEF SearchMoves, Rest
<1>11. CASE GraphMoves
  BY <1>11 DEF GraphMoves, Rest
<1>12. CASE TopicMoves
  BY <1>12 DEF TopicMoves, Rest
<1>13. CASE KeyedMoves
  BY <1>13 DEF KeyedMoves, Rest
<1>14. CASE AuditMoves
  BY <1>14 DEF AuditMoves, Rest
<1>15. CASE SchemaMoves
  BY <1>15 DEF SchemaMoves, Rest
<1>16. CASE UNCHANGED servicesVars
  BY <1>16 DEF servicesVars
<1> QED
  BY <1>1, <1>2, <1>3, <1>4, <1>5, <1>6, <1>7, <1>8, <1>9, <1>10, <1>11, <1>12, <1>13, <1>14,
      <1>15, <1>16 DEF ServicesNext

(* So every part, in the composition, is as it is by itself: what is proved *)
(* of the specification of each, for any constants, holds of the services  *)
(* that are checked together.                                              *)
THEOREM ServicesAreTheirParts ==
    ServicesSpec => /\ TaxonomySpec
                    /\ PublicationSpec
                    /\ RoutingSpec
                    /\ EnrichmentSpec
                    /\ CascadeSpec
                    /\ ListingSpec
                    /\ RelationsSpec
                    /\ ReadsSpec
                    /\ ModelSpec
                    /\ SearchSpec
                    /\ GraphReadsSpec
                    /\ TopicGroupingSpec
                    /\ KeyedSpec
                    /\ AuditSpec
                    /\ SchemaSpec
<1>1. ServicesInit =>
        /\ TaxonomyInit /\ PublicationInit /\ RoutingInit /\ EnrichmentInit /\ CascadeInit
        /\ ListingInit /\ RelationsInit /\ ReadsInit /\ ModelInit /\ SearchInit /\ GraphReadsInit
        /\ TopicGroupingInit /\ KeyedInit /\ AuditInit /\ SchemaInit
  BY DEF ServicesInit
<1>2. [ServicesNext]_servicesVars => /\ [TaxonomyNext]_taxonomyVars
         /\ [PublicationNext]_publicationVars
         /\ [RoutingNext]_routingVars
         /\ [EnrichmentNext]_enrichmentVars
         /\ [CascadeNext]_cascadeVars
         /\ [ListingNext]_listingVars
         /\ [RelationsNext]_relationVars
         /\ [ReadsNext]_readVars
         /\ [ModelNext]_modelVars
         /\ [SearchNext]_searchVars
         /\ [GraphReadsNext]_graphReadVars
         /\ [TopicGroupingNext]_groupingVars
         /\ [KeyedNext]_keyedVars
         /\ [AuditNext]_auditVars
         /\ [SchemaNext]_schemaVars
  BY PartsMove
<1> QED
  BY <1>1, <1>2, PTL
     DEF ServicesSpec, TaxonomySpec, PublicationSpec, RoutingSpec, EnrichmentSpec, CascadeSpec,
         ListingSpec, RelationsSpec, ReadsSpec, ModelSpec, SearchSpec, GraphReadsSpec,
         TopicGroupingSpec, KeyedSpec, AuditSpec, SchemaSpec

(* The rows, counters, requests and pages of whatever part moves are of     *)
(* their types all along, for any constants: no score or signal leaves its  *)
(* scale, no limit or cap is passed and nothing refers to what there is not. *)
THEOREM ServicesAreTyped == ServicesSpec => []ServicesTypeOK
<1>1. ASSUME TaxonomyTypeOK, PublicationTypeOK, RoutingTypeOK, EnrichmentTypeOK, CascadeTypeOK,
             ListingTypeOK, RelationsTypeOK, ReadsTypeOK, ModelTypeOK, SearchTypeOK,
             GraphReadsTypeOK, TopicGroupingTypeOK, KeyedTypeOK, AuditTypeOK, SchemaTypeOK
      PROVE  ServicesTypeOK
  BY <1>1 DEF ServicesTypeOK
<1> QED
  BY <1>1, ServicesAreTheirParts, PTL,
     TaxonomyIsTyped, PublicationIsTyped, RoutingIsTyped, EnrichmentIsTyped, CascadeIsTyped,
     ListingIsTyped, RelationsAreTyped, ReadsAreTyped, ModelIsTyped, SearchIsTyped,
     GraphReadsAreTyped, GroupingIsTyped, KeyedIsTyped, AuditIsTyped, SchemaIsTyped

=============================================================================
