------------------------- MODULE ReviewFlow_proofs -------------------------
(***************************************************************************)
(* Proofs about ReviewFlow, for any versions, numbers, threads and methods, *)
(* with and without auto-promotion and crashes; and about requests that    *)
(* follow each other, the "serial" case of MCReviewFlow.                   *)
(***************************************************************************)
EXTENDS MCReviewFlow, TLAPS

-----------------------------------------------------------------------------
(* The inductive invariant.                                                *)

(* What a generation has read before the generator runs. *)
Readings == [method : Methods, status : Statuses]

Tasks == [op      : Operations \cup {"none"},
          version : Versions \cup {None},
          step    : Steps,
          held    : Semantics \cup Readings \cup Versions \cup {None}]

(* A thread past the first statement of its operation relies on content     *)
(* that is there: saved by itself, or seen by its checks.                  *)
NeedsContent == {"ready", "write", "read", "record"}

TaskInv(r) ==
    \/ r = Idle
    \/ /\ r.op \in Operations /\ r.version \in Versions /\ r.step # "idle"
       /\ r.step = "save" => r.held \in Readings
       /\ r.step = "record" => r.held \in Semantics
       /\ r.step = "supersede" => r.held \in Versions
       /\ r.step \in NeedsContent => semantic[r.version] # None

IInv ==
    /\ status \in [Versions -> Statuses]
    /\ semantic \in [Versions -> Semantics \cup {None}]
    /\ metadata \in [Versions -> Metadata \cup {None}]
    /\ pending \in SUBSET Versions
    /\ task \in [Threads -> Tasks]
    /\ \A t \in Threads : TaskInv(task[t])
    /\ ReviewedHasContent
    /\ beside \in SUBSET (SUBSET Versions)

-----------------------------------------------------------------------------
(* Facts about the table and about single tasks.                           *)

LEMMA Table ==
    /\ {"NEEDS_REVIEW", "VALIDATED", "REJECTED", "SUPERSEDED"} \subseteq Statuses
    /\ AllowedPredecessors("SUPERSEDED") \subseteq BehindReviewGate
    /\ "EXTRACTED" \in Statuses \ BehindReviewGate
  BY DEF Statuses, AllowedPredecessors, AllowedTransitions, BehindReviewGate

LEMMA Reviewed == \A op : TargetOf(op) \in {"NEEDS_REVIEW", "VALIDATED", "REJECTED"}
  BY DEF TargetOf

LEMMA Decided == \A s : DecisionFor(s) \in Decisions
  BY DEF DecisionFor, Decisions

LEMMA IdleIsTask == Idle \in Tasks /\ TaskInv(Idle) /\ Idle.step = "idle" /\ Idle.version = None
  BY DEF Idle, Tasks, Steps, TaskInv

(* A thread whose next statement is one of these is not idle. *)
LEMMA Working ==
    ASSUME IInv, NEW t \in Threads, task[t].step # "idle"
    PROVE  /\ task[t] \in Tasks /\ task[t].op \in Operations /\ task[t].version \in Versions
           /\ task[t].step = "save" => task[t].held \in Readings
           /\ task[t].step = "record" => task[t].held \in Semantics
           /\ task[t].step = "supersede" => task[t].held \in Versions
           /\ task[t].step \in NeedsContent => semantic[task[t].version] # None
  BY IdleIsTask DEF IInv, TaskInv

(* No document disappears: then the other threads' tasks stay right. *)
LEMMA OthersStand ==
    ASSUME IInv, NEW t \in Threads, NEW r \in Tasks, task' = [task EXCEPT ![t] = r], TaskInv(r)',
           \A v \in Versions : semantic[v] # None => semantic'[v] # None
    PROVE  /\ task' \in [Threads -> Tasks]
           /\ \A u \in Threads : TaskInv(task[u])'
<1>1. task' \in [Threads -> Tasks]
  BY DEF IInv
<1>2. ASSUME NEW u \in Threads PROVE TaskInv(task[u])'
  <2>1. CASE u = t
    BY <2>1 DEF IInv, TaskInv
  <2>2. CASE u # t
    <3>1. task'[u] = task[u] /\ TaskInv(task[u])
      BY <2>2 DEF IInv
    <3> QED BY <3>1 DEF TaskInv
  <2> QED BY <2>1, <2>2
<1> QED BY <1>1, <1>2

(* The ways of going on. *)
LEMMA Going ==
    ASSUME IInv, NEW t \in Threads, task[t].step # "idle",
           NEW step \in Steps, NEW held \in Semantics \cup Readings \cup Versions \cup {None},
           Continue(t, step, held)
    PROVE  \E r \in Tasks :
              /\ task' = [task EXCEPT ![t] = r]
              /\ r.op = task[t].op /\ r.version = task[t].version
              /\ r.step = step /\ r.held = held
<1> DEFINE r == [task[t] EXCEPT !.step = step, !.held = held]
<1>1. task[t] \in Tasks
  BY DEF IInv
<1>2. /\ r \in Tasks /\ r.step = step /\ r.held = held
      /\ r.op = task[t].op /\ r.version = task[t].version
  BY <1>1 DEF Tasks
<1>3. task' = [task EXCEPT ![t] = r]
  BY DEF Continue, IInv
<1> QED BY <1>2, <1>3

-----------------------------------------------------------------------------
(* Every step keeps the invariant.                                         *)

(* A request begins: the other threads and the rows stay as they are. *)
LEMMA BeginKeeps ==
    ASSUME IInv, NEW t \in Threads, NEW op \in Operations, NEW v \in Versions,
           NEW step \in {"save", "write"}, NEW held \in Readings \cup {None},
           Begin(t, op, v, step, held),
           step = "save" => held \in Readings,
           step = "write" => semantic[v] # None,
           UNCHANGED <<status, semantic, metadata, beside>>, pending' \in SUBSET Versions
    PROVE  IInv'
<1> DEFINE r == [op |-> op, version |-> v, step |-> step, held |-> held]
<1>1. r \in Tasks
  BY DEF Tasks, Steps
<1>2. task' = [task EXCEPT ![t] = r]
  BY DEF Begin
<1>3. TaskInv(r)'
  BY DEF TaskInv, NeedsContent
<1>4. \A w \in Versions : semantic[w] # None => semantic'[w] # None
  OBVIOUS
<1> HIDE DEF r
<1>5. task' \in [Threads -> Tasks] /\ \A u \in Threads : TaskInv(task[u])'
  BY <1>1, <1>2, <1>3, <1>4, OthersStand
<1> QED BY <1>5 DEF IInv, ReviewedHasContent

(* A thread ends: no row loses its content. *)
LEMMA FinishKeepsTasks ==
    ASSUME IInv, NEW t \in Threads, Finish(t),
           \A v \in Versions : semantic[v] # None => semantic'[v] # None
    PROVE  task' \in [Threads -> Tasks] /\ \A u \in Threads : TaskInv(task[u])'
<1>1. TaskInv(Idle)'
  BY DEF TaskInv
<1> QED BY <1>1, IdleIsTask, OthersStand DEF Finish

(* A thread goes on: what its next statement relies on is there. *)
LEMMA ContinueKeepsTasks ==
    ASSUME IInv, NEW t \in Threads, task[t].step # "idle",
           NEW step \in Steps \ {"idle"}, NEW held \in Semantics \cup Readings \cup Versions \cup {None},
           Continue(t, step, held),
           step = "save" => held \in Readings,
           step = "record" => held \in Semantics,
           step = "supersede" => held \in Versions,
           step \in NeedsContent => semantic'[task[t].version] # None,
           \A v \in Versions : semantic[v] # None => semantic'[v] # None
    PROVE  task' \in [Threads -> Tasks] /\ \A u \in Threads : TaskInv(task[u])'
<1>1. PICK r \in Tasks :
         /\ task' = [task EXCEPT ![t] = r]
         /\ r.op = task[t].op /\ r.version = task[t].version
         /\ r.step = step /\ r.held = held
  BY Going
<1>2. task[t].op \in Operations /\ task[t].version \in Versions
  BY Working
<1>3. TaskInv(r)'
  BY <1>1, <1>2 DEF TaskInv
<1> QED BY <1>1, <1>3, OthersStand

LEMMA ReturnKeepsTasks ==
    ASSUME IInv, NEW t \in Threads, task[t].step # "idle", Return(t), semantic' = semantic
    PROVE  task' \in [Threads -> Tasks] /\ \A u \in Threads : TaskInv(task[u])'
<1>1. CASE Finish(t)
  BY <1>1, FinishKeepsTasks
<1>2. CASE Continue(t, "mark", None)
  <2>1. "mark" \in Steps \ {"idle"} /\ "mark" \notin NeedsContent
    BY DEF Steps, NeedsContent
  <2> QED BY <1>2, <2>1, ContinueKeepsTasks
<1> QED BY <1>1, <1>2 DEF Return

LEMMA StartGenerateKeeps ==
    ASSUME IInv, NEW t \in Threads, NEW v \in Versions, NEW m \in Methods, StartGenerate(t, v, m)
    PROVE  IInv'
<1>1. [method |-> m, status |-> status[v]] \in Readings
  BY DEF IInv, Readings
<1>2. "generate" \in Operations
  BY DEF Operations
<1> QED BY <1>1, <1>2, BeginKeeps DEF StartGenerate, IInv

LEMMA StartReviewKeeps ==
    ASSUME IInv, NEW t \in Threads, NEW v \in Versions, NEW op \in Reviews,
           StartReview(t, v, op), pending' \in SUBSET Versions
    PROVE  IInv'
  BY BeginKeeps DEF StartReview, Operations

LEMMA SaveKeeps ==
    ASSUME IInv, NEW t \in Threads, SaveSemantic(t) PROVE IInv'
<1> DEFINE v == task[t].version
           row == [method |-> task[t].held.method, decision |-> "needs_review"]
<1>1. task[t].step = "save" /\ v \in Versions /\ task[t].held \in Readings
  BY Working DEF SaveSemantic, At
<1>2. row \in Semantics
  BY <1>1 DEF Readings, Semantics, Decisions
<1>3. /\ semantic' \in [Versions -> Semantics \cup {None}] /\ semantic'[v] # None
      /\ \A w \in Versions : semantic[w] # None => semantic'[w] # None
  BY <1>1, <1>2, RowAssumption DEF SaveSemantic, IInv
<1>4. {"ready", "score"} \subseteq Steps \ {"idle"}
  BY DEF Steps
<1>5. task' \in [Threads -> Tasks] /\ \A u \in Threads : TaskInv(task[u])'
  <2>1. CASE Continue(t, "ready", None)
    BY <1>1, <1>3, <1>4, <2>1, ContinueKeepsTasks
  <2>2. CASE Continue(t, "score", None)
    BY <1>1, <1>3, <1>4, <2>2, ContinueKeepsTasks
  <2> QED BY <2>1, <2>2 DEF SaveSemantic
<1> QED BY <1>3, <1>5 DEF SaveSemantic, IInv, ReviewedHasContent

LEMMA ReadyKeeps ==
    ASSUME IInv, NEW t \in Threads, MarkSemanticReady(t) PROVE IInv'
<1> DEFINE v == task[t].version
<1>1. task[t].step = "ready" /\ v \in Versions /\ semantic[v] # None
  BY Working DEF MarkSemanticReady, At, NeedsContent
<1>2. "score" \in Steps \ {"idle"} /\ "score" \notin NeedsContent
  BY DEF Steps, NeedsContent
<1>3. UNCHANGED <<semantic, metadata, pending, beside>>
  BY DEF MarkSemanticReady
<1>4. task' \in [Threads -> Tasks] /\ \A u \in Threads : TaskInv(task[u])'
  <2>1. CASE Finish(t)
    BY <1>3, <2>1, FinishKeepsTasks
  <2>2. CASE Continue(t, "score", None)
    BY <1>1, <1>2, <1>3, <2>2, ContinueKeepsTasks
  <2> QED BY <2>1, <2>2 DEF MarkSemanticReady
<1>5. status' \in [Versions -> Statuses] /\ ReviewedHasContent'
  <2>1. status' = [status EXCEPT ![v] = "NEEDS_REVIEW"] \/ status' = status
    BY DEF MarkSemanticReady
  <2> QED BY <1>1, <1>3, <2>1, Table DEF IInv, ReviewedHasContent
<1> QED BY <1>3, <1>4, <1>5 DEF IInv

LEMMA ScoreKeeps ==
    ASSUME IInv, NEW t \in Threads, Score(t) PROVE IInv'
<1>1. task[t].step = "score" /\ task[t].version \in Versions
  BY Working DEF Score, At
<1>2. "route" \in Steps \ {"idle"} /\ "route" \notin NeedsContent
  BY DEF Steps, NeedsContent
<1>3. UNCHANGED <<status, semantic, pending, beside>>
  BY DEF Score
<1>4. task' \in [Threads -> Tasks] /\ \A u \in Threads : TaskInv(task[u])'
  <2>1. CASE Finish(t)
    BY <1>3, <2>1, FinishKeepsTasks
  <2>2. CASE Continue(t, "route", None)
    BY <1>1, <1>2, <1>3, <2>2, ContinueKeepsTasks
  <2> QED BY <2>1, <2>2 DEF Score
<1>5. metadata' \in [Versions -> Metadata \cup {None}]
  BY <1>1 DEF Score, IInv, Metadata, Routings
<1> QED BY <1>3, <1>4, <1>5 DEF IInv, ReviewedHasContent

LEMMA RouteKeeps ==
    ASSUME IInv, NEW t \in Threads, Route(t) PROVE IInv'
<1>1. task[t].version \in Versions
  BY Working DEF Route, At
<1>2. UNCHANGED <<status, semantic, pending, beside>> /\ Finish(t)
  BY DEF Route
<1>3. task' \in [Threads -> Tasks] /\ \A u \in Threads : TaskInv(task[u])'
  BY <1>2, FinishKeepsTasks
<1>4. metadata' \in [Versions -> Metadata \cup {None}]
  BY <1>1 DEF Route, IInv, Metadata, Routings
<1> QED BY <1>2, <1>3, <1>4 DEF IInv, ReviewedHasContent

LEMMA WriteKeeps ==
    ASSUME IInv, NEW t \in Threads, WriteReview(t) PROVE IInv'
<1> DEFINE v == task[t].version
<1>1. task[t].step = "write" /\ v \in Versions /\ semantic[v] # None
  BY Working DEF WriteReview, At, NeedsContent
<1>2. "read" \in Steps \ {"idle"}
  BY DEF Steps
<1>3. UNCHANGED <<semantic, metadata, pending>>
  BY DEF WriteReview
<1>4. task' \in [Threads -> Tasks] /\ \A u \in Threads : TaskInv(task[u])'
  BY <1>1, <1>2, <1>3, ContinueKeepsTasks DEF WriteReview
<1>5. status' \in [Versions -> Statuses] /\ ReviewedHasContent'
  <2>1. TargetOf(task[t].op) \in Statuses
    BY Reviewed, Table
  <2> HIDE DEF v
  <2> QED BY <1>1, <1>3, <2>1 DEF IInv, ReviewedHasContent, WriteReview, v
<1>6. beside' \in SUBSET (SUBSET Versions)
  BY DEF WriteReview, IInv
<1> QED BY <1>3, <1>4, <1>5, <1>6 DEF IInv

LEMMA ReadKeeps ==
    ASSUME IInv, NEW t \in Threads, ReadSemantic(t) PROVE IInv'
<1> DEFINE v == task[t].version
<1>1. task[t].step = "read" /\ v \in Versions /\ semantic[v] # None
  BY Working DEF ReadSemantic, At, NeedsContent
<1>2. semantic[v] \in Semantics
  BY <1>1 DEF IInv
<1>3. "record" \in Steps \ {"idle"}
  BY DEF Steps
<1>4. UNCHANGED <<status, semantic, metadata, pending, beside>>
  BY DEF ReadSemantic
<1>5. task' \in [Threads -> Tasks] /\ \A u \in Threads : TaskInv(task[u])'
  BY <1>1, <1>2, <1>3, <1>4, ContinueKeepsTasks DEF ReadSemantic
<1> QED BY <1>4, <1>5 DEF IInv, ReviewedHasContent

LEMMA RecordKeeps ==
    ASSUME IInv, NEW t \in Threads, RecordDecision(t) PROVE IInv'
<1> DEFINE v == task[t].version
           row == [task[t].held EXCEPT !.decision = DecisionFor(TargetOf(task[t].op))]
<1>1. task[t].step = "record" /\ v \in Versions /\ task[t].held \in Semantics
  BY Working DEF RecordDecision, At
<1>2. row \in Semantics
  BY <1>1, Decided DEF Semantics
<1>3. semantic' = [semantic EXCEPT ![v] = row]
  BY DEF RecordDecision
<1> HIDE DEF row
<1>4. /\ semantic' \in [Versions -> Semantics \cup {None}]
      /\ \A w \in Versions : semantic[w] # None => semantic'[w] # None
  BY <1>1, <1>2, <1>3, RowAssumption DEF IInv
<1>5. "siblings" \in Steps \ {"idle"} /\ "siblings" \notin NeedsContent
  BY DEF Steps, NeedsContent
<1>6. task' \in [Threads -> Tasks] /\ \A u \in Threads : TaskInv(task[u])'
  <2>1. CASE Continue(t, "siblings", None)
    BY <1>1, <1>4, <1>5, <2>1, ContinueKeepsTasks
  <2>2. CASE Finish(t)
    BY <1>4, <2>2, FinishKeepsTasks
  <2> QED BY <2>1, <2>2 DEF RecordDecision
<1> QED BY <1>4, <1>6 DEF RecordDecision, IInv, ReviewedHasContent

LEMMA PairsOfVersions ==
    ASSUME IInv, NEW v \in Versions, NEW u
    PROVE  LeftBeside(v, u) \in SUBSET (SUBSET Versions)
  BY DEF LeftBeside

LEMMA FindKeeps ==
    ASSUME IInv, NEW t \in Threads, FindPrior(t) PROVE IInv'
<1>1. task[t].step = "siblings" /\ task[t].version \in Versions
  BY Working DEF FindPrior, At
<1>2. UNCHANGED <<status, semantic, metadata, pending>>
  BY DEF FindPrior
<1>3. "supersede" \in Steps \ {"idle"} /\ "supersede" \notin NeedsContent
  BY DEF Steps, NeedsContent
<1>4. task' \in [Threads -> Tasks] /\ \A u \in Threads : TaskInv(task[u])'
  <2>1. CASE Return(t)
    BY <1>1, <1>2, <2>1, ReturnKeepsTasks
  <2>2. ASSUME NEW u \in Versions, Continue(t, "supersede", u)
        PROVE  task' \in [Threads -> Tasks] /\ \A w \in Threads : TaskInv(task[w])'
    BY <1>1, <1>2, <1>3, <2>2, ContinueKeepsTasks
  <2> QED BY <2>1, <2>2 DEF FindPrior, Candidates
<1>5. beside' \in SUBSET (SUBSET Versions)
  BY <1>1 DEF FindPrior, Candidates, IInv
<1> QED BY <1>2, <1>4, <1>5 DEF IInv, ReviewedHasContent

LEMMA SupersedeKeeps ==
    ASSUME IInv, NEW t \in Threads, Supersede(t) PROVE IInv'
<1> DEFINE u == task[t].held
<1>1. task[t].step = "supersede" /\ u \in Versions /\ task[t].version \in Versions
  BY Working DEF Supersede, At
<1>2. UNCHANGED <<semantic, metadata, pending>> /\ Return(t)
  BY DEF Supersede
<1>3. task' \in [Threads -> Tasks] /\ \A w \in Threads : TaskInv(task[w])'
  BY <1>1, <1>2, ReturnKeepsTasks
<1>4. status' \in [Versions -> Statuses] /\ ReviewedHasContent'
  <2>1. \/ status' = status
        \/ status[u] \in BehindReviewGate /\ status' = [status EXCEPT ![u] = "SUPERSEDED"]
    BY Table DEF Supersede
  <2>2. CASE status' = status
    BY <1>2, <2>2 DEF IInv, ReviewedHasContent
  <2>3. CASE status[u] \in BehindReviewGate /\ status' = [status EXCEPT ![u] = "SUPERSEDED"]
    BY <1>1, <1>2, <2>3, Table DEF IInv, ReviewedHasContent
  <2> QED BY <2>1, <2>2, <2>3
<1>5. beside' \in SUBSET (SUBSET Versions)
  BY <1>1, PairsOfVersions DEF Supersede, IInv
<1> QED BY <1>2, <1>3, <1>4, <1>5 DEF IInv

LEMMA MarkKeeps ==
    ASSUME IInv, NEW t \in Threads, MarkPromoted(t) PROVE IInv'
<1> DEFINE v == task[t].version
<1>1. v \in Versions
  BY Working DEF MarkPromoted, At
<1>2. UNCHANGED <<status, semantic, pending, beside>> /\ Finish(t)
  BY DEF MarkPromoted
<1>3. task' \in [Threads -> Tasks] /\ \A u \in Threads : TaskInv(task[u])'
  BY <1>2, FinishKeepsTasks
<1>4. metadata' \in [Versions -> Metadata \cup {None}]
  <2>1. CASE metadata' = metadata
    BY <2>1 DEF IInv
  <2>2. CASE metadata[v] # None /\ metadata' = [metadata EXCEPT ![v].method = "auto"]
    <3>1. metadata[v] \in Metadata
      BY <1>1, <2>2 DEF IInv
    <3>2. [metadata[v] EXCEPT !.method = "auto"] \in Metadata
      BY <3>1 DEF Metadata
    <3> QED BY <1>1, <2>2, <3>2 DEF IInv
  <2> QED BY <2>1, <2>2 DEF MarkPromoted
<1> QED BY <1>2, <1>3, <1>4 DEF IInv, ReviewedHasContent

LEMMA PassKeeps ==
    ASSUME IInv, StartPass \/ Crash PROVE IInv'
<1>1. pending' \in SUBSET Versions /\ UNCHANGED <<status, semantic, metadata, beside>>
  BY DEF StartPass, Crash
<1>2. task' \in [Threads -> Tasks] /\ \A u \in Threads : TaskInv(task[u])'
  <2>1. CASE StartPass
    BY <1>1, <2>1 DEF StartPass, IInv, TaskInv
  <2>2. CASE Crash
    BY <2>2, IdleIsTask DEF Crash, TaskInv
  <2> QED BY <2>1, <2>2
<1> QED BY <1>1, <1>2 DEF IInv, ReviewedHasContent

LEMMA PromoteKeeps ==
    ASSUME IInv, NEW t \in Threads, NEW v \in Versions, Promote(t, v) PROVE IInv'
<1>1. pending' \in SUBSET Versions
  BY DEF Promote, IInv
<1>2. CASE StartReview(t, v, "promote")
  BY <1>1, <1>2, StartReviewKeeps DEF Reviews
<1>3. CASE UNCHANGED <<status, semantic, metadata, task, beside>>
  BY <1>1, <1>3 DEF IInv, TaskInv, ReviewedHasContent
<1> QED BY <1>2, <1>3 DEF Promote

LEMMA IInvInductive == ASSUME IInv, [Next]_vars PROVE IInv'
<1>1. ASSUME NEW t \in Threads, Step(t) PROVE IInv'
  BY <1>1, SaveKeeps, ReadyKeeps, ScoreKeeps, RouteKeeps, WriteKeeps, ReadKeeps, RecordKeeps,
     FindKeeps, SupersedeKeeps, MarkKeeps DEF Step
<1>2. ASSUME NEW t \in Threads, NEW v \in Versions, Review(t, v) PROVE IInv'
  <2>1. pending' \in SUBSET Versions
    BY <1>2 DEF Review, IInv
  <2> QED BY <1>2, <2>1, StartReviewKeeps DEF Review
<1>3. CASE UNCHANGED vars
  BY <1>3 DEF vars, IInv, TaskInv, ReviewedHasContent
<1> QED BY <1>1, <1>2, <1>3, StartGenerateKeeps, PromoteKeeps, PassKeeps DEF Next

LEMMA IInvHolds == Spec => []IInv
<1>1. Init => IInv
  BY IdleIsTask, Table DEF Init, IInv, ReviewedHasContent, BehindReviewGate
<1> QED BY <1>1, IInvInductive, PTL DEF Spec

-----------------------------------------------------------------------------
(* Theorems.                                                               *)

(* Rows and requests keep their types, whatever number of threads generate, *)
(* review and promote at once, and whatever a crash cuts off.              *)
THEOREM ReviewIsTyped == Spec => []TypeOK
<1>1. IInv => TypeOK
  BY DEF IInv, TypeOK, TaskInv, At, Tasks
<1> QED BY <1>1, IInvHolds, PTL

(* Nothing reaches a reviewer, or leaves one, without semantic content to   *)
(* decide about: with any number of threads, versions and methods.         *)
THEOREM ReviewedAlwaysHasContent == Spec => []ReviewedHasContent
<1>1. IInv => ReviewedHasContent
  BY DEF IInv
<1> QED BY <1>1, IInvHolds, PTL

-----------------------------------------------------------------------------
(* Requests that follow each other.                                        *)

(* A version that no request is busy with: one that was generated is in     *)
(* review or was decided, by the one method there is, and its content       *)
(* states the decision its status states; any other is EXTRACTED.          *)
Settled(v) ==
    /\ semantic[v] = None => status[v] = "EXTRACTED"
    /\ semantic[v] # None =>
          /\ status[v] \in BehindReviewGate /\ semantic[v].method = m1
          /\ status[v] # "SUPERSEDED" => semantic[v].decision = DecisionFor(status[v])

(* At most one version stands, or two that a failure left beside each other, *)
(* leaving one of them out of account.                                     *)
OneStandsBut(v) ==
    \A u, w \in Versions \ {v} :
       status[u] = "VALIDATED" /\ status[w] = "VALIDATED" => u = w \/ {u, w} \in beside

(* What a request has done and has still to put right, by its next statement. *)
Unsettled == {"ready", "read", "record"}

Phase(r) ==
    /\ \A w \in Versions : w # r.version \/ r.step \notin Unsettled => Settled(w)
    /\ OneStandsBut(IF r.step \in {"read", "record", "siblings", "supersede"} THEN r.version ELSE None)
    /\ r.step = "save" =>
          semantic[r.version] = None /\ r.held.status = "EXTRACTED" /\ r.held.method = m1
    /\ r.step = "ready" =>
          /\ status[r.version] = "EXTRACTED"
          /\ semantic[r.version] = [method |-> m1, decision |-> "needs_review"]
    /\ r.step = "write" =>
          status[r.version] \in IF r.op = "demote" THEN {"VALIDATED", "REJECTED"} ELSE {"NEEDS_REVIEW"}
    /\ r.step \in {"read", "record"} =>
          status[r.version] = TargetOf(r.op) /\ semantic[r.version].method = m1
    /\ r.step = "record" => r.held = semantic[r.version]
    /\ r.step = "supersede" => r.held # r.version /\ status[r.held] = "VALIDATED"

Alone(t) == \A u \in Threads \ {t} : task[u] = Idle

SerialInv ==
    case = "serial" =>
       /\ Quiet => Phase(Idle)
       /\ \A t \in Threads, r \in Tasks : task[t] = r /\ r # Idle => Alone(t) /\ Phase(r)

(* A request that is alone goes on to its next statement, or ends.         *)
LEMMA Serially ==
    ASSUME IInv, NEW t \in Threads, Alone(t),
           NEW r \in Tasks, task' = [task EXCEPT ![t] = r], Phase(r)'
    PROVE  SerialInv'
<1>1. task'[t] = r /\ Alone(t)'
  BY DEF IInv, Alone
<1>2. Quiet' => r = Idle
  BY <1>1 DEF Quiet, Idle
<1>3. ASSUME NEW u \in Threads, NEW s \in Tasks, task'[u] = s, s # Idle
      PROVE  Alone(u)' /\ Phase(s)'
  <2>1. u = t
    BY <1>1, <1>3 DEF Alone, Idle
  <2>2. s = r
    BY <1>1, <1>3, <2>1
  <2> QED BY <1>1, <2>1, <2>2
<1>4. Quiet' => Phase(Idle)'
  BY <1>2 DEF Idle
<1> QED
  BY <1>3, <1>4 DEF SerialInv, Idle

(* It ends, and leaves every version settled. *)
LEMMA SeriallyDone ==
    ASSUME IInv, NEW t \in Threads, Alone(t), Finish(t),
           \A w \in Versions : Settled(w)', OneStandsBut(None)'
    PROVE  SerialInv'
<1>1. Phase(Idle)'
  BY DEF Phase, Idle
<1> QED BY <1>1, IdleIsTask, Serially DEF Finish

(* It goes on with nothing left to put right but the routing or the mark.   *)
LEMMA SeriallyOn ==
    ASSUME IInv, NEW t \in Threads, Alone(t), task[t].step # "idle",
           NEW step \in {"score", "route", "mark"}, Continue(t, step, None),
           \A w \in Versions : Settled(w)', OneStandsBut(None)'
    PROVE  SerialInv'
<1>1. step \in Steps
  BY DEF Steps
<1>2. PICK r \in Tasks :
         /\ task' = [task EXCEPT ![t] = r]
         /\ r.op = task[t].op /\ r.version = task[t].version
         /\ r.step = step /\ r.held = None
  BY <1>1, Going
<1>3. Phase(r)'
  BY <1>2 DEF Phase, Unsettled
<1> QED BY <1>2, <1>3, Serially

(* What the statements of a request that is alone start from.              *)
LEMMA Unchanged ==
    ASSUME UNCHANGED <<status, semantic, beside>>
    PROVE  /\ \A w \in Versions : Settled(w)' <=> Settled(w)
           /\ \A w : OneStandsBut(w)' <=> OneStandsBut(w)
  BY DEF Settled, OneStandsBut

LEMMA SaveSerially ==
    ASSUME IInv, NEW t \in Threads, Alone(t), NEW q \in Tasks, task[t] = q, Phase(q),
           SaveSemantic(t)
    PROVE  SerialInv'
<1>1. q.step = "save" /\ q.version \in Versions /\ semantic[q.version] = None
      /\ q.held.status = "EXTRACTED" /\ q.held.method = m1
  BY Working DEF SaveSemantic, At, Phase
<1>2. status[q.version] = "EXTRACTED" /\ OneStandsBut(None)
      /\ \A w \in Versions : Settled(w)
  BY <1>1 DEF Phase, Settled, Unsettled
<1>3. Continue(t, "ready", None) /\ UNCHANGED <<status, beside>>
      /\ semantic' = [semantic EXCEPT ![q.version] = [method |-> m1, decision |-> "needs_review"]]
  BY <1>1 DEF SaveSemantic
<1>4. "ready" \in Steps
  BY DEF Steps
<1>5. PICK r \in Tasks :
         /\ task' = [task EXCEPT ![t] = r]
         /\ r.op = task[t].op /\ r.version = q.version
         /\ r.step = "ready" /\ r.held = None
  BY <1>1, <1>3, <1>4, Going
<1>6. /\ semantic'[q.version] = [method |-> m1, decision |-> "needs_review"]
      /\ \A w \in Versions \ {q.version} : semantic'[w] = semantic[w]
  BY <1>1, <1>3 DEF IInv
<1>7. \A w \in Versions \ {q.version} : Settled(w)'
  BY <1>2, <1>3, <1>6 DEF Settled
<1>8. OneStandsBut(None)'
  BY <1>2, <1>3 DEF OneStandsBut
<1>9. Phase(r)'
  BY <1>1, <1>2, <1>3, <1>5, <1>6, <1>7, <1>8 DEF Phase, Unsettled
<1> QED BY <1>5, <1>9, Serially

LEMMA ReadySerially ==
    ASSUME IInv, NEW t \in Threads, Alone(t), NEW q \in Tasks, task[t] = q, Phase(q),
           MarkSemanticReady(t)
    PROVE  SerialInv'
<1>1. /\ q.step = "ready" /\ q.version \in Versions
      /\ status[q.version] = "EXTRACTED"
      /\ semantic[q.version] = [method |-> m1, decision |-> "needs_review"]
      /\ OneStandsBut(None)
      /\ \A w \in Versions \ {q.version} : Settled(w)
  BY Working DEF MarkSemanticReady, At, Phase, Unsettled
<1>2. "EXTRACTED" \in AllowedPredecessors("NEEDS_REVIEW")
  BY DEF AllowedPredecessors, AllowedTransitions, Statuses
<1>3. /\ Continue(t, "score", None) /\ UNCHANGED <<semantic, beside>>
      /\ status' = [status EXCEPT ![q.version] = "NEEDS_REVIEW"]
  BY <1>1, <1>2 DEF MarkSemanticReady
<1>4. /\ status'[q.version] = "NEEDS_REVIEW"
      /\ \A w \in Versions \ {q.version} : status'[w] = status[w]
  BY <1>1, <1>3 DEF IInv
<1>5. \A w \in Versions \ {q.version} : Settled(w)'
  BY <1>1, <1>3, <1>4 DEF Settled
<1>6. Settled(q.version)'
  <2>1. semantic[q.version] # None
    BY <1>1, Working DEF NeedsContent
  <2>2. "NEEDS_REVIEW" \in BehindReviewGate /\ DecisionFor("NEEDS_REVIEW") = "needs_review"
    BY DEF BehindReviewGate, DecisionFor
  <2> QED BY <1>1, <1>3, <1>4, <2>1, <2>2 DEF Settled
<1>7. OneStandsBut(None)'
  BY <1>1, <1>3, <1>4 DEF OneStandsBut
<1> QED BY <1>1, <1>3, <1>5, <1>6, <1>7, SeriallyOn

(* Scoring, routing and the promotion mark touch neither statuses nor       *)
(* documents.                                                              *)
LEMMA ScoreSerially ==
    ASSUME IInv, NEW t \in Threads, Alone(t), NEW q \in Tasks, task[t] = q, Phase(q),
           Score(t) \/ Route(t) \/ MarkPromoted(t)
    PROVE  SerialInv'
<1>1. q.step \in {"score", "route", "mark"} /\ UNCHANGED <<status, semantic, beside>>
  BY DEF Score, Route, MarkPromoted, At
<1>2. OneStandsBut(None)' /\ \A w \in Versions : Settled(w)'
  BY <1>1, Unchanged DEF Phase, Unsettled
<1>3. Finish(t) \/ Continue(t, "route", None)
  BY DEF Score, Route, MarkPromoted
<1> QED BY <1>1, <1>2, <1>3, SeriallyOn, SeriallyDone

LEMMA WriteSerially ==
    ASSUME IInv, NEW t \in Threads, Alone(t), NEW q \in Tasks, task[t] = q, Phase(q),
           WriteReview(t)
    PROVE  SerialInv'
<1>1. /\ q.step = "write" /\ q.version \in Versions /\ semantic[q.version] # None
      /\ OneStandsBut(None) /\ \A w \in Versions : Settled(w)
  BY Working DEF WriteReview, At, Phase, Unsettled, NeedsContent
<1>2. /\ Continue(t, "read", None) /\ semantic' = semantic
      /\ status' = [status EXCEPT ![q.version] = TargetOf(q.op)]
      /\ beside' = {pair \in beside : q.version \notin pair}
  BY DEF WriteReview
<1>3. "read" \in Steps
  BY DEF Steps
<1>4. PICK r \in Tasks :
         /\ task' = [task EXCEPT ![t] = r]
         /\ r.op = q.op /\ r.version = q.version
         /\ r.step = "read" /\ r.held = None
  BY <1>1, <1>2, <1>3, Going
<1>5. /\ status'[q.version] = TargetOf(q.op)
      /\ \A w \in Versions \ {q.version} : status'[w] = status[w]
  BY <1>1, <1>2 DEF IInv
<1>6. \A w \in Versions \ {q.version} : Settled(w)'
  BY <1>1, <1>2, <1>5 DEF Settled
<1>7. OneStandsBut(q.version)'
  <2> SUFFICES ASSUME NEW u \in Versions \ {q.version}, NEW w \in Versions \ {q.version},
                      status[u] = "VALIDATED", status[w] = "VALIDATED", u # w
               PROVE  {u, w} \in beside'
    BY <1>5 DEF OneStandsBut
  <2>1. {u, w} \in beside
    BY <1>1, ReviewAssumption DEF OneStandsBut, ReviewAssumption
  <2> QED BY <1>2, <2>1
<1>8. semantic'[q.version].method = m1
  BY <1>1, <1>2 DEF Settled
<1>9. Phase(r)'
  BY <1>4, <1>5, <1>6, <1>7, <1>8 DEF Phase, Unsettled
<1> QED BY <1>4, <1>9, Serially

LEMMA ReadSerially ==
    ASSUME IInv, NEW t \in Threads, Alone(t), NEW q \in Tasks, task[t] = q, Phase(q),
           ReadSemantic(t)
    PROVE  SerialInv'
<1>1. /\ q.step = "read" /\ q.version \in Versions
      /\ status[q.version] = TargetOf(q.op) /\ semantic[q.version].method = m1
      /\ OneStandsBut(q.version) /\ \A w \in Versions \ {q.version} : Settled(w)
  BY Working DEF ReadSemantic, At, Phase, Unsettled
<1>2. Continue(t, "record", semantic[q.version]) /\ UNCHANGED <<status, semantic, beside>>
  BY DEF ReadSemantic
<1>3. "record" \in Steps /\ semantic[q.version] \in Semantics
  BY <1>1, Working DEF Steps, IInv, NeedsContent
<1>4. PICK r \in Tasks :
         /\ task' = [task EXCEPT ![t] = r]
         /\ r.op = q.op /\ r.version = q.version
         /\ r.step = "record" /\ r.held = semantic[q.version]
  BY <1>1, <1>2, <1>3, Going
<1>5. OneStandsBut(q.version)' /\ \A w \in Versions \ {q.version} : Settled(w)'
  BY <1>1, <1>2, Unchanged
<1>6. Phase(r)'
  BY <1>1, <1>2, <1>4, <1>5 DEF Phase, Unsettled
<1> QED BY <1>4, <1>6, Serially

LEMMA RecordSerially ==
    ASSUME IInv, NEW t \in Threads, Alone(t), NEW q \in Tasks, task[t] = q, Phase(q),
           RecordDecision(t)
    PROVE  SerialInv'
<1> DEFINE target == TargetOf(q.op)
           row == [q.held EXCEPT !.decision = DecisionFor(target)]
<1>1. /\ q.step = "record" /\ q.version \in Versions /\ q.held \in Semantics
      /\ status[q.version] = target /\ semantic[q.version].method = m1
      /\ q.held = semantic[q.version]
      /\ OneStandsBut(q.version) /\ \A w \in Versions \ {q.version} : Settled(w)
  BY Working DEF RecordDecision, At, Phase, Unsettled
<1>2. row.method = m1 /\ row.decision = DecisionFor(target) /\ row \in Semantics
  BY <1>1, Decided DEF Semantics
<1>3. /\ semantic' = [semantic EXCEPT ![q.version] = row] /\ UNCHANGED <<status, beside>>
      /\ IF target = "VALIDATED" THEN Continue(t, "siblings", None) ELSE Finish(t)
  BY DEF RecordDecision
<1>4. target \in BehindReviewGate
  BY Reviewed DEF BehindReviewGate
<1> HIDE DEF row, target
<1>5. /\ semantic'[q.version] = row
      /\ \A w \in Versions \ {q.version} : semantic'[w] = semantic[w]
  BY <1>1, <1>3 DEF IInv
<1>6. \A w \in Versions : Settled(w)'
  <2>1. \A w \in Versions \ {q.version} : Settled(w)'
    BY <1>1, <1>3, <1>5 DEF Settled
  <2>2. row # None
    BY <1>2, RowAssumption
  <2>3. Settled(q.version)'
    BY <1>1, <1>2, <1>3, <1>4, <1>5, <2>2 DEF Settled
  <2> QED BY <2>1, <2>3
<1>7. OneStandsBut(q.version)'
  BY <1>1, <1>3 DEF OneStandsBut
<1>8. CASE target = "VALIDATED"
  <2>1. "siblings" \in Steps
    BY DEF Steps
  <2>2. PICK r \in Tasks :
           /\ task' = [task EXCEPT ![t] = r]
           /\ r.op = q.op /\ r.version = q.version
           /\ r.step = "siblings" /\ r.held = None
    BY <1>1, <1>3, <1>8, <2>1, Going
  <2>3. Phase(r)'
    BY <1>6, <1>7, <2>2 DEF Phase
  <2> QED BY <2>2, <2>3, Serially
<1>9. CASE target # "VALIDATED"
  <2>1. OneStandsBut(None)'
    BY <1>1, <1>3, <1>7, <1>9 DEF OneStandsBut
  <2> QED BY <1>3, <1>6, <1>9, <2>1, SeriallyDone
<1> QED BY <1>8, <1>9

(* A validation that finds no sibling to supersede, has superseded it, or   *)
(* gives up.                                                               *)
LEMMA ReturnSerially ==
    ASSUME IInv, NEW t \in Threads, Alone(t), task[t].step # "idle", Return(t),
           \A w \in Versions : Settled(w)', OneStandsBut(None)'
    PROVE  SerialInv'
  BY SeriallyOn, SeriallyDone DEF Return

LEMMA FindSerially ==
    ASSUME IInv, NEW t \in Threads, Alone(t), NEW q \in Tasks, task[t] = q, Phase(q),
           FindPrior(t)
    PROVE  SerialInv'
<1> DEFINE v == q.version
<1>1. /\ q.step = "siblings" /\ v \in Versions
      /\ OneStandsBut(v) /\ \A w \in Versions : Settled(w)
  BY Working DEF FindPrior, At, Phase, Unsettled
<1>2. UNCHANGED <<status, semantic>>
  BY DEF FindPrior
<1>3. \A w \in Versions : Settled(w)'
  BY <1>1, <1>2 DEF Settled
<1>4. CASE Return(t) /\ beside' = beside \cup {{v, u} : u \in Candidates(v)}
  <2>1. OneStandsBut(None)'
    <3> SUFFICES ASSUME NEW u \in Versions, NEW w \in Versions,
                        status[u] = "VALIDATED", status[w] = "VALIDATED", u # w
                 PROVE  {u, w} \in beside'
      BY <1>2 DEF OneStandsBut
    <3>1. CASE u # v /\ w # v
      BY <1>1, <1>4, <3>1 DEF OneStandsBut
    <3>2. CASE u = v
      BY <1>4, <3>2 DEF Candidates
    <3>3. CASE w = v
      <4>1. u \in Candidates(v) /\ {u, w} = {v, u}
        BY <3>3 DEF Candidates
      <4> QED BY <1>4, <4>1
    <3> QED BY <3>1, <3>2, <3>3
  <2> QED BY <1>1, <1>3, <1>4, <2>1, ReturnSerially
<1>5. ASSUME NEW u \in Candidates(v), Continue(t, "supersede", u), UNCHANGED beside
      PROVE  SerialInv'
  <2>1. u \in Versions /\ u # v /\ status[u] = "VALIDATED"
    BY <1>5 DEF Candidates
  <2>2. "supersede" \in Steps
    BY DEF Steps
  <2>3. PICK r \in Tasks :
           /\ task' = [task EXCEPT ![t] = r]
           /\ r.op = q.op /\ r.version = v
           /\ r.step = "supersede" /\ r.held = u
    BY <1>1, <1>5, <2>1, <2>2, Going
  <2>4. OneStandsBut(v)'
    BY <1>1, <1>2, <1>5 DEF OneStandsBut
  <2> HIDE DEF v
  <2>5. Phase(r)'
    BY <1>2, <1>3, <2>1, <2>3, <2>4 DEF Phase
  <2> QED BY <2>3, <2>5, Serially
<1> QED BY <1>4, <1>5 DEF FindPrior

(* What v is left beside: u, and all that stood beside u, which is all that *)
(* stands.                                                                 *)
LEMMA LeftBesideAll ==
    ASSUME NEW v \in Versions, NEW u \in Versions \ {v}, OneStandsBut(v), status[u] = "VALIDATED",
           NEW w \in Versions \ {v}, status[w] = "VALIDATED"
    PROVE  {v, w} \in LeftBeside(v, u) /\ {w, v} \in LeftBeside(v, u)
<1>1. w = u \/ {w, u} \in beside
  BY DEF OneStandsBut
<1>2. {v, w} \in LeftBeside(v, u)
  BY <1>1 DEF LeftBeside
<1>3. {v, w} = {w, v}
  OBVIOUS
<1> QED BY <1>2, <1>3

LEMMA SupersedeSerially ==
    ASSUME IInv, NEW t \in Threads, Alone(t), NEW q \in Tasks, task[t] = q, Phase(q),
           Supersede(t)
    PROVE  SerialInv'
<1> DEFINE v == q.version
           u == q.held
<1>1. /\ q.step = "supersede" /\ v \in Versions /\ u \in Versions
      /\ u # v /\ status[u] = "VALIDATED"
      /\ OneStandsBut(v) /\ \A w \in Versions : Settled(w)
  BY Working DEF Supersede, At, Phase, Unsettled
<1>2. /\ Return(t) /\ semantic' = semantic
      /\ \/ /\ status' = [status EXCEPT ![u] = "SUPERSEDED"]
            /\ beside' = {pair \in beside \cup LeftBeside(v, u) : u \notin pair}
         \/ /\ status' = status
            /\ beside' = beside \cup LeftBeside(v, u)
  BY DEF Supersede
<1> HIDE DEF v, u
<1>3. /\ status'[u] \in {status[u], "SUPERSEDED"}
      /\ \A w \in Versions \ {u} : status'[w] = status[w]
  BY <1>1, <1>2 DEF IInv
<1>4. \A w \in Versions : Settled(w)'
  <2>1. \A w \in Versions \ {u} : Settled(w)'
    BY <1>1, <1>2, <1>3 DEF Settled
  <2>2. "SUPERSEDED" \in BehindReviewGate
    BY DEF BehindReviewGate
  <2>3. semantic[u] # None
    BY <1>1 DEF Settled
  <2>4. Settled(u)'
    BY <1>1, <1>2, <1>3, <2>2, <2>3 DEF Settled
  <2> QED BY <2>1, <2>4
<1>5. OneStandsBut(None)'
  <2> SUFFICES ASSUME NEW x \in Versions, NEW y \in Versions, x # y,
                      status'[x] = "VALIDATED", status'[y] = "VALIDATED"
               PROVE  {x, y} \in beside'
    BY DEF OneStandsBut
  <2>1. status[x] = "VALIDATED" /\ status[y] = "VALIDATED"
    BY <1>1, <1>3
  <2>2. {x, y} \in beside \cup LeftBeside(v, u)
    <3>1. CASE x # v /\ y # v
      BY <1>1, <2>1, <3>1 DEF OneStandsBut
    <3>2. CASE x = v \/ y = v
      BY <1>1, <2>1, <3>2, LeftBesideAll
    <3> QED BY <3>1, <3>2
  <2>3. CASE beside' = beside \cup LeftBeside(v, u)
    BY <2>2, <2>3
  <2>4. CASE /\ status' = [status EXCEPT ![u] = "SUPERSEDED"]
             /\ beside' = {pair \in beside \cup LeftBeside(v, u) : u \notin pair}
    <3>1. x # u /\ y # u
      BY <1>1, <2>4 DEF IInv
    <3> QED BY <2>2, <2>4, <3>1
  <2> QED BY <1>2, <2>3, <2>4
<1> QED BY <1>1, <1>2, <1>4, <1>5, ReturnSerially

LEMMA StepSerially ==
    ASSUME IInv, NEW t \in Threads, Alone(t), SerialInv, case = "serial", Step(t)
    PROVE  SerialInv'
<1>1. task[t].step # "idle"
  BY DEF Step, SaveSemantic, MarkSemanticReady, Score, Route, WriteReview, ReadSemantic,
         RecordDecision, FindPrior, Supersede, MarkPromoted, At
<1>2. PICK q \in Tasks : q = task[t]
  BY DEF IInv
<1>3. Phase(q)
  BY <1>1, <1>2, IdleIsTask DEF SerialInv
<1> QED BY <1>2, <1>3, SaveSerially, ReadySerially, ScoreSerially, WriteSerially, ReadSerially,
           RecordSerially, FindSerially, SupersedeSerially DEF Step

(* A request begins, from versions that are all settled.                   *)
LEMMA BeginSerially ==
    ASSUME IInv, NEW t \in Threads, Alone(t), NEW op \in Operations, NEW v \in Versions,
           NEW step \in {"save", "write"}, NEW held \in Readings \cup {None},
           Begin(t, op, v, step, held), Phase(Idle), UNCHANGED <<status, semantic, beside>>,
           step = "save" => /\ semantic[v] = None
                            /\ held.status = "EXTRACTED" /\ held.method = m1,
           step = "write" =>
              status[v] \in IF op = "demote" THEN {"VALIDATED", "REJECTED"} ELSE {"NEEDS_REVIEW"}
    PROVE  SerialInv'
<1> DEFINE r == [op |-> op, version |-> v, step |-> step, held |-> held]
<1>1. r \in Tasks
  BY DEF Tasks, Steps
<1>2. task' = [task EXCEPT ![t] = r]
  BY DEF Begin
<1>3. OneStandsBut(None) /\ \A w \in Versions : Settled(w)
  BY DEF Phase, Idle, Unsettled
<1>4. OneStandsBut(None)' /\ \A w \in Versions : Settled(w)'
  BY <1>3, Unchanged
<1>5. r.op = op /\ r.version = v /\ r.step = step /\ r.held = held
  OBVIOUS
<1> HIDE DEF r
<1>6. Phase(r)'
  BY <1>4, <1>5 DEF Phase, Unsettled
<1> QED BY <1>1, <1>2, <1>6, Serially

LEMMA StartSerially ==
    ASSUME IInv, NEW t \in Threads, Alone(t), SerialInv, case = "serial", UNCHANGED case,
           NEW v \in Versions, StartGenerate(t, v, m1) \/ Review(t, v) \/ Promote(t, v)
    PROVE  SerialInv'
<1>1. CASE UNCHANGED <<status, semantic, task, beside>>
  BY <1>1 DEF SerialInv, Phase, Settled, OneStandsBut, Quiet, Alone, Idle
<1>2. CASE \E op, step, held : Begin(t, op, v, step, held)
  <2>1. Quiet
    BY <1>2 DEF Begin, Quiet, Alone
  <2>2. Phase(Idle) /\ \A w \in Versions : Settled(w)
    BY <2>1 DEF SerialInv, Phase, Idle, Unsettled
  <2>3. ASSUME NEW op \in Reviews, StartReview(t, v, op) PROVE SerialInv'
    BY <2>2, <2>3, BeginSerially DEF StartReview, Operations
  <2>4. CASE StartGenerate(t, v, m1)
    <3> DEFINE held == [method |-> m1, status |-> status[v]]
    <3>1. semantic[v] = None /\ status[v] = "EXTRACTED"
      BY <2>2, <2>4 DEF StartGenerate, Settled
    <3>2. held \in Readings /\ held.method = m1 /\ held.status = "EXTRACTED"
      BY <3>1, CasesAssumption, Table DEF Readings, CasesAssumption
    <3>3. Begin(t, "generate", v, "save", held) /\ UNCHANGED <<status, semantic, beside>>
      BY <2>4 DEF StartGenerate
    <3>4. "generate" \in Operations
      BY DEF Operations
    <3> HIDE DEF held
    <3> QED BY <2>2, <3>1, <3>2, <3>3, <3>4, BeginSerially
  <2> QED BY <1>1, <2>3, <2>4 DEF Review, Promote, Reviews
<1> QED BY <1>1, <1>2 DEF StartGenerate, Review, Promote, StartReview

LEMMA CasesAreSteps == ASSUME CasesNext PROVE Next
  BY CasesAssumption DEF CasesAssumption, CasesNext, SerialStep, ConcurrentStep, Next

LEMMA SerialInvInductive ==
    ASSUME IInv, SerialInv, [CasesNext]_<<vars, case>> PROVE SerialInv'
<1>1. CASE UNCHANGED <<vars, case>> \/ (StartPass /\ UNCHANGED case)
  <2>1. UNCHANGED <<status, semantic, task, beside, case>>
    BY <1>1 DEF vars, StartPass
  <2> QED BY <2>1 DEF SerialInv, Phase, Settled, OneStandsBut, Quiet, Alone, Idle
<1>2. ASSUME NEW t \in Threads, SerialStep(t), UNCHANGED case PROVE SerialInv'
  <2>1. Alone(t) /\ case = "serial"
    BY <1>2 DEF SerialStep, Alone
  <2> QED BY <1>2, <2>1, StepSerially, StartSerially DEF SerialStep
<1>3. CASE case # "serial" /\ UNCHANGED case
  BY <1>3 DEF SerialInv
<1> QED BY <1>1, <1>2, <1>3 DEF CasesNext, ConcurrentStep

LEMMA SerialInvHolds == CasesSpec => [](IInv /\ SerialInv)
<1>1. CasesInit => IInv /\ SerialInv
  <2> SUFFICES ASSUME CasesInit PROVE IInv /\ SerialInv
    OBVIOUS
  <2>1. IInv
    BY IdleIsTask, Table DEF CasesInit, Init, IInv, ReviewedHasContent, BehindReviewGate
  <2>2. Phase(Idle)
    BY DEF CasesInit, Init, Phase, Idle, Settled, OneStandsBut
  <2>3. \A t \in Threads : task[t] = Idle
    BY DEF CasesInit, Init
  <2> QED BY <2>1, <2>2, <2>3 DEF SerialInv
<1>2. IInv /\ SerialInv /\ [CasesNext]_<<vars, case>> => (IInv /\ SerialInv)'
  <2>1. [CasesNext]_<<vars, case>> => [Next]_vars
    BY CasesAreSteps DEF vars
  <2> QED BY <2>1, IInvInductive, SerialInvInductive
<1> QED BY <1>1, <1>2, PTL DEF CasesSpec

(* Between requests that follow each other, two versions stand only if a    *)
(* supersession failed and left them so, the decision in every exported     *)
(* document is the one its version's status states, and nothing generated   *)
(* is left out of review: whatever number of versions are generated,        *)
(* reviewed, demoted, superseded and promoted, and whatever lookups and     *)
(* supersessions fail.                                                     *)
THEOREM OneAfterTheOtherTheyAgree == CasesSpec => []SerialReviewsAgree
<1>1. SerialInv => SerialReviewsAgree
  <2> SUFFICES ASSUME SerialInv, case = "serial", Quiet
               PROVE  AtMostOneValidated /\ DecisionInSync /\ GeneratedIsInReview
    BY DEF SerialReviewsAgree, AtMostOneValidated, DecisionInSync, GeneratedIsInReview
  <2>1. OneStandsBut(None) /\ \A w \in Versions : Settled(w)
    BY DEF SerialInv, Phase, Idle, Unsettled
  <2>2. AtMostOneValidated
    BY <2>1, ReviewAssumption DEF AtMostOneValidated, OneStandsBut, ReviewAssumption
  <2>3. DecisionInSync
    BY <2>1 DEF DecisionInSync, Settled
  <2>4. GeneratedIsInReview
    BY <2>1 DEF GeneratedIsInReview, Settled, BehindReviewGate
  <2> QED BY <2>2, <2>3, <2>4
<1> QED BY <1>1, SerialInvHolds, PTL

(* Such requests write no status the lifecycle table has no edge to,        *)
(* although update_version_review tests none and the promotion pass works   *)
(* off a listing that may be stale.                                        *)
THEOREM OneAfterTheOtherFollowTheTable == CasesSpec => SerialFollowsTable
<1>1. IInv /\ SerialInv /\ [CasesNext]_<<vars, case>> => [case = "serial" => FollowsTable]_vars
  <2> SUFFICES ASSUME IInv, SerialInv, case = "serial", CasesNext PROVE FollowsTable
    BY DEF vars
  <2>1. CASE UNCHANGED status
    BY <2>1 DEF FollowsTable
  <2>2. ASSUME NEW t \in Threads, Step(t), status' # status PROVE FollowsTable
    <3>1. WriteReview(t) \/ MarkSemanticReady(t) \/ Supersede(t)
      BY <2>2 DEF Step, SaveSemantic, Score, Route, ReadSemantic, RecordDecision, FindPrior, MarkPromoted
    <3>2. PICK q \in Tasks : q = task[t]
      BY DEF IInv
    <3>3. /\ q.step \in {"write", "ready", "supersede"} /\ q.version \in Versions
          /\ q.step = "supersede" => q.held \in Versions
      BY <3>1, <3>2, Working DEF WriteReview, MarkSemanticReady, Supersede, At
    <3>4. CASE WriteReview(t)
      <4>1. Phase(q) /\ q.step = "write"
        BY <3>2, <3>4, IdleIsTask DEF SerialInv, WriteReview, At
      <4>2. TargetOf(q.op) \in AllowedTransitions(status[q.version])
        BY <4>1 DEF Phase, TargetOf, AllowedTransitions
      <4> QED BY <3>2, <3>3, <3>4, <4>2 DEF FollowsTable, WriteReview, IInv
    <3>5. CASE MarkSemanticReady(t)
      BY <2>2, <3>2, <3>3, <3>5 DEF FollowsTable, MarkSemanticReady, AllowedPredecessors, IInv
    <3>6. CASE Supersede(t)
      <4>1. q.step = "supersede"
        BY <3>2, <3>6 DEF Supersede, At
      <4> QED BY <2>2, <3>2, <3>3, <3>6, <4>1 DEF FollowsTable, Supersede, AllowedPredecessors, IInv
    <3> QED BY <3>1, <3>4, <3>5, <3>6
  <2> QED BY <2>1, <2>2 DEF CasesNext, SerialStep, ConcurrentStep, StartPass, StartGenerate,
             Review, StartReview, Promote
<1> QED BY <1>1, SerialInvHolds, PTL DEF CasesSpec, SerialFollowsTable

=============================================================================
