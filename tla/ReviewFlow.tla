----------------------------- MODULE ReviewFlow -----------------------------
(***************************************************************************)
(* The review of one document's versions: semantic generation, the         *)
(* decisions of reviewers, supersession of the previously validated        *)
(* version, and the auto-promotion pass.  Each request runs on a thread of  *)
(* its own; every read of the catalog that a later statement relies on and *)
(* every write is one step, so the threads interleave between any two.     *)
(*                                                                         *)
(* Left out: notes, timestamps and audit rows; the confidence score, of    *)
(* which only the routing decision matters; the knowledge-graph side       *)
(* effects, which KnowledgeProjection models.                              *)
(***************************************************************************)
EXTENDS DocumentStatus, Naturals

CONSTANTS
    Versions,        \* the versions of the document
    Number,          \* version_number of each version
    Threads,         \* request threads
    Methods,         \* semantic-generation methods
    AutoPromotion,   \* whether the auto-promotion pass is run
    Crashes,         \* whether the process may die between two statements
    None             \* no row, no value

ASSUME ReviewAssumption ==
    /\ Number \in [Versions -> Nat]
    /\ {AutoPromotion, Crashes} \subseteq BOOLEAN
    /\ None \notin Versions \cup Methods

VARIABLES
    status,     \* document_versions.status
    semantic,   \* the row of semantic_documents: method and validation_status
    metadata,   \* the row of validation_metadata: routing and method
    pending,    \* versions the running auto-promotion pass has still to visit
    task,       \* what each request thread is doing
    beside      \* history: pairs of versions left standing by a supersession
                \* that failed

vars == <<status, semantic, metadata, pending, task, beside>>

-----------------------------------------------------------------------------
Decisions == {"needs_review", "validated", "rejected"}
Semantics == [method : Methods, decision : Decisions]
Routings  == {"none", "auto", "human"}
Metadata  == [routing : Routings, method : {"none", "auto"}]

ASSUME RowAssumption == None \notin Semantics \cup Metadata

Reviews    == {"validate", "reject", "demote", "promote"}
Operations == Reviews \cup {"generate"}

(* What each review writes: the version's status, and the decision that     *)
(* record_validation copies into the semantic document.                    *)
TargetOf(op) == CASE op = "reject" -> "REJECTED"
                  [] op = "demote" -> "NEEDS_REVIEW"
                  [] OTHER         -> "VALIDATED"

DecisionFor(s) == CASE s = "VALIDATED" -> "validated"
                    [] s = "REJECTED"  -> "rejected"
                    [] OTHER           -> "needs_review"

(* A task: the operation, its version, the next statement, and the value   *)
(* an earlier statement read.                                              *)
Idle == [op |-> "none", version |-> None, step |-> "idle", held |-> None]

Begin(t, op, v, step, held) ==
    /\ task[t] = Idle
    /\ task' = [task EXCEPT ![t] =
                  [op |-> op, version |-> v, step |-> step, held |-> held]]

At(t, step) == task[t].step = step

Continue(t, step, held) ==
    task' = [task EXCEPT ![t].step = step, ![t].held = held]

Finish(t) == task' = [task EXCEPT ![t] = Idle]

(* handle_validation returns: to the auto-promoter, which records its       *)
(* promotion, or to the route.                                             *)
Return(t) == IF task[t].op = "promote" THEN Continue(t, "mark", None)
                                       ELSE Finish(t)

Quiet == \A t \in Threads : task[t] = Idle

Steps == {"idle", "save", "ready", "score", "route", "write", "read",
          "record", "siblings", "supersede", "mark"}

TypeOK ==
    /\ status \in [Versions -> Statuses]
    /\ semantic \in [Versions -> Semantics \cup {None}]
    /\ metadata \in [Versions -> Metadata \cup {None}]
    /\ pending \in SUBSET Versions
    /\ \A t \in Threads :
          \/ task[t] = Idle
          \/ /\ task[t].op \in Operations
             /\ task[t].version \in Versions
             /\ task[t].step \in Steps \ {"idle"}
             /\ At(t, "record") => task[t].held \in Semantics
             /\ At(t, "supersede") => task[t].held \in Versions
    /\ beside \in SUBSET (SUBSET Versions)

Init ==
    /\ status = [v \in Versions |-> "EXTRACTED"]
    /\ semantic = [v \in Versions |-> None]
    /\ metadata = [v \in Versions |-> None]
    /\ pending = {}
    /\ task = [t \in Threads |-> Idle]
    /\ beside = {}

-----------------------------------------------------------------------------
(* SemanticOutputService.generate.                                         *)

(* Faulty variant: the transition is made when generation starts. *)
StartGenerateReadyFirst(t, v, m) ==
    /\ semantic[v] # None => semantic[v].method # m
    /\ Begin(t, "generate", v, "save", [method |-> m, status |-> status[v]])
    /\ status' = IF status[v] = "EXTRACTED" THEN [status EXCEPT ![v] = "NEEDS_REVIEW"]
                                             ELSE status
    /\ UNCHANGED <<semantic, metadata, pending, beside>>

(* A row produced by the requested method is returned as it is.  Otherwise  *)
(* the version is read, and the generator runs for as long as it takes.    *)
StartGenerate(t, v, m) ==
    /\ semantic[v] # None => semantic[v].method # m
    /\ Begin(t, "generate", v, "save", [method |-> m, status |-> status[v]])
    /\ UNCHANGED <<status, semantic, metadata, pending, beside>>

(* save_semantic_document: a fresh document, its decision "needs_review". *)
SaveSemantic(t) ==
    /\ At(t, "save")
    /\ semantic' = [semantic EXCEPT ![task[t].version] =
                      [method |-> task[t].held.method, decision |-> "needs_review"]]
    /\ IF task[t].held.status = "EXTRACTED" THEN Continue(t, "ready", None)
                                            ELSE Continue(t, "score", None)
    /\ UNCHANGED <<status, metadata, pending, beside>>

(* mark_semantic_ready, on the strength of the status read at the start:    *)
(* update_status lets the version go to NEEDS_REVIEW from any status the   *)
(* table has an edge from, or raises IllegalTransition.                    *)
MarkSemanticReady(t) ==
    LET v == task[t].version IN
    /\ At(t, "ready")
    /\ \/ /\ status[v] \in AllowedPredecessors("NEEDS_REVIEW")
          /\ status' = [status EXCEPT ![v] = "NEEDS_REVIEW"]
          /\ Continue(t, "score", None)
       \/ /\ status[v] \notin AllowedPredecessors("NEEDS_REVIEW")
          /\ Finish(t)
          /\ UNCHANGED status
    /\ UNCHANGED <<semantic, metadata, pending, beside>>

(* _maybe_score_for_hitl: the score replaces the whole row, then routing    *)
(* runs; a failure is logged and ends the request.                         *)
Score(t) ==
    /\ At(t, "score")
    /\ \/ /\ metadata' = [metadata EXCEPT ![task[t].version] =
                            [routing |-> "none", method |-> "none"]]
          /\ Continue(t, "route", None)
       \/ /\ Finish(t)
          /\ UNCHANGED metadata
    /\ UNCHANGED <<status, semantic, pending, beside>>

(* _maybe_route_for_hitl: again the whole row. *)
Route(t) ==
    /\ At(t, "route")
    /\ \/ \E r \in {"auto", "human"} :
             metadata' = [metadata EXCEPT ![task[t].version] =
                            [routing |-> r, method |-> "none"]]
       \/ UNCHANGED metadata
    /\ Finish(t)
    /\ UNCHANGED <<status, semantic, pending, beside>>

-----------------------------------------------------------------------------
(* ReviewService.                                                          *)

(* _record_review and handle_demote_to_review check the status and that a  *)
(* semantic document exists.                                               *)
StartReview(t, v, op) ==
    /\ IF op = "demote" THEN status[v] \in {"VALIDATED", "REJECTED"}
                        ELSE status[v] = "NEEDS_REVIEW"
    /\ semantic[v] # None
    /\ Begin(t, op, v, "write", None)
    /\ UNCHANGED <<status, semantic, metadata, beside>>

(* The requests of reviewers. *)
Review(t, v) ==
    /\ \E op \in Reviews \ {"promote"} : StartReview(t, v, op)
    /\ UNCHANGED pending

(* update_version_review: an UPDATE with no test of the current status.     *)
(* What the version was left standing beside is decided anew.              *)
WriteReview(t) ==
    /\ At(t, "write")
    /\ status' = [status EXCEPT ![task[t].version] = TargetOf(task[t].op)]
    /\ beside' = {pair \in beside : task[t].version \notin pair}
    /\ Continue(t, "read", None)
    /\ UNCHANGED <<semantic, metadata, pending>>

(* record_validation reads the semantic document ... *)
ReadSemantic(t) ==
    /\ At(t, "read")
    /\ Continue(t, "record", semantic[task[t].version])
    /\ UNCHANGED <<status, semantic, metadata, pending, beside>>

(* ... and writes it back with the decision. *)
RecordDecision(t) ==
    LET target == TargetOf(task[t].op) IN
    /\ At(t, "record")
    /\ semantic' = [semantic EXCEPT ![task[t].version] =
                      [task[t].held EXCEPT !.decision = DecisionFor(target)]]
    /\ IF target = "VALIDATED" THEN Continue(t, "siblings", None) ELSE Finish(t)
    /\ UNCHANGED <<status, metadata, pending, beside>>

(* _maybe_supersede_prior_validated: the VALIDATED sibling with the highest *)
(* number, whichever side of the new version's own number it is on.        *)
Candidates(v) == {u \in Versions \ {v} : status[u] = "VALIDATED"}

(* v is left standing beside u, and beside what u was left standing beside. *)
LeftBeside(v, u) ==
    {{v, w} : w \in {w \in Versions \ {v} : w = u \/ {w, u} \in beside}}

(* Faulty variant: no candidates, yet something is superseded. *)
FindPriorEmpty(t) ==
    /\ At(t, "siblings")
    /\ \E u \in Candidates(task[t].version) \cup {None} : Continue(t, "supersede", u)
    /\ UNCHANGED <<status, semantic, metadata, pending, beside>>

(* Faulty variant: only a reviewer's validation supersedes. *)
FindPriorReviewersOnly(t) ==
    LET candidates == Candidates(task[t].version) IN
    /\ At(t, "siblings")
    /\ \/ /\ candidates = {} \/ task[t].op = "promote"
          /\ Return(t)
       \/ \E u \in candidates :
             /\ \A w \in candidates : Number[w] <= Number[u]
             /\ Continue(t, "supersede", u)
    /\ UNCHANGED <<status, semantic, metadata, pending, beside>>

(* get_document and the choice of the prior version.  With no candidate,    *)
(* with a lookup that raises, or that finds no document because it has been *)
(* archived, the matter ends there: the validation stands, beside every    *)
(* version that was VALIDATED already.                                     *)
FindPrior(t) ==
    LET v == task[t].version
        candidates == Candidates(v) IN
    /\ At(t, "siblings")
    /\ \/ /\ Return(t)
          /\ beside' = beside \cup {{v, u} : u \in candidates}
       \/ \E u \in candidates :
             /\ \A w \in candidates : Number[w] <= Number[u]
             /\ Continue(t, "supersede", u)
             /\ UNCHANGED beside
    /\ UNCHANGED <<status, semantic, metadata, pending>>

(* mark_superseded: guarded by the table.  Whatever it raises is logged, be *)
(* it the table's refusal or the store's failure, and the validation stands. *)
Supersede(t) ==
    LET v == task[t].version
        u == task[t].held IN
    /\ At(t, "supersede")
    /\ \/ /\ status[u] \in AllowedPredecessors("SUPERSEDED")
          /\ status' = [status EXCEPT ![u] = "SUPERSEDED"]
          /\ beside' = {pair \in beside \cup LeftBeside(v, u) : u \notin pair}
       \/ /\ beside' = beside \cup LeftBeside(v, u)
          /\ UNCHANGED status
    /\ Return(t)
    /\ UNCHANGED <<semantic, metadata, pending>>

-----------------------------------------------------------------------------
(* HITLAutoPromoter.                                                       *)

(* run_pass: the pending rows and the index of versions, read once.        *)
StartPass ==
    /\ AutoPromotion
    /\ pending = {}
    /\ pending' = {v \in Versions : /\ metadata[v] = [routing |-> "auto", method |-> "none"]
                                    /\ status[v] = "NEEDS_REVIEW"}
    /\ UNCHANGED <<status, semantic, metadata, task, beside>>

(* Faulty variant: the listing is trusted. *)
PromoteUnchecked(t, v) ==
    /\ v \in pending
    /\ \A u \in Threads : task[u].op # "promote"
    /\ pending' = pending \ {v}
    /\ Begin(t, "promote", v, "write", None)
    /\ UNCHANGED <<status, semantic, metadata, beside>>

(* _promote_one, one version after the other: handle_validation, or the     *)
(* failure of its checks, which is counted and skipped.                    *)
Promote(t, v) ==
    /\ v \in pending
    /\ \A u \in Threads : task[u].op # "promote"
    /\ pending' = pending \ {v}
    /\ \/ StartReview(t, v, "promote")
       \/ /\ status[v] # "NEEDS_REVIEW" \/ semantic[v] = None
          /\ UNCHANGED <<status, semantic, metadata, task, beside>>

(* mark_auto_promoted: only a row without a method is touched. *)
MarkPromoted(t) ==
    LET v == task[t].version IN
    /\ At(t, "mark")
    /\ metadata' = IF metadata[v] # None /\ metadata[v].method = "none"
                      THEN [metadata EXCEPT ![v].method = "auto"] ELSE metadata
    /\ Finish(t)
    /\ UNCHANGED <<status, semantic, pending, beside>>

(* The process dies, and comes up with the catalog as it stands. *)
Crash ==
    /\ Crashes
    /\ task' = [t \in Threads |-> Idle]
    /\ pending' = {}
    /\ UNCHANGED <<status, semantic, metadata, beside>>

-----------------------------------------------------------------------------
Step(t) ==
    \/ SaveSemantic(t) \/ MarkSemanticReady(t) \/ Score(t) \/ Route(t)
    \/ WriteReview(t) \/ ReadSemantic(t) \/ RecordDecision(t)
    \/ FindPrior(t) \/ Supersede(t) \/ MarkPromoted(t)

Next ==
    \/ \E t \in Threads :
          \/ Step(t)
          \/ \E v \in Versions :
                \/ \E m \in Methods : StartGenerate(t, v, m)
                \/ Review(t, v)
                \/ Promote(t, v)
    \/ StartPass \/ Crash

Spec == Init /\ [][Next]_vars

-----------------------------------------------------------------------------
(* Properties.                                                             *)

(* ADR-025: "the latest validated version per family is one predicate", the *)
(* status VALIDATED.  Between requests two versions both have it only if a  *)
(* supersession failed and left just these two standing, or their          *)
(* predecessors, whatever validations, demotions and auto-promotions came   *)
(* before.  True of requests that follow each other; two validations at    *)
(* once defeat it.                                                         *)
AtMostOneValidated ==
    Quiet => \A u, v \in Versions :
                status[u] = "VALIDATED" /\ status[v] = "VALIDATED"
                   => u = v \/ {u, v} \in beside

(* Nothing reaches a reviewer, or leaves one, without semantic content to  *)
(* decide about, at any instant and after any crash.                       *)
ReviewedHasContent ==
    \A v \in Versions : status[v] \in BehindReviewGate => semantic[v] # None

(* record_validation "keeps the persisted semantic JSON's                  *)
(* validation_status in sync": between requests the decision in the        *)
(* exported content is the one the status states.                          *)
DecisionInSync ==
    Quiet => \A v \in Versions :
                status[v] \in {"NEEDS_REVIEW", "VALIDATED", "REJECTED"} =>
                   semantic[v].decision = DecisionFor(status[v])

(* What a review may write: a status the table has an edge to. *)
FollowsTable ==
    \A v \in Versions :
       status'[v] \in {status[v]} \cup AllowedTransitions(status[v])

(* Some version stands: superseding never leaves a document with nothing   *)
(* but SUPERSEDED versions.                                                *)
SomeVersionStands == \E v \in Versions : status[v] # "SUPERSEDED"

(* Generated content is in review: the pipeline's contract for the          *)
(* semantic-generation step is EXTRACTED to NEEDS_REVIEW.                  *)
GeneratedIsInReview ==
    Quiet => \A v \in Versions : semantic[v] # None => status[v] # "EXTRACTED"

=============================================================================
