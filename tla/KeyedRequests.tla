---------------------------- MODULE KeyedRequests ----------------------------
(***************************************************************************)
(* The routes that extract a version, retry its extraction and generate its *)
(* semantic document, where extraction runs in the request                 *)
(* (KW_EXTRACTION_INLINE), and the Idempotency-Key a client may send with   *)
(* them.  The answer is kept under the key and the route, with a hash of    *)
(* what was asked, after the work is done: two requests with one key that   *)
(* overlap both do it.                                                     *)
(*                                                                         *)
(* One version; what a run makes is told apart by a number.  Left out: the  *)
(* check of access, which DocumentReads has, what ReviewFlow does with the  *)
(* version once it is in review, and restarts, which ExtractionPipeline     *)
(* has; nothing removes keys, for no code calls purge_expired.             *)
(***************************************************************************)
EXTENDS Naturals, DocumentStatus

CONSTANTS
    Clients,        \* each with one request at a time
    Keys,           \* the Idempotency-Keys they use, and NoKey
    NoKey,
    Generators,     \* the semantic methods of this deployment
    DefaultMethod,  \* structure_first
    NoMethod,       \* no method is named
    MaxRuns         \* runs of parsers and generators

ASSUME KeyedRequestsAssumption ==
    /\ DefaultMethod \in Generators /\ NoMethod \notin Generators
    /\ NoKey \in Keys /\ MaxRuns \in Nat

VARIABLES
    keyed,      \* the version: its status, its extraction and its semantic document
    kept,       \* the idempotency store
    sent,       \* the request of each client
    promised,   \* what an answer under a key promises, none having overlapped with it
    runs        \* how many there were

keyedVars == <<keyed, kept, sent, promised, runs>>

-----------------------------------------------------------------------------
KeyedRoutes == {"extract", "retry", "semantic"}
Nothing == [method |-> NoMethod, run |-> 0]
Bodies == [method : Generators \cup {NoMethod}, run : 0..(MaxRuns + 1)]

(* Made before the first request. *)
EarlierExtraction == [method |-> NoMethod, run |-> MaxRuns + 1]

NotSent == [route |-> "extract", key |-> NoKey, method |-> NoMethod, stage |-> "idle",
            read |-> "STORED", body |-> Nothing, code |-> 0, promise |-> Nothing]

(* What identifies a row of the store, and the hash kept in it. *)
Slots == (Keys \ {NoKey}) \X KeyedRoutes
SlotOf(q) == <<q.key, q.route>>

(* Faulty variant: the method is not part of what is hashed. *)
HashOfPath(q) == NoMethod

(* hash_json_body of the path and, where one is named, the method. *)
HashOf(q) == q.method

Unkept == [hash |-> NoMethod, body |-> Nothing]

KeyedTypeOK ==
    /\ keyed.status \in Statuses
    /\ keyed.extraction \in Bodies /\ keyed.semantic \in Bodies
    /\ kept \in [Slots -> [hash : Generators \cup {NoMethod}, body : Bodies]]
    /\ \A c \in Clients :
          /\ sent[c].route \in KeyedRoutes /\ sent[c].key \in Keys
          /\ sent[c].body \in Bodies /\ sent[c].promise \in Bodies
          /\ sent[c].code \in {0, 200, 404, 409, 422, 500, 502}
    /\ promised \in [Slots \X (Generators \cup {NoMethod}) -> Bodies]
    /\ runs \in 0..MaxRuns

-----------------------------------------------------------------------------
InFlight(c) == sent[c].stage \notin {"idle", "done"}

Stage(c, stage) == InFlight(c) /\ sent[c].stage = stage
ContinueWith(c, stage) == sent' = [sent EXCEPT ![c].stage = stage]
AnswerWell(c, body) ==
    sent' = [sent EXCEPT ![c].stage = "done", ![c].code = 200, ![c].body = body]

(* An error answer carries nothing of what was done. *)
AnswerError(c, code) == sent' = [sent EXCEPT ![c] = [NotSent EXCEPT !.stage = "done", !.code = code]]

Send(c, route, key, method) ==
    /\ ~InFlight(c)
    /\ route # "semantic" => method = NoMethod
    /\ LET q == [NotSent EXCEPT !.route = route, !.key = key, !.method = method, !.stage = "check"]
       IN  sent' = [sent EXCEPT ![c] =
              [q EXCEPT !.promise = IF key = NoKey THEN Nothing ELSE promised[<<SlotOf(q), method>>]]]
    /\ UNCHANGED <<keyed, kept, promised, runs>>

(* _check_idempotency: nothing kept, something else asked for, or a replay. *)
CheckKey(c) ==
    /\ Stage(c, "check")
    /\ LET q == sent[c]
           row == IF q.key = NoKey THEN Unkept ELSE kept[SlotOf(q)]
       IN  \/ row.body = Nothing /\ ContinueWith(c, "run")
           \/ row.body # Nothing /\ row.hash # HashOf(q) /\ AnswerError(c, 422)
           \/ row.body # Nothing /\ row.hash = HashOf(q) /\ AnswerWell(c, row.body)
    /\ UNCHANGED <<keyed, kept, promised, runs>>

(* retry_extract looks at the status first. *)
CheckFailed(c) ==
    /\ Stage(c, "run") /\ sent[c].route = "retry"
    /\ IF keyed.status = "FAILED" THEN ContinueWith(c, "claim") ELSE AnswerError(c, 409)
    /\ UNCHANGED <<keyed, kept, promised, runs>>

(* update_status(EXTRACTING), whose UPDATE tests the status. *)
ClaimExtraction(c) ==
    /\ \/ Stage(c, "run") /\ sent[c].route = "extract"
       \/ Stage(c, "claim")
    /\ IF keyed.status \in AllowedPredecessors("EXTRACTING")
       THEN keyed' = [keyed EXCEPT !.status = "EXTRACTING"] /\ ContinueWith(c, "parse")
       ELSE UNCHANGED keyed /\ AnswerError(c, 409)
    /\ UNCHANGED <<kept, promised, runs>>

(* A parser that fails, or finds nothing, makes the version FAILED. *)
Parse(c) ==
    /\ Stage(c, "parse")
    /\ \/ /\ runs < MaxRuns
          /\ runs' = runs + 1
          /\ keyed' = [keyed EXCEPT !.extraction = [method |-> NoMethod, run |-> runs + 1]]
          /\ sent' = [sent EXCEPT ![c].stage = "extracted",
                                  ![c].body = [method |-> NoMethod, run |-> runs + 1]]
       \/ /\ keyed' = [keyed EXCEPT !.status = "FAILED"]
          /\ AnswerError(c, 422)
          /\ UNCHANGED runs
    /\ UNCHANGED <<kept, promised>>

MarkExtracted(c) ==
    /\ Stage(c, "extracted")
    /\ keyed' = [keyed EXCEPT !.status = "EXTRACTED"]
    /\ ContinueWith(c, "keep")
    /\ UNCHANGED <<kept, promised, runs>>

-----------------------------------------------------------------------------
(* generate: what is stored will do if no method is named, or that one.    *)

Requested(q) == IF q.method = NoMethod THEN DefaultMethod ELSE q.method

LookForSemantic(c) ==
    /\ Stage(c, "run") /\ sent[c].route = "semantic"
    /\ LET q == sent[c] IN
       IF keyed.semantic # Nothing /\ q.method \in {NoMethod, keyed.semantic.method}
       THEN sent' = [sent EXCEPT ![c].stage = "keep", ![c].body = keyed.semantic]
       ELSE ContinueWith(c, "raw")
    /\ UNCHANGED <<keyed, kept, promised, runs>>

(* The raw extraction and, in a statement of its own, the version. *)
FetchRawFor(c) ==
    /\ Stage(c, "raw")
    /\ IF keyed.extraction = Nothing THEN AnswerError(c, 404) ELSE ContinueWith(c, "version")
    /\ UNCHANGED <<keyed, kept, promised, runs>>

FetchVersion(c) ==
    /\ Stage(c, "version")
    /\ sent' = [sent EXCEPT ![c].stage = "generate", ![c].read = keyed.status]
    /\ UNCHANGED <<keyed, kept, promised, runs>>

(* The generator may fail; what it makes is saved at once. *)
GenerateWith(c) ==
    /\ Stage(c, "generate")
    /\ \/ /\ runs < MaxRuns
          /\ runs' = runs + 1
          /\ LET made == [method |-> Requested(sent[c]), run |-> runs + 1] IN
             /\ keyed' = [keyed EXCEPT !.semantic = made]
             /\ sent' = [sent EXCEPT ![c].body = made,
                                     ![c].stage = IF sent[c].read = "EXTRACTED" THEN "ready" ELSE "keep"]
       \/ AnswerError(c, 502) /\ UNCHANGED <<keyed, runs>>
    /\ UNCHANGED <<kept, promised>>

(* mark_semantic_ready, refused if the status is no longer what was read:   *)
(* the request fails although the document is stored.                      *)
MarkReady(c) ==
    /\ Stage(c, "ready")
    /\ IF keyed.status \in AllowedPredecessors("NEEDS_REVIEW")
       THEN keyed' = [keyed EXCEPT !.status = "NEEDS_REVIEW"] /\ ContinueWith(c, "keep")
       ELSE UNCHANGED keyed /\ AnswerError(c, 500)
    /\ UNCHANGED <<kept, promised, runs>>

(* _store_idempotency, which replaces what is kept; then the answer.  An    *)
(* answer no other request with the key was under way with is a promise.   *)
KeepAnswer(c) ==
    /\ Stage(c, "keep")
    /\ LET q == sent[c]
           alone == \A b \in Clients \ {c} : ~InFlight(b) \/ SlotOf(sent[b]) # SlotOf(q)
       IN  IF q.key = NoKey THEN UNCHANGED <<kept, promised>>
           ELSE /\ kept' = [kept EXCEPT ![SlotOf(q)] = [hash |-> HashOf(q), body |-> q.body]]
                /\ promised' = IF alone /\ promised[<<SlotOf(q), q.method>>] = Nothing
                               THEN [promised EXCEPT ![<<SlotOf(q), q.method>>] = q.body]
                               ELSE promised
    /\ AnswerWell(c, sent[c].body)
    /\ UNCHANGED <<keyed, runs>>

-----------------------------------------------------------------------------
KeyedInit ==
    /\ keyed \in {[status |-> "STORED", extraction |-> Nothing, semantic |-> Nothing],
                  [status |-> "EXTRACTED", extraction |-> EarlierExtraction, semantic |-> Nothing]}
    /\ kept = [s \in Slots |-> Unkept]
    /\ sent = [c \in Clients |-> NotSent]
    /\ promised = [p \in Slots \X (Generators \cup {NoMethod}) |-> Nothing]
    /\ runs = 0

ServeKeyed(c) ==
    \/ CheckKey(c) \/ CheckFailed(c) \/ ClaimExtraction(c) \/ Parse(c) \/ MarkExtracted(c)
    \/ LookForSemantic(c) \/ FetchRawFor(c) \/ FetchVersion(c) \/ GenerateWith(c) \/ MarkReady(c)
    \/ KeepAnswer(c)

KeyedNext ==
    \E c \in Clients :
       \/ \E route \in KeyedRoutes, key \in Keys, method \in Generators \cup {NoMethod} :
             Send(c, route, key, method)
       \/ ServeKeyed(c)

KeyedSpec == KeyedInit /\ [][KeyedNext]_keyedVars

-----------------------------------------------------------------------------
(* Properties.                                                             *)

(* A request answered well was answered what its key promised when it was   *)
(* sent, whatever was extracted and generated since; one that named a       *)
(* method was answered a document of that method, replayed or not; and      *)
(* what is answered was made by a run, never an error that was kept.       *)
KeysKeepTheirPromise ==
    \A c \in Clients : LET q == sent[c] IN
       q.stage = "done" /\ q.code = 200 =>
          /\ q.promise # Nothing => q.body = q.promise
          /\ q.method # NoMethod => q.body.method = q.method
          /\ q.body # Nothing
          /\ (q.route = "semantic") = (q.body.method # NoMethod)

=============================================================================
