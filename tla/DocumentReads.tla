---------------------------- MODULE DocumentReads ----------------------------
(***************************************************************************)
(* The routes that read one document, beside what other requests do to it:  *)
(* extraction, generation, uploads, links and unlinks of the caller's       *)
(* scope, archiving, un-archiving and purges.  Each statement of a route is *)
(* a step of its own, so the document changes between the look at its row, *)
(* the check that the caller may see it and the fetch of what was asked.   *)
(* ADR-027 tells apart what the caller is answered: 404 for what is not    *)
(* there or not theirs to see, 410 for what was purged.                    *)
(*                                                                         *)
(* One version, the first, is asked for by its id; of the second one only  *)
(* matters whether it is the latest and whether it is purged.  Left out:   *)
(* what the answers say, and the second look at a version's row on the way *)
(* to its artifacts, which cannot fail.                                    *)
(***************************************************************************)
EXTENDS Naturals, Sequences

CONSTANT AccessModes    \* of KW_AUTH_MODE: "enforced", "disabled"

VARIABLES
    access,     \* how access is checked
    catalogued, \* the document's row: archived, the caller's link, the versions
    purge,      \* the statements a running purge has still to make
    request,    \* the request under way: its route and the statements to go
    witnessed   \* what was the case at some moment of the request

readVars == <<access, catalogued, purge, request, witnessed>>

-----------------------------------------------------------------------------
(* The routes, by the statements that decide their answers.                *)

AccessCheck == <<"document", "links">>

GetDocument    == <<"shown">> \o AccessCheck
GetScopes      == <<"shown">> \o AccessCheck
GetLineage     == <<"shown">> \o AccessCheck
GetSimilar     == <<"shown">> \o AccessCheck
GetConfidence  == <<"shown">> \o AccessCheck \o <<"target">>
GetHighValue   == <<"shown">> \o AccessCheck \o <<"target">>
GetExtraction  == <<"version">> \o AccessCheck \o <<"raw">>
GetSemantic    == <<"version">> \o AccessCheck \o <<"semantic">>
GetMarkdown    == <<"version">> \o AccessCheck \o <<"markdown">>
GetRawFile     == <<"version">> \o AccessCheck \o <<"bytes">>
ListChunks     == <<"version">> \o AccessCheck \o <<"raw">>

(* Routes that tell a purged document from one that is not found. *)
Burying == {"document", "confidence", "high_value"}

VersionRoutes == {"extraction", "semantic", "markdown", "raw_file", "chunks"}
Routes == Burying \cup VersionRoutes \cup {"scopes", "lineage", "similar"}

StatementsOf(route) ==
    CASE route = "document"   -> GetDocument   [] route = "scopes"     -> GetScopes
      [] route = "lineage"    -> GetLineage    [] route = "similar"    -> GetSimilar
      [] route = "confidence" -> GetConfidence [] route = "high_value" -> GetHighValue
      [] route = "extraction" -> GetExtraction [] route = "semantic"   -> GetSemantic
      [] route = "markdown"   -> GetMarkdown   [] route = "raw_file"   -> GetRawFile
      [] route = "chunks"     -> ListChunks

Statements == {"shown", "document", "links", "target", "version", "raw", "semantic",
               "markdown", "bytes", "buried"}

NotAsked == [route |-> "none", todo |-> <<>>, target |-> "first", code |-> 0]

(* How far the first version has come: stored, extracted, generated, and    *)
(* generated with its Markdown.                                            *)
Progress == 0..3

NothingWitnessed == [hidden |-> FALSE, lacking |-> FALSE, gone |-> FALSE]

ReadsTypeOK ==
    /\ access \in AccessModes
    /\ catalogued \in [archived : BOOLEAN, linked : BOOLEAN, progress : Progress,
                       bytes : BOOLEAN, purged : BOOLEAN, second : {"absent", "live", "purged"}]
    /\ \A i \in 1..Len(purge) : purge[i] \in {"bytes", "row", "second"}
    /\ request.route \in Routes \cup {"none"}
    /\ \A i \in 1..Len(request.todo) : request.todo[i] \in Statements
    /\ request.target \in {"first", "second"}
    /\ request.code \in {0, 200, 404, 410}
    /\ witnessed \in [hidden : BOOLEAN, lacking : BOOLEAN, gone : BOOLEAN]

-----------------------------------------------------------------------------
(* One request at a time; its answer stands until the next one is asked.    *)

Ask(route) ==
    /\ request.todo = <<>>
    /\ request' = [NotAsked EXCEPT !.route = route, !.todo = StatementsOf(route)]
    /\ UNCHANGED <<access, catalogued, purge>>

At(statement) == request.todo # <<>> /\ Head(request.todo) = statement

GoOn ==
    request' = [request EXCEPT !.todo = Tail(@),
                               !.code = IF Tail(request.todo) = <<>> THEN 200 ELSE 0]

AnswerWith(code) == request' = [request EXCEPT !.todo = <<>>, !.code = code]

Others == UNCHANGED <<access, catalogued, purge>>

(* Faulty variant: the row's status is not looked at. *)
LookUpVersionUnchecked ==
    /\ At("version") /\ GoOn /\ Others

(* _get_version_including_archived, and PURGED answered as gone. *)
LookUpVersion ==
    /\ At("version")
    /\ IF catalogued.purged THEN AnswerWith(410) ELSE GoOn
    /\ Others

(* get_document hides an archived document.  The routes that read a version *)
(* by default take the latest one of the row they have got.                *)
LookUpDocument ==
    /\ At("shown")
    /\ IF ~catalogued.archived
          THEN \E t \in {"first", "second"} :
                  /\ t = "second" => catalogued.second # "absent"
                  /\ request' = [request EXCEPT !.todo = Tail(@), !.target = t]
          ELSE IF request.route \in Burying
                  THEN request' = [request EXCEPT !.todo = <<"buried">>]
                  ELSE AnswerWith(404)
    /\ Others

(* The row is read again, archived or not. *)
LookUpBuried ==
    /\ At("buried")
    /\ AnswerWith(IF catalogued.purged /\ catalogued.second # "live" THEN 410 ELSE 404)
    /\ Others

(* user_can_access: the document, and then its links, in two statements. *)
CheckDocument ==
    /\ At("document")
    /\ IF access = "enforced" /\ catalogued.archived THEN AnswerWith(404) ELSE GoOn
    /\ Others

CheckLinks ==
    /\ At("links")
    /\ IF access = "enforced" /\ ~catalogued.linked THEN AnswerWith(404) ELSE GoOn
    /\ Others

(* The version whose score, or whose sections, are asked for; a version     *)
(* without them is answered as empty.                                      *)
LookUpTarget ==
    /\ At("target")
    /\ IF IF request.target = "first" THEN catalogued.purged ELSE catalogued.second = "purged"
          THEN AnswerWith(410) ELSE GoOn
    /\ Others

FetchRaw ==
    /\ At("raw")
    /\ IF catalogued.progress < 1 THEN AnswerWith(404) ELSE GoOn
    /\ Others

FetchSemantic ==
    /\ At("semantic")
    /\ IF catalogued.progress < 2 THEN AnswerWith(404) ELSE GoOn
    /\ Others

(* A semantic document without its Markdown is as good as none. *)
FetchMarkdown ==
    /\ At("markdown")
    /\ IF catalogued.progress < 3 THEN AnswerWith(404) ELSE GoOn
    /\ Others

FetchBytes ==
    /\ At("bytes")
    /\ IF ~catalogued.bytes THEN AnswerWith(404) ELSE GoOn
    /\ Others

-----------------------------------------------------------------------------
(* What other requests do.                                                 *)

Elsewhere(row) ==
    /\ catalogued' = row
    /\ row # catalogued
    /\ UNCHANGED <<access, purge, request>>

ArchiveRow   == Elsewhere([catalogued EXCEPT !.archived = TRUE])
UnarchiveRow == Elsewhere([catalogued EXCEPT !.archived = FALSE])
LinkCaller   == Elsewhere([catalogued EXCEPT !.linked = TRUE])
UnlinkCaller == Elsewhere([catalogued EXCEPT !.linked = FALSE])

(* Uploads look for the document among those not archived. *)
AppendVersion ==
    /\ ~catalogued.archived
    /\ catalogued.second = "absent"
    /\ Elsewhere([catalogued EXCEPT !.second = "live"])

ExtractFirst ==
    /\ catalogued.progress = 0 /\ ~catalogued.purged
    /\ Elsewhere([catalogued EXCEPT !.progress = 1])

(* Generation, and again with another method. *)
GenerateFirst ==
    /\ catalogued.progress > 0 /\ ~catalogued.purged
    /\ \E p \in {2, 3} : Elsewhere([catalogued EXCEPT !.progress = p])

(* _purge_one_document: the listing, which skips what is purged already ... *)
PurgeListed ==
    /\ purge = <<>>
    /\ catalogued.archived
    /\ purge' = (IF catalogued.purged THEN <<>> ELSE <<"bytes", "row">>)
                   \o (IF catalogued.second = "live" THEN <<"second">> ELSE <<>>)
    /\ purge' # <<>>
    /\ UNCHANGED <<access, catalogued, request>>

(* ... and for each version its bytes, whose deletion may be refused, and   *)
(* its row.                                                                *)
PurgeStatement ==
    /\ purge # <<>>
    /\ purge' = Tail(purge)
    /\ \/ /\ Head(purge) = "bytes"
          /\ \E b \in {FALSE, catalogued.bytes} : catalogued' = [catalogued EXCEPT !.bytes = b]
       \/ /\ Head(purge) = "row"
          /\ catalogued' = [catalogued EXCEPT !.purged = TRUE]
       \/ /\ Head(purge) = "second"
          /\ catalogued' = [catalogued EXCEPT !.second = "purged"]
    /\ UNCHANGED <<access, request>>

ReadsCrash ==
    /\ purge # <<>>
    /\ purge' = <<>>
    /\ request' = NotAsked
    /\ UNCHANGED <<access, catalogued>>

-----------------------------------------------------------------------------
(* What is the case in a state, for the request of this route.             *)

HiddenFrom(route, row) ==
    \/ route \notin VersionRoutes /\ row.archived
    \/ access = "enforced" /\ (row.archived \/ ~row.linked)

Lacking(route, row) ==
    CASE route \in {"extraction", "chunks"} -> row.progress < 1
      [] route = "semantic"                 -> row.progress < 2
      [] route = "markdown"                 -> row.progress < 3
      [] route = "raw_file"                 -> ~row.bytes
      [] OTHER                              -> FALSE

(* A step adds what is the case after it; a new request starts afresh.      *)
Witness ==
    LET was == IF request.todo = <<>> THEN NothingWitnessed ELSE witnessed IN
    witnessed' =
       IF request'.todo = <<>> /\ request.todo = <<>> THEN witnessed
       ELSE [hidden  |-> was.hidden \/ HiddenFrom(request'.route, catalogued'),
             lacking |-> was.lacking \/ Lacking(request'.route, catalogued'),
             gone    |-> IF request.todo = <<>> THEN catalogued'.purged ELSE witnessed.gone]

ReadsInit ==
    /\ access \in AccessModes
    /\ catalogued = [archived |-> FALSE, linked |-> TRUE, progress |-> 0, bytes |-> TRUE,
                     purged |-> FALSE, second |-> "absent"]
    /\ purge = <<>>
    /\ request = NotAsked
    /\ witnessed = NothingWitnessed

ReadStep ==
    \/ LookUpVersion \/ LookUpDocument \/ LookUpBuried \/ LookUpTarget
    \/ CheckDocument \/ CheckLinks
    \/ FetchRaw \/ FetchSemantic \/ FetchMarkdown \/ FetchBytes

ReadsNext ==
    /\ \/ \E route \in Routes : Ask(route)
       \/ ReadStep
       \/ ArchiveRow \/ UnarchiveRow \/ LinkCaller \/ UnlinkCaller
       \/ AppendVersion \/ ExtractFirst \/ GenerateFirst
       \/ PurgeListed \/ PurgeStatement \/ ReadsCrash
    /\ Witness

ReadsSpec == ReadsInit /\ [][ReadsNext]_readVars

-----------------------------------------------------------------------------
(* Properties.                                                             *)

(* ADR-027 section 3, whatever else happens during the request.  Nothing    *)
(* is served of a version that was purged when the request began, and its  *)
(* routes answer 410, never 404, although archiving hides the document too. *)
(* 410 is said only of what is purged.  404 is said only if at some moment  *)
(* of the request the document was hidden from the caller or what was      *)
(* asked for was missing.                                                  *)
AnswersAreTrue ==
    request.todo = <<>> =>
       /\ witnessed.gone /\ request.route \in VersionRoutes => request.code \in {0, 410}
       /\ request.code = 200 /\ request.route \in {"confidence", "high_value"}
             /\ request.target = "first" => ~witnessed.gone
       /\ request.code = 410 =>
             \/ catalogued.purged
             \/ request.target = "second" /\ catalogued.second = "purged"
       /\ request.code = 404 => witnessed.hidden \/ witnessed.lacking

=============================================================================
