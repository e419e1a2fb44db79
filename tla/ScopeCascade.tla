---------------------------- MODULE ScopeCascade ----------------------------
(***************************************************************************)
(* Workspace scopes: the links from documents to scopes, and the cascade   *)
(* that archives the documents a deleted community leaves without any.     *)
(*                                                                         *)
(* A link is never deleted, only marked removed.  A cascade lists the      *)
(* documents its scope is linked to, removes those links one transaction   *)
(* at a time, and then asks of each document whether a link is left.       *)
(* Several cascades, uploads and administrators interleave.                *)
(*                                                                         *)
(* Left out: timestamps and actors, and the clean-up of the graph, which   *)
(* runs after the archiving and never fails the cascade.                   *)
(***************************************************************************)
EXTENDS Naturals, FiniteSets

CONSTANTS
    Documents,  \* documents of the catalog
    Scopes,     \* (kind, ref) pairs
    Cascades,   \* threads a cascade may run on
    NoScope     \* the thread runs no cascade

ASSUME CascadeAssumption == NoScope \notin Scopes

VARIABLES
    link,      \* document_scopes: of each document and scope, its row
    archived,  \* the documents whose archived_at is set
    unlinked,  \* uploads whose document is stored and not linked to its scope
    cascade,   \* of each thread, the cascade it runs
    excused    \* documents let out of the catalog's care: see OrphansAreArchived

cascadeVars == <<link, archived, unlinked, cascade, excused>>

LinkStates == {"none", "active", "removed"}

-----------------------------------------------------------------------------
(* list_scopes_for_document: the rows whose removed_at is not set. *)
ActiveScopes(d) == {s \in Scopes : link[d][s] = "active"}

(* Faulty variant: rows marked removed are listed too. *)
RemainingScopesAll(d) == {s \in Scopes : link[d][s] # "none"}

(* What the orphan check reads. *)
RemainingScopes(d) == ActiveScopes(d)

(* _candidate_document_ids: archived documents included. *)
CandidateDocuments(s) == {d \in Documents : link[d][s] = "active"}

(* add_scope: a fresh row, or a removed one brought back; an active one is  *)
(* left alone.                                                             *)
AddScope(d, s) == link' = [link EXCEPT ![d][s] = "active"]

(* remove_scope: only an active row is marked. *)
RemoveScope(d, s) ==
    link' = [link EXCEPT ![d][s] = IF @ = "active" THEN "removed" ELSE @]

Idle == [scope |-> NoScope, toRemove |-> {}, toCheck |-> {}, orphan |-> {}]

-----------------------------------------------------------------------------
(* The upload route stores the document, and links it to the scope of the   *)
(* request by a transaction of its own.                                    *)
UploadStored(d, s) ==
    /\ \A t \in Scopes : <<d, t>> \notin unlinked
    /\ unlinked' = unlinked \cup {<<d, s>>}
    /\ UNCHANGED <<link, archived, cascade, excused>>

UploadLinked(d, s) ==
    /\ <<d, s>> \in unlinked
    /\ AddScope(d, s)
    /\ unlinked' = unlinked \ {<<d, s>>}
    /\ excused' = excused \ {d}
    /\ UNCHANGED <<archived, cascade>>

(* POST /admin/archive/relink_scope: a row that was never there answers 404. *)
RelinkScope(d, s) ==
    /\ link[d][s] = "removed"
    /\ AddScope(d, s)
    /\ excused' = excused \ {d}
    /\ UNCHANGED <<archived, unlinked, cascade>>

(* POST /admin/archive/unarchive: the scopes are not looked at. *)
Unarchive(d) ==
    /\ d \in archived
    /\ archived' = archived \ {d}
    /\ excused' = IF ActiveScopes(d) = {} THEN excused \cup {d} ELSE excused
    /\ UNCHANGED <<link, unlinked, cascade>>

-----------------------------------------------------------------------------
(* cascade_after_scope_removal, up to the candidates. *)
CascadeStart(c, s) ==
    /\ cascade[c] = Idle
    /\ CandidateDocuments(s) # {}
    /\ cascade' = [cascade EXCEPT ![c] = [Idle EXCEPT !.scope = s,
                                            !.toRemove = CandidateDocuments(s),
                                            !.toCheck = CandidateDocuments(s)]]
    /\ UNCHANGED <<link, archived, unlinked, excused>>

CascadeRemove(c) ==
    /\ \E d \in cascade[c].toRemove :
          /\ RemoveScope(d, cascade[c].scope)
          /\ cascade' = [cascade EXCEPT ![c].toRemove = @ \ {d}]
    /\ UNCHANGED <<archived, unlinked, excused>>

(* With every link removed, the documents are looked at one by one: one     *)
(* with a scope left is skipped, any other is to be archived.              *)
CascadeCheck(c) ==
    /\ cascade[c].toRemove = {}
    /\ cascade[c].orphan = {}
    /\ \E d \in cascade[c].toCheck :
          cascade' = [cascade EXCEPT ![c].toCheck = @ \ {d},
                                     ![c].orphan = IF RemainingScopes(d) = {} THEN {d} ELSE {}]
    /\ UNCHANGED <<link, archived, unlinked, excused>>

(* flag_document_archived: a document already archived stays as it was. *)
CascadeArchive(c) ==
    /\ cascade[c].orphan # {}
    /\ archived' = archived \cup cascade[c].orphan
    /\ cascade' = [cascade EXCEPT ![c].orphan = {}]
    /\ UNCHANGED <<link, unlinked, excused>>

(* The archiving raises: the failure is reported, and the next document is  *)
(* looked at.                                                              *)
CascadeArchiveFails(c) ==
    /\ cascade[c].orphan # {}
    /\ cascade' = [cascade EXCEPT ![c].orphan = {}]
    /\ excused' = excused \cup cascade[c].orphan
    /\ UNCHANGED <<link, archived, unlinked>>

CascadeEnds(c) ==
    /\ cascade[c].scope # NoScope
    /\ cascade[c].toRemove = {} /\ cascade[c].toCheck = {} /\ cascade[c].orphan = {}
    /\ cascade' = [cascade EXCEPT ![c] = Idle]
    /\ UNCHANGED <<link, archived, unlinked, excused>>

(* The process dies.  The next cascade for the same scope lists only the    *)
(* documents still linked to it: the ones cut off are never looked at.     *)
CascadeCrash ==
    /\ unlinked # {} \/ \E c \in Cascades : cascade[c] # Idle
    /\ cascade' = [c \in Cascades |-> Idle]
    /\ unlinked' = {}
    /\ excused' = excused \cup UNION {cascade[c].toCheck \cup cascade[c].orphan : c \in Cascades}
    /\ UNCHANGED <<link, archived>>

CascadeInit ==
    /\ link = [d \in Documents |-> [s \in Scopes |-> "none"]]
    /\ archived = {}
    /\ unlinked = {}
    /\ cascade = [c \in Cascades |-> Idle]
    /\ excused = {}

CascadeNext ==
    \/ \E d \in Documents, s \in Scopes :
          UploadStored(d, s) \/ UploadLinked(d, s) \/ RelinkScope(d, s)
    \/ \E d \in Documents : Unarchive(d)
    \/ \E c \in Cascades, s \in Scopes : CascadeStart(c, s)
    \/ \E c \in Cascades :
          \/ CascadeRemove(c) \/ CascadeCheck(c)
          \/ CascadeArchive(c) \/ CascadeArchiveFails(c) \/ CascadeEnds(c)
    \/ CascadeCrash

CascadeSpec == CascadeInit /\ [][CascadeNext]_cascadeVars

CascadeTypeOK ==
    /\ link \in [Documents -> [Scopes -> LinkStates]]
    /\ archived \subseteq Documents
    /\ unlinked \subseteq Documents \X Scopes
    /\ cascade \in [Cascades -> [scope : Scopes \cup {NoScope}, toRemove : SUBSET Documents,
                                 toCheck : SUBSET Documents, orphan : SUBSET Documents]]
    /\ excused \subseteq Documents

-----------------------------------------------------------------------------
(* A document that has lost every scope does not stay in the catalog: it is *)
(* archived, or a running cascade has yet to look at it.  This is so       *)
(* however cascades for two scopes of one document overlap, and whatever is *)
(* linked again meanwhile.  Excused are the documents an administrator      *)
(* brought back without a scope, those whose archiving failed, and those a  *)
(* crash cut off: nothing ever looks at the last two again, for a second   *)
(* cascade lists active links only (scope_cascade_service.py:157).         *)
OrphansAreArchived ==
    \A d \in Documents :
        (\E s \in Scopes : link[d][s] = "removed") /\ ActiveScopes(d) = {} =>
            \/ d \in archived \cup excused
            \/ \E c \in Cascades : d \in cascade[c].toCheck \cup cascade[c].orphan

=============================================================================
