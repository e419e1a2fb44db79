--------------------------- MODULE ScopedListing ----------------------------
(***************************************************************************)
(* Who may read, and what a listing shows.  A caller is authenticated, its *)
(* scopes are resolved, and it walks GET /documents or GET                 *)
(* /knowledge/catalog page by page while documents appear, move, leave the *)
(* scope and come back.                                                    *)
(*                                                                         *)
(* Documents are numbered in the order (created_at, id) the listings use,  *)
(* so a cursor is a number, 0 before the first.  Left out: the file name   *)
(* filter, which works as the status filter does, and the codec of cursors.*)
(***************************************************************************)
EXTENDS Naturals, Sequences, FiniteSets, SequencesExt, OrderedRows, DocumentStatus

CONSTANTS
    DocumentCount,  \* documents are 1..DocumentCount
    Callers,        \* user ids
    OwnerOf,        \* of each document, the user whose personal scope it was uploaded into
    FixedUser,      \* the identity of the dev and disabled modes
    AuthModes,      \* KW_AUTH_MODE at each walk
    StatusFilters,  \* status sets a caller may ask for
    VersionLists,   \* statuses a document's versions may have, oldest first
    PageSize,       \* limit
    MaxChanges,     \* bound on the changes to documents during a walk
    Refused,        \* 401 or 403
    EveryScope      \* ALL_SCOPES_SENTINEL

ASSUME ListingAssumption ==
    /\ DocumentCount \in Nat /\ PageSize \in Nat \ {0} /\ MaxChanges \in Nat
    /\ StatusFilters \subseteq SUBSET Statuses
    /\ \A l \in VersionLists : Len(l) > 0
    /\ OwnerOf \in [1..DocumentCount -> Callers]
    /\ EveryScope \notin Callers /\ Refused \notin Callers
    /\ FixedUser \in Callers /\ AuthModes \subseteq {"bearer", "dev", "disabled"}

VARIABLES
    shelf,    \* of each document: made, linked to its scope, archived, versions
    changes,  \* changes made so far
    walker,   \* the walk under way: whose, through which route, how far
    answered, \* documents of the pages answered so far
    steady,   \* documents the listing has shown at every moment of the walk
    ever      \* documents it has shown at some moment of it

listingVars == <<shelf, changes, walker, answered, steady, ever>>

Shelved == 1..DocumentCount
Roles == {"viewer", "contributor", "reviewer", "admin"}

RoleRank(role) ==
    CASE role = "viewer" -> 0 [] role = "contributor" -> 1
      [] role = "reviewer" -> 2 [] role = "admin" -> 3

-----------------------------------------------------------------------------
(* A bearer token as the checks see it. *)
Tokens == [signed : BOOLEAN, complete : BOOLEAN, fresh : BOOLEAN,
           role : Roles \cup {"unknown"}, sub : Callers]

(* authenticate: the dev and disabled modes know one user, an administrator;*)
(* the bearer mode verifies signature, claims, role and expiry.            *)
Authenticate(mode, token) ==
    CASE mode \in {"dev", "disabled"} -> [id |-> FixedUser, role |-> "admin"]
      [] mode = "bearer" ->
            IF token.signed /\ token.complete /\ token.fresh /\ token.role \in Roles
            THEN [id |-> token.sub, role |-> token.role] ELSE Refused

RequireRole(user, least) ==
    user # Refused /\ RoleRank(user.role) >= RoleRank(least)

(* resolve_caller_scopes: nothing asked for is the personal scope; asking   *)
(* for any other scope than that, or for half a pair, is refused.          *)
ResolveCallerScopes(mode, user, asked) ==
    CASE mode = "disabled" -> EveryScope
      [] mode # "disabled" /\ asked = {} -> user.id
      [] mode # "disabled" /\ asked = {"kind", "ref"} -> user.id
      [] OTHER -> Refused

(* What the request names: nothing, one parameter, its own personal scope,  *)
(* or any other.                                                           *)
Asked == {{}, {"kind"}, {"ref"}, {"kind", "ref"}, {"other"}}

(* list_documents_in_scope and list_documents: archived documents are in   *)
(* neither, and only the first looks at the links.                         *)
Listed(scope, d) ==
    /\ shelf[d].made /\ ~shelf[d].archived
    /\ scope # EveryScope => shelf[d].linked /\ OwnerOf[d] = scope

(* ORDER BY created_at, id *)
Upward == Ascending(Shelved)

(* The first documents behind the cursor, in order. *)
FirstOf(docs, cursor, limit) == FirstFew(InOrder({d \in docs : d > cursor}, Upward), limit)

StorePage(scope, cursor, limit) ==
    FirstOf({d \in Shelved : Listed(scope, d)}, cursor, limit)

(* _matches: the status of the newest version. *)
Matches(d, filter) == Last(shelf[d].versions) \in filter

(* What is left of a page, in the order of the page. *)
Matching(docs, filter) == InOrder({d \in ToSet(docs) : Matches(d, filter)}, Upward)

(* _build_catalog_item: the newest version that is not superseded, unless   *)
(* the caller asks for superseded ones; with none the document has no row. *)
CatalogVersions(d, filter) ==
    {i \in 1..Len(shelf[d].versions) :
        "SUPERSEDED" \in filter \/ shelf[d].versions[i] # "SUPERSEDED"}

CatalogVisibility(filter) == IF filter = {} THEN {"VALIDATED", "NEEDS_REVIEW"} ELSE filter

HasCatalogRow(d, filter) ==
    \E i \in CatalogVersions(d, filter) :
       /\ \A j \in CatalogVersions(d, filter) : j <= i
       /\ shelf[d].versions[i] \in CatalogVisibility(filter)

(* What the walk is to show. *)
Belongs(w, d) ==
    /\ Listed(w.scope, d)
    /\ IF w.route = "catalog" THEN HasCatalogRow(d, w.filter)
       ELSE w.filter = {} \/ Matches(d, w.filter)

NoWalker == [route |-> "none", scope |-> Refused, filter |-> {}, cursor |-> 0,
             page |-> <<>>, matches |-> <<>>, stage |-> "idle"]

-----------------------------------------------------------------------------
(* The scopes a viewer's request may resolve to in this mode. *)
GrantedScopes(mode) ==
    LET viewers == {u \in {Authenticate(mode, t) : t \in Tokens} : RequireRole(u, "viewer")}
    IN  {ResolveCallerScopes(mode, u, asked) : u \in viewers, asked \in Asked} \ {Refused}

(* The first request of a walk, through one of the two routes. *)
BeginWalk ==
    /\ walker = NoWalker
    /\ \E scope \in UNION {GrantedScopes(mode) : mode \in AuthModes},
          filter \in StatusFilters, route \in {"documents", "catalog"} :
          LET w == [NoWalker EXCEPT !.route = route, !.scope = scope, !.filter = filter,
                                    !.stage = "ask"]
          IN  /\ walker' = w
              /\ steady' = {d \in Shelved : Belongs(w, d)}
              /\ ever' = {d \in Shelved : Belongs(w, d)}
    /\ answered' = <<>>
    /\ UNCHANGED <<shelf, changes>>

Answer(docs, next) ==
    /\ answered' = answered \o docs
    /\ walker' = [walker EXCEPT !.cursor = next, !.page = <<>>, !.matches = <<>>,
                                !.stage = IF next = 0 THEN "done" ELSE "ask"]

(* _list_documents_with_scope without a filter, and list_documents_page,   *)
(* whose filter is part of the query: a full page always has a cursor.     *)
PlainPage ==
    /\ walker.stage = "ask" /\ walker.route = "documents"
    /\ walker.filter = {} \/ walker.scope = EveryScope
    /\ LET docs == FirstOf({d \in Shelved : Belongs(walker, d)}, walker.cursor, PageSize)
       IN  Answer(docs, IF Len(docs) < PageSize THEN 0 ELSE Last(docs))
    /\ UNCHANGED <<shelf, changes, steady, ever>>

(* The first page of a filtered walk, as the store returns it. *)
FetchFirst ==
    /\ walker.stage = "ask" /\ walker.route = "documents"
    /\ walker.filter # {} /\ walker.scope # EveryScope
    /\ LET docs == StorePage(walker.scope, walker.cursor, PageSize)
       IN  walker' = [walker EXCEPT !.page = docs, !.stage = "filter",
                        !.matches = Matching(docs, walker.filter)]
    /\ UNCHANGED <<shelf, changes, answered, steady, ever>>

(* _filter_scoped_page_in_memory: until the page is full or the scope ends, *)
(* the store is asked for what follows the last document it returned.      *)
FetchMore ==
    /\ walker.stage = "filter"
    /\ Len(walker.matches) < PageSize /\ walker.page # <<>>
    /\ LET docs == StorePage(walker.scope, Last(walker.page), PageSize)
       IN  walker' = [walker EXCEPT !.page = docs,
                        !.matches = @ \o Matching(docs, walker.filter)]
    /\ UNCHANGED <<shelf, changes, answered, steady, ever>>

(* Faulty variant: the next page starts behind what was fetched, whether it *)
(* fitted on this one or not.                                              *)
NextCursorFetched(docs) == IF walker.page # <<>> THEN Last(walker.page) ELSE Last(docs)

(* The next page starts behind the last document of this one. *)
NextCursor(docs) == Last(docs)

FilteredPage ==
    /\ walker.stage = "filter"
    /\ Len(walker.matches) >= PageSize \/ walker.page = <<>>
    /\ LET docs == FirstFew(walker.matches, PageSize)
       IN  Answer(docs, IF Len(docs) < PageSize THEN 0 ELSE NextCursor(docs))
    /\ UNCHANGED <<shelf, changes, steady, ever>>

(* get_knowledge_catalog: every document behind the cursor is read, and the *)
(* rows taken until the page is full.                                      *)
CatalogPage ==
    /\ walker.stage = "ask" /\ walker.route = "catalog"
    /\ LET docs == FirstOf({d \in Shelved : Belongs(walker, d)}, walker.cursor, PageSize)
       IN  IF Len(docs) < PageSize THEN Answer(docs, 0)
           ELSE /\ walker' = [walker EXCEPT !.matches = docs, !.stage = "tail"]
                /\ answered' = answered
    /\ UNCHANGED <<shelf, changes, steady, ever>>

(* A full page has a cursor only when a row is found behind it. *)
CatalogTail ==
    /\ walker.stage = "tail"
    /\ LET last == Last(walker.matches)
       IN  Answer(walker.matches, IF \E d \in Shelved : d > last /\ Belongs(walker, d)
                                  THEN last ELSE 0)
    /\ UNCHANGED <<shelf, changes, steady, ever>>

EndWalk ==
    /\ walker.stage = "done"
    /\ walker' = NoWalker /\ answered' = <<>> /\ steady' = {} /\ ever' = {}
    /\ UNCHANGED <<shelf, changes>>

-----------------------------------------------------------------------------
(* A document is uploaded, linked, relinked or unlinked, archived or        *)
(* brought back, or its versions move, beside the walk.                    *)
Change(d, row) ==
    /\ changes < MaxChanges /\ changes' = changes + 1
    /\ row # shelf[d]
    /\ shelf' = [shelf EXCEPT ![d] = row]
    /\ UNCHANGED <<walker, answered>>
    /\ steady' = {e \in steady : Belongs(walker, e)'}
    /\ ever' = ever \cup {e \in Shelved : walker # NoWalker /\ Belongs(walker, e)'}

DocumentMade(d) ==
    /\ ~shelf[d].made
    /\ \A e \in 1..(d - 1) : shelf[e].made
    /\ Change(d, [shelf[d] EXCEPT !.made = TRUE])

LinkChanges(d) ==
    shelf[d].made /\ Change(d, [shelf[d] EXCEPT !.linked = ~@])

ArchiveChanges(d) ==
    shelf[d].made /\ Change(d, [shelf[d] EXCEPT !.archived = ~@])

VersionsMove(d) ==
    shelf[d].made /\ \E l \in VersionLists : Change(d, [shelf[d] EXCEPT !.versions = l])

(* Everything made so far is linked and nothing archived; a document not    *)
(* yet made has neither.                                                   *)
ListingInit ==
    /\ shelf \in [Shelved -> [made : BOOLEAN, linked : BOOLEAN, archived : {FALSE},
                              versions : VersionLists]]
    /\ \A d \in Shelved : shelf[d].linked = shelf[d].made
    /\ \A d, e \in Shelved : d < e /\ shelf[e].made => shelf[d].made
    /\ changes = 0 /\ walker = NoWalker
    /\ answered = <<>> /\ steady = {} /\ ever = {}

ListingNext ==
    \/ BeginWalk \/ PlainPage \/ FetchFirst \/ FetchMore \/ FilteredPage
    \/ CatalogPage \/ CatalogTail \/ EndWalk
    \/ \E d \in Shelved :
          DocumentMade(d) \/ LinkChanges(d) \/ ArchiveChanges(d) \/ VersionsMove(d)

ListingSpec == ListingInit /\ [][ListingNext]_listingVars

ListingTypeOK ==
    /\ shelf \in [Shelved -> [made : BOOLEAN, linked : BOOLEAN, archived : BOOLEAN,
                              versions : VersionLists]]
    /\ changes \in 0..MaxChanges
    /\ walker.cursor \in 0..DocumentCount
    /\ walker.scope \in Callers \cup {EveryScope, Refused}
    /\ answered \in Seq(Shelved)
    /\ steady \subseteq ever /\ ever \subseteq Shelved

-----------------------------------------------------------------------------
(* A walk followed to its last page has shown every document that belonged  *)
(* to the listing from its first request to its last, each once and in     *)
(* order, and none that never did, whoever's it is: the filter applied to  *)
(* pages already cut, the look behind a full page and the changes between  *)
(* two requests neither skip nor repeat a document.                        *)
ListingIsComplete ==
    /\ \A i \in 2..Len(answered) : answered[i - 1] < answered[i]
    /\ ToSet(answered) \subseteq ever
    /\ walker.stage = "done" => steady \subseteq ToSet(answered)

=============================================================================
