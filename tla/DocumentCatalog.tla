--------------------------- MODULE DocumentCatalog ---------------------------
(***************************************************************************)
(* How versions come into the catalog and how their bytes leave it: the    *)
(* upload routes, duplicate detection, idempotency keys, and the operators' *)
(* archiving, un-archiving and purging.                                    *)
(*                                                                         *)
(* The upload routes run on the event loop and await nothing between their *)
(* look at the idempotency key and their answer, so at most one upload is  *)
(* under way.  The administration's routes run on threads: their           *)
(* statements come between any two of an upload and of each other.  Any    *)
(* statement may fail, and the process may die after any.                  *)
(*                                                                         *)
(* A version is STORED here as long as it is not purged and not a          *)
(* duplicate, whatever the extraction and the review make of it; what of   *)
(* them shows is that work under way when a version is purged may write a  *)
(* status over PURGED.  Left out: file names, content types, limits on     *)
(* sizes, audit rows, the scopes a document is linked to, and what a dry   *)
(* run answers.                                                            *)
(***************************************************************************)
EXTENDS DocumentStatus, Naturals, FiniteSetsExt

CONSTANTS
    Documents,     \* ids of document families
    Versions,      \* ids of versions, and the storage keys made from them
    Hashes,        \* digests of the contents users upload
    Keys,          \* idempotency keys
    Requests,      \* what clients ask for: <<a key or None, a kind of route>>
    Admins,        \* threads of the administration's routes
    Failures,      \* whether a statement, or the bytes store, may fail
    Crashes,       \* whether the process may die
    MaxStray,      \* bound: no fault once so many bytes have no row to show for them
    None           \* no version, no document, no key

Kinds == {"single", "batch"}

ASSUME CatalogAssumption ==
    /\ None \notin Documents \cup Versions \cup Hashes \cup Keys
    /\ Requests \subseteq (Keys \cup {None}) \X Kinds
    /\ <<None, "single">> \in Requests
    /\ {Failures, Crashes} \subseteq BOOLEAN
    /\ MaxStray \in Nat

VARIABLES
    row,        \* document_versions
    latest,     \* documents: the latest version of each, None if there is none
    archived,   \* documents with archived_at set
    bytes,      \* the versions whose bytes are in the store
    keys,       \* idempotency_keys: what has been answered under which key
    upload,     \* the upload under way
    purge,      \* what each administration thread is purging
    late,       \* versions purged while an extraction or a review was under way
    undone,     \* history: documents un-archived in the middle of a purge
    kept,       \* history: versions whose bytes the store refused to delete
    revived,    \* history: versions whose status was written after their purge
    answered    \* history: requests the client has an answer to

vars == <<row, latest, archived, bytes, keys, upload, purge, late, undone, kept,
          revived, answered>>

(* The requests whose answers are kept under their key and their route. *)
Keyed == {r \in Requests : r[1] # None}

Rows == [document    : Documents,
         number      : Nat \ {0},
         hash        : Hashes,
         duplicateOf : Versions \cup {None},
         status      : {"STORED", "DUPLICATE_DETECTED", "PURGED"}]

ASSUME RowAssumption == None \notin Rows

Recorded == {v \in Versions : row[v] # None}

VersionsOf(d) == {v \in Recorded : row[v].document = d}

Exists(d) == d # None /\ latest[d] # None

(* get_document hides an archived document, most writes do not. *)
Visible(d) == Exists(d) /\ d \notin archived

NextNumber(d) == 1 + Max({0} \cup {row[v].number : v \in VersionsOf(d)})

(* Bytes of an upload that failed, or that the store refused to delete: a   *)
(* revived row holds the tombstone's URI.                                  *)
Stray == {v \in bytes \ {upload.version} :
             v \in Recorded => row[v].status = "PURGED" \/ v \in revived}

FaultAllowed == Cardinality(Stray) < MaxStray

(* Faulty variant: a version of an archived document is not found. *)
OriginalsVisible(h) ==
    {v \in Recorded : /\ row[v].hash = h
                      /\ row[v].duplicateOf = None
                      /\ row[v].status # "PURGED"
                      /\ Visible(row[v].document)}

(* Faulty variant: a duplicate is as good as an original. *)
OriginalsAny(h) ==
    {v \in Recorded : row[v].hash = h /\ row[v].status # "PURGED"}

(* find_version_by_hash takes the oldest of these. *)
Originals(h) ==
    {v \in Recorded : /\ row[v].hash = h
                      /\ row[v].duplicateOf = None
                      /\ row[v].status # "PURGED"}

NoUpload == [step |-> "idle", request |-> <<None, "single">>, hash |-> None,
             document |-> None, number |-> 1, version |-> None,
             duplicateOf |-> None]

(* A purge holds the versions it has still to purge, of which those in       *)
(* blind were listed with a tombstone where their URI should be.           *)
NoPurge == [step |-> "idle", document |-> None, todo |-> {}, blind |-> {}]

UploadSteps == {"idle", "store", "find", "resolve", "insert", "more", "answer"}
PurgeSteps  == {"idle", "list", "delete", "mark"}

TypeOK ==
    /\ row \in [Versions -> Rows \cup {None}]
    /\ latest \in [Documents -> Versions \cup {None}]
    /\ archived \subseteq Documents
    /\ bytes \subseteq Versions
    /\ keys \subseteq Keyed
    /\ upload \in [step : UploadSteps, request : Requests, hash : Hashes \cup {None},
                   document : Documents \cup {None}, number : Nat \ {0},
                   version : Versions \cup {None}, duplicateOf : Versions \cup {None}]
    /\ purge \in [Admins -> [step : PurgeSteps, document : Documents \cup {None},
                             todo : SUBSET Versions, blind : SUBSET Versions]]
    /\ undone \subseteq Documents
    /\ late \cup kept \cup revived \subseteq Versions
    /\ answered \subseteq Keyed

Init ==
    /\ row = [v \in Versions |-> None]
    /\ latest = [d \in Documents |-> None]
    /\ archived = {}
    /\ bytes = {}
    /\ keys = {}
    /\ upload = NoUpload
    /\ purge = [a \in Admins |-> NoPurge]
    /\ late = {}
    /\ undone = {}
    /\ kept = {}
    /\ revived = {}
    /\ answered = {}

-----------------------------------------------------------------------------
(* Uploads.                                                                *)

stores == <<row, latest, archived, bytes, keys>>
revival == <<late, revived>>
history == <<undone, kept, answered, revival>>

(* _check_idempotency, then the document, when the client names one.  A     *)
(* stored key is answered with the stored response, or refused if it came  *)
(* with other content; an archived document is not found.                  *)
BeginUpload(r, h, d) ==
    /\ upload.step = "idle"
    /\ r \notin keys
    /\ r[2] = "batch" => d = None
    /\ d # None => Visible(d)
    /\ upload' = [NoUpload EXCEPT !.step = "store", !.request = r, !.hash = h,
                                  !.document = d,
                                  !.number = IF d = None THEN 1 ELSE NextNumber(d)]
    /\ UNCHANGED <<stores, purge, history>>

(* put_stream under a fresh version id; the digest comes with it. *)
StoreBytes(v) ==
    /\ upload.step = "store"
    /\ v \notin bytes \cup Recorded
    /\ bytes' = bytes \cup {v}
    /\ upload' = [upload EXCEPT !.step = "find", !.version = v]
    /\ UNCHANGED <<row, latest, archived, keys, purge, history>>

(* find_version_by_hash: no tombstone and no copy.  Of several originals, as *)
(* there are once one has come back, SQLite takes the oldest and the store *)
(* in memory another; here it is any.                                      *)
FindDuplicate ==
    /\ upload.step = "find"
    /\ \E u \in IF Originals(upload.hash) = {} THEN {None} ELSE Originals(upload.hash) :
          upload' = [upload EXCEPT
             !.step = IF u # None /\ upload.document = None THEN "resolve" ELSE "insert",
             !.duplicateOf = u]
    /\ UNCHANGED <<stores, purge, history>>

(* Faulty variant: a version's number is how many stand, plus one. *)
ResolveFamilyCounting ==
    LET d == row[upload.duplicateOf].document IN
    /\ upload.step = "resolve"
    /\ upload' = IF Visible(d)
                 THEN [upload EXCEPT !.step = "insert", !.document = d,
                          !.number = 1 + Cardinality({v \in VersionsOf(d) :
                                                         row[v].status # "PURGED"})]
                 ELSE [upload EXCEPT !.step = "insert"]
    /\ UNCHANGED <<stores, purge, history>>

(* _resolve_duplicate_family: a duplicate nobody chose a document for joins *)
(* that of its original; if it is archived, it starts one of its own.      *)
ResolveFamily ==
    LET d == row[upload.duplicateOf].document IN
    /\ upload.step = "resolve"
    /\ upload' = IF Visible(d)
                 THEN [upload EXCEPT !.step = "insert", !.document = d,
                                     !.number = NextNumber(d)]
                 ELSE [upload EXCEPT !.step = "insert"]
    /\ UNCHANGED <<stores, purge, history>>

(* Faulty variant: the version is given the document the request named. *)
InsertAsRequested(d) ==
    /\ upload.step = "insert"
    /\ IF upload.document = None THEN ~Exists(d) ELSE d = upload.document
    /\ row' = [row EXCEPT ![upload.version] =
          [document |-> upload.document, number |-> upload.number, hash |-> upload.hash,
           duplicateOf |-> upload.duplicateOf,
           status |-> IF upload.duplicateOf = None THEN "STORED"
                                                   ELSE "DUPLICATE_DETECTED"]]
    /\ latest' = [latest EXCEPT ![d] = upload.version]
    /\ upload' = [NoUpload EXCEPT
          !.step = IF upload.request[2] = "batch" THEN "more" ELSE "answer",
          !.request = upload.request]
    /\ UNCHANGED <<archived, bytes, keys, purge, history>>

(* save_document_with_version or append_version_to_document, which accepts  *)
(* an archived document.                                                   *)
Insert(d) ==
    /\ upload.step = "insert"
    /\ IF upload.document = None THEN ~Exists(d) ELSE d = upload.document
    /\ row' = [row EXCEPT ![upload.version] =
          [document |-> d, number |-> upload.number, hash |-> upload.hash,
           duplicateOf |-> upload.duplicateOf,
           status |-> IF upload.duplicateOf = None THEN "STORED"
                                                   ELSE "DUPLICATE_DETECTED"]]
    /\ latest' = [latest EXCEPT ![d] = upload.version]
    /\ upload' = [NoUpload EXCEPT
          !.step = IF upload.request[2] = "batch" THEN "more" ELSE "answer",
          !.request = upload.request]
    /\ UNCHANGED <<archived, bytes, keys, purge, history>>

(* A batch goes on with its next file. *)
NextFile(h) ==
    /\ upload.step = "more"
    /\ upload' = [NoUpload EXCEPT !.step = "store", !.request = upload.request,
                                  !.hash = h]
    /\ UNCHANGED <<stores, purge, history>>

(* A statement fails: a single upload answers 500 and stores no key, a      *)
(* batch notes the failure of the file and goes on.                        *)
UploadFails ==
    /\ Failures /\ FaultAllowed
    /\ \/ /\ upload.step \in {"store", "find", "resolve", "insert"}
          /\ upload' = IF upload.request[2] = "batch"
                       THEN [NoUpload EXCEPT !.step = "more", !.request = upload.request]
                       ELSE NoUpload
       \/ /\ upload.step = "answer"
          /\ upload' = NoUpload
    /\ UNCHANGED <<stores, purge, history>>

(* Faulty variant: a batch is not remembered under its key. *)
AnswerSingle ==
    /\ upload.step \in {"more", "answer"}
    /\ keys' = keys \cup ({upload.request} \cap (Keys \X {"single"}))
    /\ answered' = answered \cup ({upload.request} \cap Keyed)
    /\ upload' = NoUpload
    /\ UNCHANGED <<row, latest, archived, bytes, purge, undone, kept, revival>>

(* _store_idempotency, and the answer. *)
Answer ==
    /\ upload.step \in {"more", "answer"}
    /\ keys' = keys \cup ({upload.request} \cap Keyed)
    /\ answered' = answered \cup ({upload.request} \cap Keyed)
    /\ upload' = NoUpload
    /\ UNCHANGED <<row, latest, archived, bytes, purge, undone, kept, revival>>

-----------------------------------------------------------------------------
(* Administration.                                                         *)

(* orbital_purge_document archives first, and then purges like the rest. *)
Archive(a, d) ==
    /\ purge[a].step = "idle"
    /\ Exists(d)
    /\ archived' = archived \cup {d}
    /\ purge' = [purge EXCEPT ![a] = [NoPurge EXCEPT !.step = "list", !.document = d]]
    /\ UNCHANGED <<row, latest, bytes, keys, upload, history>>

(* What is left to purge, or nothing. *)
PurgeRest(a, d, rest, blind) ==
    purge' = [purge EXCEPT ![a] =
       IF rest = {} THEN NoPurge
       ELSE [step |-> "delete", document |-> d, todo |-> rest, blind |-> blind \cap rest]]

Unpurged(d) == {v \in VersionsOf(d) : row[v].status # "PURGED"}

(* Faulty variant: a document is purged whether or not it is archived. *)
ListVersionsAnyway(a, d) ==
    /\ \/ purge[a].step = "idle" /\ Exists(d)
       \/ purge[a].step = "list" /\ d = purge[a].document
    /\ PurgeRest(a, d, Unpurged(d), revived)
    /\ UNCHANGED <<stores, upload, history>>

(* _purge_one_document, on its own (purge_artifacts, purge_batch) or after  *)
(* the archiving: a document that is not archived is refused, a version    *)
(* already purged skipped.                                                 *)
ListVersions(a, d) ==
    /\ \/ purge[a].step = "idle" /\ Exists(d)
       \/ purge[a].step = "list" /\ d = purge[a].document
    /\ PurgeRest(a, d, IF d \in archived THEN Unpurged(d) ELSE {}, revived)
    /\ UNCHANGED <<stores, upload, history>>

(* A document's versions are purged from the oldest on. *)
IsNext(a, v) ==
    /\ v \in purge[a].todo
    /\ \A u \in purge[a].todo : row[v].number <= row[u].number

(* storage.delete, of what the listed URI names: nothing, or an error that  *)
(* is logged, when that is a tombstone.                                    *)
DeleteBytes(a, v) ==
    LET gone == {v} \ purge[a].blind IN
    /\ purge[a].step = "delete"
    /\ IsNext(a, v)
    /\ bytes' = bytes \ gone
    /\ kept' = kept \ gone
    /\ purge' = [purge EXCEPT ![a].step = "mark"]
    /\ UNCHANGED <<row, latest, archived, keys, upload, undone, answered, revival>>

(* The store refuses: that is logged, and the purge goes on. *)
KeepBytes(a, v) ==
    /\ Failures /\ FaultAllowed
    /\ purge[a].step = "delete"
    /\ IsNext(a, v)
    /\ kept' = kept \cup ({v} \cap bytes)
    /\ purge' = [purge EXCEPT ![a].step = "mark"]
    /\ UNCHANGED <<stores, upload, undone, answered, revival>>

(* purge_version_artifacts: the tombstone replaces the URI of the bytes.    *)
(* Nothing is asked of an extraction or a review that is under way; there  *)
(* is none of a duplicate, nor of what is purged already.                  *)
MarkPurged(a, v) ==
    /\ purge[a].step = "mark"
    /\ IsNext(a, v)
    /\ row' = [row EXCEPT ![v].status = "PURGED"]
    /\ \/ late' = late
       \/ row[v].status = "STORED" /\ late' = late \cup {v}
    /\ PurgeRest(a, purge[a].document, purge[a].todo \ {v}, purge[a].blind)
    /\ UNCHANGED <<latest, archived, bytes, keys, upload, undone, kept, answered, revived>>

(* update_version_failure of a parser that fails late, update_version_review *)
(* of a decision that was checked before: an UPDATE with no test of the      *)
(* current status.  The URI stays the tombstone's.                         *)
LateWrite(v) ==
    /\ v \in late
    /\ row[v].status = "PURGED"
    /\ row' = [row EXCEPT ![v].status = "STORED"]
    /\ late' = late \ {v}
    /\ revived' = revived \cup {v}
    /\ UNCHANGED <<latest, archived, bytes, keys, upload, purge, undone, kept, answered>>

(* The catalog fails: the rest is not purged. *)
PurgeFails(a) ==
    /\ Failures /\ FaultAllowed
    /\ purge[a].step \in {"list", "mark"}
    /\ purge' = [purge EXCEPT ![a] = NoPurge]
    /\ UNCHANGED <<stores, upload, history>>

(* A version whose bytes are gone, and whose row does not say so yet. *)
HalfPurged(d) ==
    \/ \E v \in Unpurged(d) \ revived : v \notin bytes
    \/ \E a \in Admins : purge[a].document = d /\ purge[a].step \in {"delete", "mark"}

Unarchive(d) ==
    /\ d \in archived
    /\ archived' = archived \ {d}
    /\ undone' = IF HalfPurged(d) THEN undone \cup {d} ELSE undone
    /\ UNCHANGED <<row, latest, bytes, keys, upload, purge, kept, answered, revival>>

-----------------------------------------------------------------------------
Crash ==
    /\ Crashes /\ FaultAllowed
    /\ upload' = NoUpload
    /\ purge' = [a \in Admins |-> NoPurge]
    /\ late' = {}
    /\ UNCHANGED <<stores, undone, kept, answered, revived>>

Next ==
    \/ \E h \in Hashes :
          \/ \E r \in Requests, d \in Documents \cup {None} : BeginUpload(r, h, d)
          \/ NextFile(h)
    \/ \E v \in Versions : StoreBytes(v) \/ LateWrite(v)
    \/ \E d \in Documents : Insert(d) \/ Unarchive(d)
    \/ FindDuplicate \/ ResolveFamily \/ UploadFails \/ Answer
    \/ \E a \in Admins :
          \/ \E d \in Documents : Archive(a, d) \/ ListVersions(a, d)
          \/ \E v \in Versions :
                DeleteBytes(a, v) \/ KeepBytes(a, v) \/ MarkPurged(a, v)
          \/ PurgeFails(a)
    \/ Crash

Spec == Init /\ [][Next]_vars

-----------------------------------------------------------------------------
(* Properties.                                                             *)

(* ADR-002, duplicate detection: of the versions with one content, one at   *)
(* most is extracted, whatever is archived, purged and uploaded again, and  *)
(* whatever crashes: beside it stand only versions whose own work outlived  *)
(* their purge.                                                            *)
OneOriginal ==
    \A u, v \in Recorded \ revived :
       row[u].status = "STORED" /\ row[v].status = "STORED" /\ row[u].hash = row[v].hash
          => u = v

(* What the rows are as a registry of contents. *)
Registered ==
    [v \in Recorded |-> [content |-> row[v].hash, copyOf |-> row[v].duplicateOf,
                         retired |-> row[v].status = "PURGED", restored |-> v \in revived]]

Registry == INSTANCE ContentRegistry WITH entries <- Registered

(* The lookup by hash, the choice of a document and the insertion are       *)
(* statements of their own, beside purges, un-archivings and late writes;   *)
(* seen from outside, a content is adopted only when all its originals are  *)
(* retired or were retired once, copied otherwise, pointers and contents   *)
(* never change, and no copy comes back from its retirement.               *)
ImplementsRegistry == Registry!RegistrySpec

(* find_version_by_hash: no "chaining off a duplicate row instead of        *)
(* pointing at the original version", even once the original is purged.    *)
DuplicatesPointAtOriginals ==
    \A v \in Recorded :
       LET u == row[v].duplicateOf IN
       u # None => /\ u \in Recorded
                   /\ row[u].duplicateOf = None
                   /\ row[u].hash = row[v].hash

(* The numbers of a document's versions are distinct, the highest is the    *)
(* latest version's, though they are read before the bytes are stored.     *)
LatestIsNewest ==
    \A d \in Documents : \A v \in VersionsOf(d) :
       /\ latest[d] \in VersionsOf(d)
       /\ v # latest[d] => row[v].number < row[latest[d]].number
       /\ \A u \in VersionsOf(d) \ {v} : row[u].number # row[v].number

(* An Idempotency-Key under which the client has an answer makes no further *)
(* version, however often the request is sent again.                       *)
AnsweredOnce ==
    [][\A v \in Versions :
          row[v] = None /\ row'[v] # None => upload.request \notin answered]_vars

(* What a reader can see can be downloaded and extracted: the bytes of a    *)
(* version are there until it is purged, unless an operator un-archived    *)
(* the document in the middle of its purge, or the version's own work      *)
(* wrote its status after it.                                              *)
VisibleHasBytes ==
    \A v \in Recorded :
       /\ row[v].status # "PURGED"
       /\ row[v].document \notin archived \cup undone
       /\ v \notin revived
       => v \in bytes

(* A tombstone has no bytes: gone for good, through crashes between a       *)
(* purge's statements, uploads, late writes and purges of the same document *)
(* beside it, unless the store refused the deletion, which no later purge  *)
(* of the tombstone repeats.                                               *)
PurgedHasNoBytes ==
    \A v \in Recorded : row[v].status = "PURGED" /\ v \notin kept => v \notin bytes

(* Two stores and no transaction over both: after any statement, fault and  *)
(* crash, the bytes are there for what is visible and gone for what is     *)
(* purged (upload_stream stores bytes first, a purge deletes them first).   *)
BytesFollowRows == VisibleHasBytes /\ PurgedHasNoBytes

=============================================================================
