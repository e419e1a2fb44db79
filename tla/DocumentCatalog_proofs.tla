----------------------- MODULE DocumentCatalog_proofs -----------------------
(***************************************************************************)
(* Proofs about DocumentCatalog, for any documents, versions, contents,    *)
(* keys, administrators and faults.                                        *)
(***************************************************************************)
EXTENDS DocumentCatalog, TLAPS

-----------------------------------------------------------------------------
(* The inductive invariant.                                                *)

(* Only an original is stored to be extracted. *)
RowInv == \A v \in Recorded : row[v].status = "STORED" => row[v].duplicateOf = None

(* What the upload under way has found out is still so: it is the only one, *)
(* and what the administrators do takes nothing from it.  Where it found no *)
(* original, all there are now have come back since.                       *)
UploadInv ==
    /\ upload.step \in {"store", "find", "resolve", "insert"} => upload.hash \in Hashes
    /\ upload.step \in {"find", "resolve", "insert"} =>
          /\ upload.version \in bytes
          /\ row[upload.version] = None
    /\ upload.step \in {"store", "find", "insert"} /\ upload.document # None =>
          \A v \in VersionsOf(upload.document) : row[v].number < upload.number
    /\ upload.step = "resolve" => upload.document = None /\ upload.duplicateOf # None
    /\ upload.step \in {"resolve", "insert"} =>
          IF upload.duplicateOf = None THEN Originals(upload.hash) \subseteq revived
          ELSE /\ upload.duplicateOf \in Recorded
               /\ row[upload.duplicateOf].duplicateOf = None
               /\ row[upload.duplicateOf].hash = upload.hash

(* No upload is under way for a request that has been answered. *)
KeyInv ==
    /\ answered \subseteq keys
    /\ upload.step # "idle" => upload.request \notin keys

(* A purge that has begun to delete concerns an archived document, or one   *)
(* un-archived under its hands.                                            *)
PurgeOf(a) ==
    /\ purge[a].todo \subseteq VersionsOf(purge[a].document)
    /\ purge[a].step \in {"delete", "mark"} => purge[a].document \in archived \cup undone
    /\ purge[a].step = "mark" =>
          \A v \in Versions : IsNext(a, v) => v \notin bytes \/ v \in kept
    /\ purge[a].blind \subseteq revived

PurgeInv == \A a \in Admins : PurgeOf(a)

(* Work is done on originals only, and what it brings back after a purge    *)
(* has no bytes but such as the store refused to delete.                   *)
RevivalInv ==
    /\ \A v \in late \cup revived : v \in Recorded /\ row[v].duplicateOf = None
    /\ \A v \in revived : v \notin bytes \/ v \in kept

CatalogInv == RowInv /\ OneOriginal /\ DuplicatesPointAtOriginals /\ LatestIsNewest

BytesInv == VisibleHasBytes /\ PurgedHasNoBytes

IInv == TypeOK /\ CatalogInv /\ UploadInv /\ KeyInv /\ PurgeInv /\ RevivalInv /\ BytesInv

-----------------------------------------------------------------------------
(* The latest version carries the highest number, so that a next number     *)
(* exists, and is higher than all.                                         *)
LEMMA NextNumberIsHigher ==
    ASSUME TypeOK, LatestIsNewest, NEW d \in Documents
    PROVE  /\ NextNumber(d) \in Nat \ {0}
           /\ \A v \in VersionsOf(d) : row[v].number < NextNumber(d)
<1> DEFINE S == {0} \cup {row[v].number : v \in VersionsOf(d)}
<1>1. \A v \in VersionsOf(d) : row[v].number \in Nat \ {0}
  BY DEF TypeOK, VersionsOf, Recorded, Rows
<1>2. \E m \in S : \A n \in S : m >= n
  <2>1. CASE VersionsOf(d) = {}
    BY <2>1
  <2>2. CASE VersionsOf(d) # {}
    <3>1. latest[d] \in VersionsOf(d)
      BY <2>2 DEF LatestIsNewest
    <3>2. \A v \in VersionsOf(d) : row[v].number <= row[latest[d]].number
      BY <3>1, <1>1 DEF LatestIsNewest
    <3> QED
      BY <3>1, <3>2, <1>1
  <2> QED
    BY <2>1, <2>2
<1>3. S \subseteq Nat /\ \A v \in VersionsOf(d) : row[v].number \in S
  BY <1>1
<1>4. Max(S) \in S /\ \A n \in S : Max(S) >= n
  BY <1>2 DEF Max
<1>5. NextNumber(d) = 1 + Max(S)
  BY DEF NextNumber
<1>6. PICK m \in S : NextNumber(d) = 1 + m /\ \A n \in S : m >= n
  BY <1>4, <1>5
<1> HIDE DEF S
<1>7. m \in Nat /\ \A v \in VersionsOf(d) : row[v].number \in Nat /\ m >= row[v].number
  BY <1>3, <1>6
<1> QED
  BY <1>6, <1>7

(* The statement that inserts a version, on rows. *)
LEMMA InsertedRow ==
    ASSUME IInv, NEW d \in Documents, Insert(d)
    PROVE  LET w == upload.version IN
           /\ w \in Versions /\ w \notin Recorded
           /\ row' \in [Versions -> Rows \cup {None}]
           /\ Recorded' = Recorded \cup {w}
           /\ \A u \in Recorded : row'[u] = row[u]
           /\ row'[w] = [document |-> d, number |-> upload.number, hash |-> upload.hash,
                         duplicateOf |-> upload.duplicateOf,
                         status |-> IF upload.duplicateOf = None THEN "STORED"
                                                                 ELSE "DUPLICATE_DETECTED"]
<1> DEFINE w == upload.version
           r == [document |-> d, number |-> upload.number, hash |-> upload.hash,
                 duplicateOf |-> upload.duplicateOf,
                 status |-> IF upload.duplicateOf = None THEN "STORED"
                                                         ELSE "DUPLICATE_DETECTED"]
<1>1. w \in Versions /\ w \notin Recorded
  BY DEF IInv, TypeOK, UploadInv, Insert, Recorded
<1>2. r \in Rows
  BY DEF IInv, TypeOK, UploadInv, Insert, Rows
<1>3. row' = [row EXCEPT ![w] = r] /\ row \in [Versions -> Rows \cup {None}]
  BY DEF Insert, IInv, TypeOK
<1>4. r # None
  BY <1>2, RowAssumption
<1> HIDE DEF r
<1>5. /\ row' \in [Versions -> Rows \cup {None}]
      /\ row'[w] = r
      /\ \A u \in Versions \ {w} : row'[u] = row[u]
  BY <1>1, <1>2, <1>3
<1>6. Recorded' = Recorded \cup {w}
  BY <1>1, <1>4, <1>5 DEF Recorded
<1> QED
  BY <1>1, <1>5, <1>6 DEF r, Recorded

(* A statement that writes the status of a version, on rows. *)
StatusWritten(v, s) ==
    /\ row' \in [Versions -> Rows \cup {None}]
    /\ Recorded' = Recorded
    /\ \A u \in Recorded :
          /\ row'[u].document = row[u].document
          /\ row'[u].number = row[u].number
          /\ row'[u].hash = row[u].hash
          /\ row'[u].duplicateOf = row[u].duplicateOf
          /\ row'[u].status = IF u = v THEN s ELSE row[u].status

LEMMA StatusRow ==
    ASSUME IInv, NEW v \in Recorded, NEW s \in {"STORED", "PURGED"},
           row' = [row EXCEPT ![v].status = s]
    PROVE  StatusWritten(v, s)
<1> DEFINE r == [row[v] EXCEPT !.status = s]
<1>2. row[v] \in Rows /\ row \in [Versions -> Rows \cup {None}] /\ v \in Versions
  BY DEF IInv, TypeOK, Recorded
<1>3. r \in Rows
  BY <1>2 DEF Rows
<1>4. /\ r.document = row[v].document /\ r.number = row[v].number
      /\ r.hash = row[v].hash /\ r.duplicateOf = row[v].duplicateOf
      /\ r.status = s
  BY <1>2 DEF Rows
<1>5. row' = [row EXCEPT ![v] = r]
  OBVIOUS
<1>6. r # None
  BY <1>3, RowAssumption
<1> HIDE DEF r
<1>7. /\ row' \in [Versions -> Rows \cup {None}]
      /\ row'[v] = r
      /\ \A u \in Versions \ {v} : row'[u] = row[u]
  BY <1>2, <1>3, <1>5
<1>8. Recorded' = Recorded
  BY <1>2, <1>6, <1>7 DEF Recorded
<1> QED
  BY <1>4, <1>7, <1>8 DEF Recorded, StatusWritten

(* The statement that puts up a tombstone, and the one that comes late. *)
LEMMA MarkedRow ==
    ASSUME IInv, NEW a \in Admins, NEW v \in Versions, MarkPurged(a, v)
    PROVE  v \in Recorded /\ StatusWritten(v, "PURGED")
<1>1. v \in Recorded
  BY DEF IInv, PurgeInv, PurgeOf, MarkPurged, IsNext, VersionsOf
<1> QED
  BY <1>1, StatusRow DEF MarkPurged

LEMMA LateRow ==
    ASSUME IInv, NEW v \in Versions, LateWrite(v)
    PROVE  v \in Recorded /\ StatusWritten(v, "STORED")
<1>1. v \in Recorded
  BY DEF IInv, RevivalInv, LateWrite
<1> QED
  BY <1>1, StatusRow DEF LateWrite

(* What a step leaves of the rows: versions never go, nor change what they  *)
(* are, and their status only to PURGED, or from it by work that was late. *)
RowsKept ==
    \A u \in Recorded :
       /\ u \in Recorded'
       /\ row'[u].document = row[u].document
       /\ row'[u].number = row[u].number
       /\ row'[u].hash = row[u].hash
       /\ row'[u].duplicateOf = row[u].duplicateOf
       /\ row'[u].status \in {row[u].status, "PURGED"} \/ u \in revived'

(* Only three statements write rows. *)
LEMMA RowCases ==
    ASSUME [Next]_vars
    PROVE  \/ UNCHANGED <<row, latest, revived>>
           \/ \E d \in Documents : Insert(d)
           \/ \E a \in Admins, v \in Versions : MarkPurged(a, v)
           \/ \E v \in Versions : LateWrite(v)
  BY DEF Next, vars, stores, history, revival, BeginUpload, NextFile, StoreBytes, FindDuplicate,
         ResolveFamily, UploadFails, Answer, Archive, ListVersions, DeleteBytes, KeepBytes,
         PurgeFails, Unarchive, Crash

(* What has come back once is known to have. *)
LEMMA RevivedStay ==
    ASSUME [Next]_vars
    PROVE  revived \subseteq revived'
  BY DEF Next, vars, stores, history, revival, BeginUpload, NextFile, StoreBytes, FindDuplicate,
         ResolveFamily, Insert, UploadFails, Answer, Archive, ListVersions, DeleteBytes,
         KeepBytes, MarkPurged, LateWrite, PurgeFails, Unarchive, Crash

(* No step takes a row away, or changes whose it is and which number it has. *)
LEMMA RowsAreKept ==
    ASSUME IInv, [Next]_vars
    PROVE  RowsKept
<1>1. CASE UNCHANGED <<row, latest, revived>>
  BY <1>1 DEF RowsKept, Recorded
<1>2. ASSUME NEW d \in Documents, Insert(d) PROVE RowsKept
  BY <1>2, InsertedRow DEF RowsKept
<1>3. ASSUME NEW a \in Admins, NEW v \in Versions, MarkPurged(a, v) PROVE RowsKept
  BY <1>3, MarkedRow DEF RowsKept, StatusWritten
<1>4. ASSUME NEW v \in Versions, LateWrite(v) PROVE RowsKept
  <2>1. v \in revived'
    BY <1>4 DEF LateWrite
  <2> QED
    BY <1>4, <2>1, LateRow DEF RowsKept, StatusWritten
<1> QED
  BY <1>1, <1>2, <1>3, <1>4, RowCases

-----------------------------------------------------------------------------
(* The catalog's conjuncts.                                                *)

(* What the rows say of each other stands: an insertion is decided on what *)
(* the upload found out, a tombstone alters nothing but the status.        *)
LEMMA CatalogStep ==
    ASSUME IInv, [Next]_vars
    PROVE  CatalogInv'
<1>0. revived \subseteq revived'
  BY RevivedStay
<1>1. CASE UNCHANGED <<row, latest, revived>>
  BY <1>0, <1>1 DEF IInv, CatalogInv, RowInv, OneOriginal, DuplicatesPointAtOriginals,
              LatestIsNewest, Recorded, VersionsOf
<1>2. ASSUME NEW d \in Documents, Insert(d) PROVE CatalogInv'
  <2> DEFINE w == upload.version
  <2>1. /\ w \in Versions /\ w \notin Recorded
        /\ Recorded' = Recorded \cup {w}
        /\ \A u \in Recorded : row'[u] = row[u]
    BY <1>2, InsertedRow
  <2>2. /\ row'[w].document = d /\ row'[w].number = upload.number
        /\ row'[w].hash = upload.hash /\ row'[w].duplicateOf = upload.duplicateOf
        /\ row'[w].status = IF upload.duplicateOf = None THEN "STORED"
                                                          ELSE "DUPLICATE_DETECTED"
    <3>1. row'[w] = [document |-> d, number |-> upload.number, hash |-> upload.hash,
                     duplicateOf |-> upload.duplicateOf,
                     status |-> IF upload.duplicateOf = None THEN "STORED"
                                                             ELSE "DUPLICATE_DETECTED"]
      BY <1>2, InsertedRow
    <3> QED
      BY <3>1
  <2>3. upload.step = "insert"
    BY <1>2 DEF Insert
  <2>4. RowInv'
    BY <2>1, <2>2 DEF IInv, CatalogInv, RowInv
  <2>5. OneOriginal'
    <3>1. ASSUME NEW u \in Recorded, row[u].status = "STORED", row[u].hash = upload.hash,
                 upload.duplicateOf = None
          PROVE  u \in revived
      <4>1. row[u].duplicateOf = None
        BY <3>1 DEF IInv, CatalogInv, RowInv
      <4>2. Originals(upload.hash) \subseteq revived
        BY <2>3, <3>1 DEF IInv, UploadInv
      <4> QED
        BY <3>1, <4>1, <4>2 DEF Originals
    <3> QED
      BY <1>0, <2>1, <2>2, <3>1 DEF IInv, CatalogInv, OneOriginal
  <2>6. DuplicatesPointAtOriginals'
    <3>1. upload.duplicateOf # None =>
             /\ upload.duplicateOf \in Recorded
             /\ row[upload.duplicateOf].duplicateOf = None
             /\ row[upload.duplicateOf].hash = upload.hash
      BY <2>3 DEF IInv, UploadInv
    <3> QED
      BY <2>1, <2>2, <3>1 DEF IInv, CatalogInv, DuplicatesPointAtOriginals
  <2>7. LatestIsNewest'
    <3>1. latest' = [latest EXCEPT ![d] = w] /\ latest \in [Documents -> Versions \cup {None}]
      BY <1>2 DEF Insert, IInv, TypeOK
    <3>2. \A e \in Documents : VersionsOf(e)' = IF e = d THEN VersionsOf(e) \cup {w}
                                                         ELSE VersionsOf(e)
      BY <2>1, <2>2 DEF VersionsOf
    <3>3. \A v \in VersionsOf(d) : row[v].number < upload.number
      <4>1. CASE upload.document = None
        <5>1. latest[d] = None
          BY <1>2, <4>1, CatalogAssumption DEF Insert, Exists, CatalogAssumption
        <5>2. None \notin Versions
          BY CatalogAssumption DEF CatalogAssumption
        <5>3. VersionsOf(d) = {}
          BY <5>1, <5>2 DEF IInv, CatalogInv, LatestIsNewest, VersionsOf, Recorded
        <5> QED
          BY <5>3
      <4>2. CASE upload.document # None
        BY <1>2, <4>2 DEF Insert, IInv, UploadInv
      <4> QED
        BY <4>1, <4>2
    <3>4. /\ \A v \in VersionsOf(d) : v \in Recorded /\ row[v].number \in Nat
          /\ upload.number \in Nat
      BY DEF VersionsOf, Recorded, IInv, TypeOK, Rows
    <3>5. ASSUME NEW e \in Documents, e # d, NEW v \in VersionsOf(e)'
          PROVE  /\ latest'[e] \in VersionsOf(e)'
                 /\ v # latest'[e] => row'[v].number < row'[latest'[e]].number
                 /\ \A u \in VersionsOf(e)' \ {v} : row'[u].number # row'[v].number
      BY <2>1, <3>1, <3>2, <3>5 DEF IInv, CatalogInv, LatestIsNewest, VersionsOf
    <3>6. ASSUME NEW v \in VersionsOf(d)'
          PROVE  /\ latest'[d] \in VersionsOf(d)'
                 /\ v # latest'[d] => row'[v].number < row'[latest'[d]].number
                 /\ \A u \in VersionsOf(d)' \ {v} : row'[u].number # row'[v].number
      <4>1. latest'[d] = w /\ VersionsOf(d)' = VersionsOf(d) \cup {w} /\ w \notin VersionsOf(d)
        BY <2>1, <3>1, <3>2 DEF VersionsOf
      <4>2. \A u \in VersionsOf(d) : row'[u].number = row[u].number /\ row[u].number < row'[w].number
        BY <2>1, <2>2, <3>3, <3>4
      <4>3. row'[w].number \in Nat
        BY <2>2, <3>4
      <4>4. \A x, y \in VersionsOf(d) : x # y => row[x].number # row[y].number
        BY DEF IInv, CatalogInv, LatestIsNewest
      <4> QED
        BY <4>1, <4>2, <4>3, <4>4, <3>4, <3>6
    <3> QED
      BY <3>5, <3>6 DEF LatestIsNewest
  <2> QED
    BY <2>4, <2>5, <2>6, <2>7 DEF CatalogInv
<1>3. ASSUME NEW v \in Recorded, NEW s \in {"STORED", "PURGED"}, StatusWritten(v, s), latest' = latest,
             s = "STORED" => row[v].duplicateOf = None /\ v \in revived'
      PROVE  CatalogInv'
  <2>1. /\ Recorded' = Recorded
        /\ \A u \in Recorded :
              /\ row'[u].document = row[u].document
              /\ row'[u].number = row[u].number
              /\ row'[u].hash = row[u].hash
              /\ row'[u].duplicateOf = row[u].duplicateOf
              /\ row'[u].status = IF u = v THEN s ELSE row[u].status
    BY <1>3 DEF StatusWritten
  <2>2. \A d \in Documents : VersionsOf(d)' = VersionsOf(d)
    BY <2>1 DEF VersionsOf
  <2>3. RowInv' /\ DuplicatesPointAtOriginals'
    BY <1>3, <2>1 DEF IInv, CatalogInv, RowInv, DuplicatesPointAtOriginals
  <2>4. OneOriginal'
    <3>1. \A u \in Recorded \ revived' :
             row'[u].status = "STORED" => u \notin revived /\ row[u].status = "STORED"
      BY <1>0, <1>3, <2>1
    <3> QED
      BY <2>1, <3>1 DEF IInv, CatalogInv, OneOriginal
  <2>5. LatestIsNewest'
    BY <1>3, <2>1, <2>2 DEF IInv, CatalogInv, LatestIsNewest, VersionsOf
  <2> QED
    BY <2>3, <2>4, <2>5 DEF CatalogInv
<1>4. ASSUME NEW a \in Admins, NEW v \in Versions, MarkPurged(a, v) PROVE CatalogInv'
  BY <1>3, <1>4, MarkedRow DEF MarkPurged
<1>5. ASSUME NEW v \in Versions, LateWrite(v) PROVE CatalogInv'
  <2>1. row[v].duplicateOf = None /\ v \in revived' /\ latest' = latest
    BY <1>5 DEF LateWrite, IInv, RevivalInv
  <2> QED
    BY <1>3, <1>5, <2>1, LateRow
<1> QED
  BY <1>1, <1>2, <1>4, <1>5, RowCases

-----------------------------------------------------------------------------
(* The upload under way.                                                   *)

(* What an upload has found out stands while the administrators work.      *)
LEMMA UploadUndisturbed ==
    ASSUME IInv, [Next]_vars, UNCHANGED upload
    PROVE  UploadInv'
<1>1. ASSUME NEW d \in Documents PROVE ~Insert(d)
  <2> SUFFICES ASSUME Insert(d) PROVE FALSE
    OBVIOUS
  <2>1. upload.step = "insert" /\ upload'.step \in {"more", "answer"}
    BY DEF Insert, NoUpload
  <2> QED
    BY <2>1
<1>2. /\ Recorded' = Recorded
      /\ \A u \in Recorded :
            /\ row'[u].document = row[u].document
            /\ row'[u].number = row[u].number
            /\ row'[u].hash = row[u].hash
            /\ row'[u].duplicateOf = row[u].duplicateOf
            /\ row'[u].status \in {row[u].status, "PURGED"} \/ u \in revived'
  <2>1. CASE UNCHANGED <<row, latest, revived>>
    BY <2>1 DEF Recorded
  <2>2. ASSUME NEW a \in Admins, NEW v \in Versions, MarkPurged(a, v)
        PROVE  <1>2!1 /\ <1>2!2
    BY <2>2, MarkedRow DEF StatusWritten
  <2>3. ASSUME NEW v \in Versions, LateWrite(v)
        PROVE  <1>2!1 /\ <1>2!2
    <3>1. v \in revived'
      BY <2>3 DEF LateWrite
    <3> QED
      BY <2>3, <3>1, LateRow DEF StatusWritten
  <2> QED
    BY <1>1, <2>1, <2>2, <2>3, RowCases
<1>3. \A d : VersionsOf(d)' = VersionsOf(d)
  BY <1>2 DEF VersionsOf
<1>4. Originals(upload.hash)' \subseteq Originals(upload.hash) \cup revived' /\ revived \subseteq revived'
  <2>1. revived \subseteq revived'
    BY RevivedStay
  <2> QED
    BY <1>2, <2>1 DEF Originals
<1>5. ASSUME upload.step \in {"find", "resolve", "insert"}
      PROVE  upload.version \in bytes' /\ row'[upload.version] = None
  <2>1. /\ upload.version \in Versions /\ upload.version \notin Recorded
        /\ upload.version \in bytes
    BY <1>5 DEF IInv, UploadInv, TypeOK, Recorded
  <2>2. bytes \ Recorded \subseteq bytes'
    <3>1. ASSUME NEW a \in Admins, NEW v \in Versions, DeleteBytes(a, v)
          PROVE  bytes \ Recorded \subseteq bytes'
      BY <3>1 DEF DeleteBytes, IsNext, IInv, PurgeInv, PurgeOf, VersionsOf
    <3>2. CASE bytes \subseteq bytes'
      BY <3>2
    <3>3. \/ bytes \subseteq bytes'
          \/ \E a \in Admins, v \in Versions : DeleteBytes(a, v)
      BY DEF Next, vars, stores, history, revival, BeginUpload, NextFile, StoreBytes, FindDuplicate,
             ResolveFamily, Insert, UploadFails, Answer, Archive, ListVersions, KeepBytes,
             MarkPurged, LateWrite, PurgeFails, Unarchive, Crash
    <3> QED
      BY <3>1, <3>2, <3>3
  <2> QED
    BY <1>2, <2>1, <2>2 DEF Recorded
<1>6. \A v \in VersionsOf(upload.document) : row'[v].number = row[v].number
  BY <1>2 DEF VersionsOf
<1> QED
  BY <1>2, <1>3, <1>4, <1>5, <1>6 DEF IInv, UploadInv

(* Each step of an upload finds out what the next ones rely on. *)
LEMMA UploadStep ==
    ASSUME IInv, [Next]_vars
    PROVE  UploadInv'
<1>1. CASE UNCHANGED upload
  BY <1>1, UploadUndisturbed
<1>2. ASSUME UNCHANGED row
      PROVE  /\ Recorded' = Recorded
             /\ \A d : VersionsOf(d)' = VersionsOf(d)
             /\ \A h : Originals(h)' = Originals(h)
             /\ \A h : Originals(h) \subseteq revived => Originals(h)' \subseteq revived'
  BY <1>2, RevivedStay DEF VersionsOf, Originals, Recorded
<1>3. ASSUME NEW r \in Requests, NEW h \in Hashes, NEW d \in Documents \cup {None},
             BeginUpload(r, h, d)
      PROVE  UploadInv'
  <2>1. /\ upload'.step = "store" /\ upload'.hash = h /\ upload'.document = d
        /\ upload'.number = IF d = None THEN 1 ELSE NextNumber(d)
        /\ row' = row
    BY <1>3 DEF BeginUpload, NoUpload, stores
  <2>2. d # None => \A v \in VersionsOf(d) : row[v].number < NextNumber(d)
    BY NextNumberIsHigher DEF IInv, CatalogInv
  <2> QED
    BY <1>2, <2>1, <2>2 DEF UploadInv
<1>4. ASSUME NEW h \in Hashes, NextFile(h) PROVE UploadInv'
  <2>1. upload'.step = "store" /\ upload'.hash = h /\ upload'.document = None
    BY <1>4 DEF NextFile, NoUpload
  <2> QED
    BY <2>1 DEF UploadInv
<1>5. ASSUME NEW v \in Versions, StoreBytes(v) PROVE UploadInv'
  <2>1. /\ upload.step = "store" /\ upload'.step = "find" /\ upload'.version = v
        /\ upload'.hash = upload.hash /\ upload'.document = upload.document
        /\ upload'.number = upload.number
        /\ v \in bytes' /\ v \notin Recorded /\ row' = row
    BY <1>5 DEF StoreBytes, IInv, TypeOK
  <2> QED
    BY <1>2, <2>1 DEF IInv, UploadInv, Recorded
<1>6. CASE FindDuplicate
  <2>1. PICK u \in IF Originals(upload.hash) = {} THEN {None} ELSE Originals(upload.hash) :
           upload' = [upload EXCEPT
              !.step = IF u # None /\ upload.document = None THEN "resolve" ELSE "insert",
              !.duplicateOf = u]
    BY <1>6 DEF FindDuplicate
  <2>2. /\ upload'.step = IF u # None /\ upload.document = None THEN "resolve" ELSE "insert"
        /\ upload'.duplicateOf = u
        /\ upload'.version = upload.version /\ upload'.hash = upload.hash
        /\ upload'.document = upload.document /\ upload'.number = upload.number
    BY <2>1 DEF IInv, TypeOK
  <2>3. upload.step = "find" /\ row' = row /\ bytes' = bytes
    BY <1>6 DEF FindDuplicate, stores
  <2>4. IF u = None THEN Originals(upload.hash) = {}
        ELSE u \in Recorded /\ row[u].duplicateOf = None /\ row[u].hash = upload.hash
    <3>1. None \notin Recorded
      BY CatalogAssumption DEF CatalogAssumption, Recorded
    <3> QED
      BY <2>1, <3>1 DEF Originals
  <2> QED
    BY <1>2, <2>2, <2>3, <2>4 DEF IInv, UploadInv
<1>7. CASE ResolveFamily
  <2> DEFINE d == row[upload.duplicateOf].document
  <2>1. /\ upload.step = "resolve" /\ row' = row /\ bytes' = bytes
        /\ upload' = IF Visible(d)
                     THEN [upload EXCEPT !.step = "insert", !.document = d,
                                         !.number = NextNumber(d)]
                     ELSE [upload EXCEPT !.step = "insert"]
    BY <1>7 DEF ResolveFamily, stores
  <2>2. /\ upload'.step = "insert" /\ upload'.duplicateOf = upload.duplicateOf
        /\ upload'.version = upload.version /\ upload'.hash = upload.hash
        /\ \/ upload'.document = upload.document
           \/ upload'.document = d /\ upload'.number = NextNumber(d)
    BY <2>1 DEF IInv, TypeOK
  <2>3. upload.document = None /\ upload.duplicateOf # None
    BY <2>1 DEF IInv, UploadInv
  <2>4. d \in Documents
    BY <2>1, <2>3 DEF IInv, UploadInv, TypeOK, Recorded, Rows
  <2>5. \A v \in VersionsOf(d) : row[v].number < NextNumber(d)
    BY <2>4, NextNumberIsHigher DEF IInv, CatalogInv
  <2> HIDE DEF d
  <2> QED
    BY <1>2, <2>1, <2>2, <2>3, <2>5 DEF IInv, UploadInv
<1>8. CASE upload'.step \in {"idle", "more", "answer"}
  BY <1>8 DEF UploadInv
<1>9. \/ UNCHANGED upload
      \/ \E r \in Requests, h \in Hashes, d \in Documents \cup {None} : BeginUpload(r, h, d)
      \/ \E h \in Hashes : NextFile(h)
      \/ \E v \in Versions : StoreBytes(v)
      \/ FindDuplicate \/ ResolveFamily
      \/ upload'.step \in {"idle", "more", "answer"}
  <2>1. NoUpload.step = "idle" /\ [NoUpload EXCEPT !.step = "more", !.request = upload.request].step = "more"
    BY DEF NoUpload
  <2>2. ASSUME NEW d \in Documents, Insert(d) PROVE upload'.step \in {"more", "answer"}
    BY <2>2 DEF Insert, NoUpload
  <2> QED
    BY <2>1, <2>2 DEF Next, vars, UploadFails, Answer, Archive, ListVersions, DeleteBytes,
              KeepBytes, MarkPurged, LateWrite, PurgeFails, Unarchive, Crash
<1> QED
  BY <1>1, <1>3, <1>4, <1>5, <1>6, <1>7, <1>8, <1>9

(* A request is answered once its key is recorded, in one transaction. *)
LEMMA KeyStep ==
    ASSUME IInv, [Next]_vars
    PROVE  KeyInv'
<1> DEFINE Stays == \/ upload' = upload
                    \/ upload'.step = "idle"
                    \/ upload.step # "idle" /\ upload'.request = upload.request
<1>1. CASE UNCHANGED <<keys, answered>> /\ Stays
  BY <1>1 DEF IInv, KeyInv
<1>2. ASSUME NEW r \in Requests, NEW h \in Hashes, NEW d \in Documents \cup {None},
             BeginUpload(r, h, d)
      PROVE  KeyInv'
  BY <1>2 DEF BeginUpload, NoUpload, stores, history, revival, IInv, KeyInv
<1>3. CASE Answer
  BY <1>3 DEF Answer, NoUpload, IInv, KeyInv
<1>4. \/ UNCHANGED <<keys, answered>> /\ Stays
      \/ \E r \in Requests, h \in Hashes, d \in Documents \cup {None} : BeginUpload(r, h, d)
      \/ Answer
  <2>1. upload \in [step : UploadSteps, request : Requests, hash : Hashes \cup {None},
                    document : Documents \cup {None}, number : Nat \ {0},
                    version : Versions \cup {None}, duplicateOf : Versions \cup {None}]
    BY DEF IInv, TypeOK
  <2>2. ASSUME NEW h \in Hashes, NextFile(h) PROVE Stays
    BY <2>2 DEF NextFile, NoUpload
  <2>3. ASSUME NEW v \in Versions, StoreBytes(v) PROVE Stays
    BY <2>1, <2>3 DEF StoreBytes
  <2>4. ASSUME FindDuplicate PROVE Stays
    BY <2>1, <2>4 DEF FindDuplicate
  <2>5. ASSUME ResolveFamily PROVE Stays
    <3>1. /\ upload.step = "resolve"
          /\ \/ upload' = [upload EXCEPT !.step = "insert",
                                         !.document = row[upload.duplicateOf].document,
                                         !.number = NextNumber(row[upload.duplicateOf].document)]
             \/ upload' = [upload EXCEPT !.step = "insert"]
      BY <2>5 DEF ResolveFamily
    <3> QED
      BY <2>1, <3>1
  <2>6. ASSUME NEW d \in Documents, Insert(d) PROVE Stays
    BY <2>6 DEF Insert, NoUpload
  <2>7. ASSUME UploadFails PROVE Stays
    <3>1. \/ /\ upload.step # "idle"
             /\ upload' = [NoUpload EXCEPT !.step = "more", !.request = upload.request]
          \/ upload' = NoUpload
      BY <2>7 DEF UploadFails
    <3>2. CASE upload' = NoUpload
      BY <3>2 DEF NoUpload
    <3>3. CASE upload.step # "idle" /\
               upload' = [NoUpload EXCEPT !.step = "more", !.request = upload.request]
      BY <3>3 DEF NoUpload
    <3> QED
      BY <3>1, <3>2, <3>3
  <2>8. ASSUME Crash PROVE Stays
    BY <2>8 DEF Crash, NoUpload
  <2> HIDE DEF Stays
  <2>9. ASSUME upload' = upload PROVE Stays
    BY <2>9 DEF Stays
  <2> QED
    BY <2>2, <2>3, <2>4, <2>5, <2>6, <2>7, <2>8, <2>9
       DEF Next, vars, stores, history, revival, NextFile, StoreBytes, FindDuplicate, ResolveFamily,
           Insert, UploadFails, Archive, ListVersions, DeleteBytes, KeepBytes, MarkPurged,
           LateWrite, PurgeFails, Unarchive, Crash
<1> QED
  BY <1>1, <1>2, <1>3, <1>4

-----------------------------------------------------------------------------
(* The administration, and the bytes.                                      *)

(* The threads' records, as PurgeRest leaves them. *)
LEMMA PurgeRestFacts ==
    ASSUME TypeOK, NEW a \in Admins, NEW d \in Documents, NEW rest \in SUBSET Versions,
           NEW blind \in SUBSET Versions, PurgeRest(a, d, rest, blind)
    PROVE  /\ purge' \in [Admins -> [step : PurgeSteps, document : Documents \cup {None},
                                     todo : SUBSET Versions, blind : SUBSET Versions]]
           /\ \A b \in Admins \ {a} : purge'[b] = purge[b]
           /\ purge'[a].todo = rest /\ purge'[a].blind \subseteq blind
           /\ IF rest = {} THEN purge'[a].step = "idle"
              ELSE purge'[a].step = "delete" /\ purge'[a].document = d
<1>1. purge \in [Admins -> [step : PurgeSteps, document : Documents \cup {None},
                           todo : SUBSET Versions, blind : SUBSET Versions]]
  BY DEF TypeOK
<1>2. CASE rest = {}
  BY <1>1, <1>2 DEF PurgeRest, NoPurge, PurgeSteps
<1>3. CASE rest # {}
  BY <1>1, <1>3 DEF PurgeRest, PurgeSteps
<1> QED
  BY <1>2, <1>3

(* Every step keeps the types. *)
LEMMA TypeStep ==
    ASSUME IInv, [Next]_vars
    PROVE  TypeOK'
<1> DEFINE Uploads == [step : UploadSteps, request : Requests, hash : Hashes \cup {None},
                       document : Documents \cup {None}, number : Nat \ {0},
                       version : Versions \cup {None}, duplicateOf : Versions \cup {None}]
           Purges == [step : PurgeSteps, document : Documents \cup {None},
                      todo : SUBSET Versions, blind : SUBSET Versions]
<1>1. /\ row' \in [Versions -> Rows \cup {None}]
      /\ latest' \in [Documents -> Versions \cup {None}]
  <2>1. CASE UNCHANGED <<row, latest, revived>>
    BY <2>1 DEF IInv, TypeOK
  <2>2. ASSUME NEW d \in Documents, Insert(d) PROVE <1>1!1 /\ <1>1!2
    BY <2>2, InsertedRow DEF Insert, IInv, TypeOK
  <2>3. ASSUME NEW a \in Admins, NEW v \in Versions, MarkPurged(a, v) PROVE <1>1!1 /\ <1>1!2
    BY <2>3, MarkedRow DEF MarkPurged, StatusWritten, IInv, TypeOK
  <2>4. ASSUME NEW v \in Versions, LateWrite(v) PROVE <1>1!1 /\ <1>1!2
    BY <2>4, LateRow DEF LateWrite, StatusWritten, IInv, TypeOK
  <2> QED
    BY <2>1, <2>2, <2>3, <2>4, RowCases
<1>2. upload' \in Uploads
  <2>1. upload \in Uploads
    BY DEF IInv, TypeOK
  <2>2. NoUpload \in Uploads
    BY CatalogAssumption DEF NoUpload, UploadSteps, CatalogAssumption
  <2>3. ASSUME NEW r \in Requests, NEW h \in Hashes, NEW d \in Documents \cup {None},
               BeginUpload(r, h, d)
        PROVE  upload' \in Uploads
    <3>1. (IF d = None THEN 1 ELSE NextNumber(d)) \in Nat \ {0}
      BY NextNumberIsHigher DEF IInv, CatalogInv
    <3> QED
      BY <2>2, <2>3, <3>1 DEF BeginUpload, UploadSteps
  <2>4. ASSUME NEW h \in Hashes, NextFile(h) PROVE upload' \in Uploads
    BY <2>1, <2>2, <2>4 DEF NextFile, UploadSteps
  <2>5. ASSUME NEW v \in Versions, StoreBytes(v) PROVE upload' \in Uploads
    BY <2>1, <2>5 DEF StoreBytes, UploadSteps
  <2>6. CASE FindDuplicate
    BY <2>1, <2>6 DEF FindDuplicate, UploadSteps, Originals, Recorded
  <2>7. CASE ResolveFamily
    <3> DEFINE d == row[upload.duplicateOf].document
    <3>1. d \in Documents
      BY <2>7 DEF ResolveFamily, IInv, UploadInv, TypeOK, Recorded, Rows
    <3>2. NextNumber(d) \in Nat \ {0}
      BY <3>1, NextNumberIsHigher DEF IInv, CatalogInv
    <3>3. \/ upload' = [upload EXCEPT !.step = "insert", !.document = d,
                                     !.number = NextNumber(d)]
          \/ upload' = [upload EXCEPT !.step = "insert"]
      BY <2>7 DEF ResolveFamily
    <3> HIDE DEF d
    <3> QED
      BY <2>1, <3>1, <3>2, <3>3 DEF UploadSteps
  <2>8. ASSUME NEW d \in Documents, Insert(d) PROVE upload' \in Uploads
    BY <2>1, <2>2, <2>8 DEF Insert, UploadSteps
  <2>9. CASE UploadFails
    BY <2>1, <2>2, <2>9 DEF UploadFails, UploadSteps
  <2>10. CASE Answer \/ Crash
    BY <2>2, <2>10 DEF Answer, Crash
  <2>11. CASE UNCHANGED upload
    BY <2>1, <2>11
  <2> HIDE DEF Uploads
  <2> QED
    BY <2>3, <2>4, <2>5, <2>6, <2>7, <2>8, <2>9, <2>10, <2>11
       DEF Next, vars, Archive, ListVersions, DeleteBytes, KeepBytes, MarkPurged,
           LateWrite, PurgeFails, Unarchive
<1>3. purge' \in [Admins -> Purges]
  <2>1. purge \in [Admins -> Purges]
    BY DEF IInv, TypeOK
  <2>2. NoPurge \in Purges
    BY DEF NoPurge, PurgeSteps
  <2>3. ASSUME NEW a \in Admins, NEW d \in Documents, Archive(a, d)
        PROVE  purge' \in [Admins -> Purges]
    BY <2>1, <2>2, <2>3 DEF Archive, PurgeSteps
  <2>4. ASSUME NEW a \in Admins, NEW d \in Documents, ListVersions(a, d)
        PROVE  purge' \in [Admins -> Purges]
    BY <2>4, PurgeRestFacts DEF ListVersions, Unpurged, VersionsOf, Recorded, IInv, TypeOK
  <2>5. ASSUME NEW a \in Admins, NEW v \in Versions, DeleteBytes(a, v) \/ KeepBytes(a, v)
        PROVE  purge' \in [Admins -> Purges]
    BY <2>1, <2>5 DEF DeleteBytes, KeepBytes, PurgeSteps
  <2>6. ASSUME NEW a \in Admins, NEW v \in Versions, MarkPurged(a, v)
        PROVE  purge' \in [Admins -> Purges]
    <3>1. v \in VersionsOf(purge[a].document) /\ purge[a].document \in Documents
      BY <2>6 DEF MarkPurged, IsNext, IInv, PurgeInv, PurgeOf, TypeOK, VersionsOf, Recorded, Rows
    <3>2. purge[a].todo \ {v} \in SUBSET Versions /\ purge[a].blind \in SUBSET Versions
      BY <2>1
    <3> QED
      BY <2>6, <3>1, <3>2, PurgeRestFacts DEF MarkPurged, IInv
  <2>7. ASSUME NEW a \in Admins, PurgeFails(a) PROVE purge' \in [Admins -> Purges]
    BY <2>1, <2>2, <2>7 DEF PurgeFails
  <2>8. CASE Crash
    BY <2>2, <2>8 DEF Crash
  <2>9. CASE UNCHANGED purge
    BY <2>1, <2>9
  <2> HIDE DEF Purges
  <2> QED
    BY <2>3, <2>4, <2>5, <2>6, <2>7, <2>8, <2>9
       DEF Next, vars, BeginUpload, NextFile, StoreBytes, FindDuplicate, ResolveFamily,
           Insert, UploadFails, Answer, LateWrite, Unarchive
<1>4. /\ archived' \subseteq Documents /\ bytes' \subseteq Versions
      /\ undone' \subseteq Documents /\ late' \cup kept' \cup revived' \subseteq Versions
  BY DEF IInv, TypeOK, Next, vars, stores, history, revival, BeginUpload, NextFile, StoreBytes,
         FindDuplicate, ResolveFamily, Insert, UploadFails, Answer, Archive, ListVersions,
         DeleteBytes, KeepBytes, MarkPurged, LateWrite, PurgeFails, Unarchive, Crash
<1>5. keys' \subseteq Keyed /\ answered' \subseteq Keyed
  BY DEF IInv, TypeOK, Next, vars, stores, history, revival, BeginUpload, NextFile, StoreBytes,
         FindDuplicate, ResolveFamily, Insert, UploadFails, Answer, Archive, ListVersions,
         DeleteBytes, KeepBytes, MarkPurged, LateWrite, PurgeFails, Unarchive, Crash
<1> QED
  BY <1>1, <1>2, <1>3, <1>4, <1>5 DEF TypeOK

(* Bytes that are gone, or that the store refused to delete, stay so.      *)
LEMMA GoneStayGone ==
    ASSUME [Next]_vars, NEW v \in Recorded, v \notin bytes \/ v \in kept
    PROVE  v \notin bytes' \/ v \in kept'
<1>1. CASE UNCHANGED <<bytes, kept>>
  BY <1>1
<1>2. ASSUME NEW w \in Versions, StoreBytes(w) PROVE v \notin bytes' \/ v \in kept'
  BY <1>2 DEF StoreBytes, history, revival
<1>3. ASSUME NEW a \in Admins, NEW w \in Versions, DeleteBytes(a, w) \/ KeepBytes(a, w)
      PROVE  v \notin bytes' \/ v \in kept'
  BY <1>3 DEF DeleteBytes, KeepBytes, stores
<1> QED
  BY <1>1, <1>2, <1>3
     DEF Next, vars, stores, history, revival, BeginUpload, NextFile, FindDuplicate, ResolveFamily,
         Insert, UploadFails, Answer, Archive, ListVersions, MarkPurged, LateWrite,
         PurgeFails, Unarchive, Crash

(* A purge is not disturbed by the others' steps. *)
LEMMA PurgeUndisturbed ==
    ASSUME IInv, [Next]_vars, NEW b \in Admins, purge'[b] = purge[b]
    PROVE  PurgeOf(b)'
<1>1. \A d : VersionsOf(d) \subseteq VersionsOf(d)'
  BY RowsAreKept DEF RowsKept, VersionsOf
<1>2. PurgeOf(b)
  BY DEF IInv, PurgeInv
<1>3. \A v \in Versions : IsNext(b, v)' => IsNext(b, v)
  <2>1. \A u \in purge[b].todo : row'[u].number = row[u].number
    BY <1>2, RowsAreKept DEF RowsKept, PurgeOf, VersionsOf
  <2> QED
    BY <2>1 DEF IsNext
<1>4. ASSUME purge[b].step \in {"delete", "mark"}
      PROVE  purge[b].document \in archived' \cup undone'
  <2>1. purge[b].document \in archived \cup undone
    BY <1>2, <1>4 DEF PurgeOf
  <2>2. ASSUME NEW d \in Documents, Unarchive(d)
        PROVE  purge[b].document \in archived' \cup undone'
    <3>1. CASE purge[b].document = d
      BY <1>4, <2>2, <3>1 DEF Unarchive, HalfPurged
    <3>2. CASE purge[b].document # d
      BY <2>1, <2>2, <3>2 DEF Unarchive
    <3> QED
      BY <3>1, <3>2
  <2>3. \/ archived \subseteq archived' /\ undone \subseteq undone'
        \/ \E d \in Documents : Unarchive(d)
    BY DEF Next, vars, stores, history, revival, BeginUpload, NextFile, StoreBytes, FindDuplicate,
           ResolveFamily, Insert, UploadFails, Answer, Archive, ListVersions, DeleteBytes,
           KeepBytes, MarkPurged, LateWrite, PurgeFails, Crash
  <2> QED
    BY <2>1, <2>2, <2>3
<1>5. ASSUME NEW v \in Recorded, v \notin bytes \/ v \in kept
      PROVE  v \notin bytes' \/ v \in kept'
  BY <1>5, GoneStayGone
<1>6. \A v : IsNext(b, v) => v \in Recorded
  BY <1>2 DEF PurgeOf, IsNext, VersionsOf
<1>7. purge'[b].blind \subseteq revived'
  BY <1>2, RevivedStay DEF PurgeOf
<1> QED
  BY <1>1, <1>2, <1>3, <1>4, <1>5, <1>6, <1>7 DEF PurgeOf

(* The version a purge has come to is one only. *)
LEMMA NextIsOne ==
    ASSUME IInv, NEW a \in Admins, NEW u \in Versions, NEW v \in Versions,
           IsNext(a, u), IsNext(a, v)
    PROVE  u = v
<1>1. u \in VersionsOf(purge[a].document) /\ v \in VersionsOf(purge[a].document)
  BY DEF IsNext, IInv, PurgeInv, PurgeOf
<1>2. purge[a].document \in Documents
  BY <1>1 DEF IInv, TypeOK, VersionsOf, Recorded, Rows
<1>3. row[u].number \in Nat /\ row[v].number \in Nat
  BY <1>1 DEF IInv, TypeOK, VersionsOf, Recorded, Rows
<1>4. row[u].number <= row[v].number /\ row[v].number <= row[u].number
  BY DEF IsNext
<1> QED
  BY <1>1, <1>2, <1>3, <1>4 DEF IInv, CatalogInv, LatestIsNewest

(* A purge marks the version whose bytes it has just dealt with. *)
LEMMA PurgeStep ==
    ASSUME IInv, [Next]_vars
    PROVE  PurgeInv'
<1> SUFFICES ASSUME NEW b \in Admins PROVE PurgeOf(b)'
  BY DEF PurgeInv
<1> DEFINE Purges == [step : PurgeSteps, document : Documents \cup {None},
                      todo : SUBSET Versions, blind : SUBSET Versions]
<1>1. purge \in [Admins -> Purges]
  BY DEF IInv, TypeOK
<1>2. CASE purge'[b] = purge[b]
  BY <1>2, PurgeUndisturbed
<1>3. ASSUME purge'[b].todo = {}, purge'[b].step \in {"idle", "list"},
             purge'[b].blind \subseteq revived'
      PROVE  PurgeOf(b)'
  BY <1>3 DEF PurgeOf
<1>4. CASE purge'[b] = NoPurge
  BY <1>3, <1>4 DEF NoPurge
<1>5. ASSUME NEW d \in Documents, Archive(b, d) PROVE PurgeOf(b)'
  <2>1. purge'[b] = [NoPurge EXCEPT !.step = "list", !.document = d]
    BY <1>1, <1>5 DEF Archive
  <2> QED
    BY <1>3, <2>1 DEF NoPurge
<1>6. ASSUME NEW d \in Documents, ListVersions(b, d) PROVE PurgeOf(b)'
  <2> DEFINE rest == IF d \in archived THEN Unpurged(d) ELSE {}
  <2>1. /\ rest \in SUBSET Versions /\ revived \in SUBSET Versions /\ revived' = revived
        /\ PurgeRest(b, d, rest, revived)
    BY <1>6 DEF ListVersions, Unpurged, VersionsOf, Recorded, history, revival, IInv, TypeOK
  <2>2. rest \subseteq VersionsOf(d)' /\ (rest # {} => d \in archived')
    BY <1>6 DEF ListVersions, Unpurged, VersionsOf, Recorded, stores
  <2> HIDE DEF rest
  <2>3. /\ purge'[b].todo = rest /\ purge'[b].blind \subseteq revived
        /\ IF rest = {} THEN purge'[b].step = "idle"
           ELSE purge'[b].step = "delete" /\ purge'[b].document = d
    BY <2>1, PurgeRestFacts DEF IInv
  <2> QED
    BY <1>3, <2>1, <2>2, <2>3 DEF PurgeOf
<1>7. ASSUME NEW v \in Versions, DeleteBytes(b, v) \/ KeepBytes(b, v) PROVE PurgeOf(b)'
  <2>1. /\ purge[b].step = "delete" /\ IsNext(b, v)
        /\ purge' = [purge EXCEPT ![b].step = "mark"]
        /\ row' = row /\ archived' = archived /\ undone' = undone
        /\ revived' = revived
    BY <1>7 DEF DeleteBytes, KeepBytes, stores, revival
  <2>2. /\ purge'[b].todo = purge[b].todo /\ purge'[b].document = purge[b].document
        /\ purge'[b].step = "mark" /\ purge'[b].blind = purge[b].blind
    BY <1>1, <2>1
  <2>7. purge[b].blind \subseteq revived
    BY DEF IInv, PurgeInv, PurgeOf
  <2>8. v \notin bytes' \/ v \in kept'
    <3>1. v \in purge[b].blind => v \notin bytes \/ v \in kept
      BY <2>7 DEF IInv, RevivalInv
    <3> QED
      BY <1>7, <3>1 DEF DeleteBytes, KeepBytes, stores
  <2>3. \A u \in Versions : IsNext(b, u)' => u = v
    <3>1. \A u \in Versions : IsNext(b, u)' => IsNext(b, u)
      BY <2>1, <2>2 DEF IsNext
    <3> QED
      BY <2>1, <3>1, NextIsOne
  <2>4. PICK d, rest : d = purge[b].document /\ rest = purge[b].todo
    OBVIOUS
  <2>5. purge'[b].document = d /\ purge'[b].todo = rest
    BY <2>2, <2>4
  <2>6. rest \subseteq VersionsOf(d)' /\ d \in archived' \cup undone'
    BY <2>1, <2>4 DEF IInv, PurgeInv, PurgeOf, IsNext, VersionsOf, Recorded
  <2> QED
    BY <2>1, <2>2, <2>3, <2>5, <2>6, <2>7, <2>8 DEF PurgeOf
<1>8. ASSUME NEW v \in Versions, MarkPurged(b, v) PROVE PurgeOf(b)'
  <2>1. /\ purge[b].todo \subseteq VersionsOf(purge[b].document)
        /\ purge[b].document \in archived \cup undone /\ v \in purge[b].todo
    BY <1>8 DEF MarkPurged, IsNext, IInv, PurgeInv, PurgeOf
  <2>2. PICK d \in Documents, rest, blind \in SUBSET Versions :
           /\ d = purge[b].document /\ rest = purge[b].todo \ {v}
           /\ blind = purge[b].blind
    BY <1>1, <2>1 DEF IInv, TypeOK, VersionsOf, Recorded, Rows
  <2>3. /\ PurgeRest(b, d, rest, blind) /\ blind \subseteq revived'
        /\ archived' = archived /\ undone' = undone
    BY <1>1, <1>8, <2>2 DEF MarkPurged, IInv, PurgeInv, PurgeOf
  <2>4. rest \subseteq VersionsOf(d)'
    BY <2>1, <2>2, RowsAreKept DEF RowsKept, VersionsOf
  <2>5. /\ purge'[b].todo = rest /\ purge'[b].blind \subseteq blind
        /\ IF rest = {} THEN purge'[b].step = "idle"
           ELSE purge'[b].step = "delete" /\ purge'[b].document = d
    BY <2>3, PurgeRestFacts DEF IInv
  <2>6. CASE rest = {}
    BY <1>3, <2>3, <2>5, <2>6
  <2>7. CASE rest # {}
    BY <2>1, <2>2, <2>3, <2>4, <2>5, <2>7 DEF PurgeOf
  <2> QED
    BY <2>6, <2>7
<1>9. \/ purge'[b] = purge[b] \/ purge'[b] = NoPurge
      \/ \E d \in Documents : Archive(b, d) \/ ListVersions(b, d)
      \/ \E v \in Versions : DeleteBytes(b, v) \/ KeepBytes(b, v) \/ MarkPurged(b, v)
  <2>1. ASSUME NEW a \in Admins, a # b,
               \/ \E d \in Documents : Archive(a, d) \/ ListVersions(a, d)
               \/ \E v \in Versions : DeleteBytes(a, v) \/ KeepBytes(a, v) \/ MarkPurged(a, v)
               \/ PurgeFails(a)
        PROVE  purge'[b] = purge[b]
    BY <1>1, <2>1 DEF Archive, ListVersions, DeleteBytes, KeepBytes, MarkPurged, PurgeFails,
                      PurgeRest
  <2>2. ASSUME PurgeFails(b) PROVE purge'[b] = NoPurge
    BY <1>1, <2>2 DEF PurgeFails
  <2>3. ASSUME Crash PROVE purge'[b] = NoPurge
    BY <2>3 DEF Crash
  <2>4. CASE UNCHANGED purge
    BY <2>4
  <2> QED
    BY <2>1, <2>2, <2>3, <2>4
       DEF Next, vars, BeginUpload, NextFile, StoreBytes, FindDuplicate, ResolveFamily,
           Insert, UploadFails, Answer, LateWrite, Unarchive
<1> QED
  BY <1>2, <1>4, <1>5, <1>6, <1>7, <1>8, <1>9

(* Bytes come before their row and go before its tombstone. *)
LEMMA BytesStep ==
    ASSUME IInv, [Next]_vars
    PROVE  BytesInv'
<1>0. revived \subseteq revived'
  BY RevivedStay
<1>1. CASE UNCHANGED <<row, bytes, kept, archived, undone, revived>>
  BY <1>1 DEF IInv, BytesInv, VisibleHasBytes, PurgedHasNoBytes, Recorded
<1>2. ASSUME NEW v \in Versions, StoreBytes(v) PROVE BytesInv'
  <2>1. /\ row' = row /\ archived' = archived /\ undone' = undone /\ kept' = kept
        /\ bytes' = bytes \cup {v} /\ v \notin Recorded
    BY <1>2 DEF StoreBytes, history, revival
  <2> QED
    BY <1>0, <2>1 DEF IInv, BytesInv, VisibleHasBytes, PurgedHasNoBytes, Recorded
<1>3. ASSUME NEW d \in Documents, Insert(d) PROVE BytesInv'
  <2>1. /\ bytes' = bytes /\ archived' = archived /\ undone' = undone /\ kept' = kept
    BY <1>3 DEF Insert, history, revival
  <2>2. upload.version \in bytes
    BY <1>3 DEF Insert, IInv, UploadInv
  <2>3. /\ Recorded' = Recorded \cup {upload.version}
        /\ \A u \in Recorded : row'[u] = row[u]
        /\ row'[upload.version] =
              [document |-> d, number |-> upload.number, hash |-> upload.hash,
               duplicateOf |-> upload.duplicateOf,
               status |-> IF upload.duplicateOf = None THEN "STORED"
                                                       ELSE "DUPLICATE_DETECTED"]
    BY <1>3, InsertedRow
  <2>4. row'[upload.version].status # "PURGED"
    BY <2>3
  <2> QED
    BY <1>0, <2>1, <2>2, <2>3, <2>4 DEF IInv, BytesInv, VisibleHasBytes, PurgedHasNoBytes
<1>4. ASSUME NEW a \in Admins, NEW d \in Documents, Archive(a, d) PROVE BytesInv'
  <2>1. /\ row' = row /\ bytes' = bytes /\ undone' = undone /\ kept' = kept
        /\ archived' = archived \cup {d}
    BY <1>4 DEF Archive, history, revival
  <2> QED
    BY <1>0, <2>1 DEF IInv, BytesInv, VisibleHasBytes, PurgedHasNoBytes, Recorded
<1>5. ASSUME NEW a \in Admins, NEW v \in Versions, DeleteBytes(a, v) PROVE BytesInv'
  <2>1. /\ row' = row /\ archived' = archived /\ undone' = undone
        /\ bytes' = bytes \ ({v} \ purge[a].blind) /\ kept' = kept \ ({v} \ purge[a].blind)
    BY <1>5 DEF DeleteBytes
  <2>2. row[v].document \in archived \cup undone
    <3>1. v \in VersionsOf(purge[a].document) /\ purge[a].document \in archived \cup undone
      BY <1>5 DEF DeleteBytes, IsNext, IInv, PurgeInv, PurgeOf
    <3> QED
      BY <3>1 DEF VersionsOf
  <2> QED
    BY <1>0, <2>1, <2>2 DEF IInv, BytesInv, VisibleHasBytes, PurgedHasNoBytes, Recorded
<1>6. ASSUME NEW a \in Admins, NEW v \in Versions, KeepBytes(a, v) PROVE BytesInv'
  <2>1. /\ row' = row /\ bytes' = bytes /\ archived' = archived /\ undone' = undone
        /\ kept \subseteq kept'
    BY <1>6 DEF KeepBytes, stores
  <2> QED
    BY <1>0, <2>1 DEF IInv, BytesInv, VisibleHasBytes, PurgedHasNoBytes, Recorded
<1>7. ASSUME NEW a \in Admins, NEW v \in Versions, MarkPurged(a, v) PROVE BytesInv'
  <2>1. /\ bytes' = bytes /\ archived' = archived /\ undone' = undone /\ kept' = kept
    BY <1>7 DEF MarkPurged, history, revival
  <2>2. v \notin bytes \/ v \in kept
    BY <1>7 DEF MarkPurged, IInv, PurgeInv, PurgeOf
  <2>3. /\ Recorded' = Recorded
        /\ \A u \in Recorded : /\ row'[u].document = row[u].document
                               /\ row'[u].status = IF u = v THEN "PURGED" ELSE row[u].status
    BY <1>7, MarkedRow DEF StatusWritten
  <2> QED
    BY <1>0, <2>1, <2>2, <2>3 DEF IInv, BytesInv, VisibleHasBytes, PurgedHasNoBytes
<1>8. ASSUME NEW d \in Documents, Unarchive(d) PROVE BytesInv'
  <2>1. /\ row' = row /\ bytes' = bytes /\ kept' = kept /\ archived' = archived \ {d}
        /\ undone' = IF HalfPurged(d) THEN undone \cup {d} ELSE undone
    BY <1>8 DEF Unarchive
  <2>2. ~HalfPurged(d) => \A v \in Unpurged(d) \ revived : v \in bytes
    BY DEF HalfPurged
  <2>3. VisibleHasBytes'
    BY <1>0, <2>1, <2>2 DEF IInv, BytesInv, VisibleHasBytes, Recorded, Unpurged, VersionsOf
  <2>4. PurgedHasNoBytes'
    BY <2>1 DEF IInv, BytesInv, PurgedHasNoBytes, Recorded
  <2> QED
    BY <2>3, <2>4 DEF BytesInv
<1>9. ASSUME NEW v \in Versions, LateWrite(v) PROVE BytesInv'
  <2>1. /\ bytes' = bytes /\ archived' = archived /\ undone' = undone /\ kept' = kept
        /\ v \in revived'
    BY <1>9 DEF LateWrite
  <2>2. /\ Recorded' = Recorded
        /\ \A u \in Recorded : /\ row'[u].document = row[u].document
                               /\ row'[u].status = IF u = v THEN "STORED" ELSE row[u].status
    BY <1>9, LateRow DEF StatusWritten
  <2> QED
    BY <1>0, <2>1, <2>2 DEF IInv, BytesInv, VisibleHasBytes, PurgedHasNoBytes
<1> QED
  BY <1>1, <1>2, <1>3, <1>4, <1>5, <1>6, <1>7, <1>8, <1>9
     DEF Next, vars, stores, history, revival, BeginUpload, NextFile, FindDuplicate, ResolveFamily,
         UploadFails, Answer, ListVersions, PurgeFails, Crash

(* What a late write brings back was a tombstone, without bytes.           *)
LEMMA RevivalStep ==
    ASSUME IInv, [Next]_vars
    PROVE  RevivalInv'
<1>1. ASSUME NEW v \in Recorded, row[v].duplicateOf = None
      PROVE  v \in Recorded' /\ row'[v].duplicateOf = None
  BY <1>1, RowsAreKept DEF RowsKept
<1>2. ASSUME NEW v \in late' \cup revived', v \notin late \cup revived
      PROVE  v \in Recorded /\ row[v].duplicateOf = None
  <2>1. ASSUME NEW a \in Admins, NEW w \in Versions, MarkPurged(a, w)
        PROVE  v \in Recorded /\ row[v].duplicateOf = None
    <3>1. v = w /\ row[v].status = "STORED"
      BY <1>2, <2>1 DEF MarkPurged
    <3> QED
      BY <2>1, <3>1, MarkedRow DEF IInv, CatalogInv, RowInv
  <2>2. \/ late' \cup revived' \subseteq late \cup revived
        \/ \E a \in Admins, w \in Versions : MarkPurged(a, w)
    BY DEF Next, vars, stores, history, revival, BeginUpload, NextFile, StoreBytes,
           FindDuplicate, ResolveFamily, Insert, UploadFails, Answer, Archive, ListVersions,
           DeleteBytes, KeepBytes, LateWrite, PurgeFails, Unarchive, Crash
  <2> QED
    BY <1>2, <2>1, <2>2
<1>3. ASSUME NEW v \in revived' PROVE v \notin bytes' \/ v \in kept'
  <2>1. v \in Recorded
    BY <1>2, <1>3 DEF IInv, RevivalInv
  <2>2. v \notin bytes \/ v \in kept
    <3>1. CASE v \in revived
      BY <3>1 DEF IInv, RevivalInv
    <3>2. CASE v \notin revived
      <4>1. row[v].status = "PURGED"
        BY <1>3, <3>2 DEF Next, vars, stores, history, revival, BeginUpload, NextFile,
               StoreBytes, FindDuplicate, ResolveFamily, Insert, UploadFails, Answer, Archive,
               ListVersions, DeleteBytes, KeepBytes, MarkPurged, LateWrite, PurgeFails,
               Unarchive, Crash
      <4> QED
        BY <2>1, <4>1 DEF IInv, BytesInv, PurgedHasNoBytes
    <3> QED
      BY <3>1, <3>2
  <2> QED
    BY <2>1, <2>2, GoneStayGone
<1> QED
  BY <1>1, <1>2, <1>3 DEF IInv, RevivalInv

-----------------------------------------------------------------------------
(* The theorems.                                                           *)

(* The inductive invariant holds always. *)
LEMMA Invariance == Spec => []IInv
<1>1. Init => IInv
  <2> SUFFICES ASSUME Init PROVE IInv
    OBVIOUS
  <2>1. TypeOK
    BY CatalogAssumption DEF Init, TypeOK, CatalogAssumption, NoUpload, NoPurge, UploadSteps,
                             PurgeSteps
  <2>2. Recorded = {}
    BY DEF Init, Recorded
  <2>3. CatalogInv /\ BytesInv
    BY <2>2 DEF CatalogInv, BytesInv, RowInv, OneOriginal, DuplicatesPointAtOriginals,
                LatestIsNewest, VersionsOf, VisibleHasBytes, PurgedHasNoBytes
  <2>4. UploadInv /\ KeyInv
    BY DEF Init, NoUpload, UploadInv, KeyInv
  <2>5. PurgeInv
    BY DEF Init, NoPurge, PurgeInv, PurgeOf
  <2>6. RevivalInv
    BY DEF Init, RevivalInv
  <2> QED
    BY <2>1, <2>3, <2>4, <2>5, <2>6 DEF IInv
<1>2. IInv /\ [Next]_vars => IInv'
  BY TypeStep, CatalogStep, UploadStep, KeyStep, PurgeStep, RevivalStep, BytesStep
     DEF IInv
<1> QED
  BY <1>1, <1>2, PTL DEF Spec

(* Every variable keeps its type; in particular a next number always exists. *)
THEOREM CatalogTypeCorrect == Spec => []TypeOK
<1>1. IInv => TypeOK
  BY DEF IInv
<1> QED
  BY <1>1, Invariance, PTL

(* Of the versions with one content, one at most is stored to be extracted, *)
(* beside such as were purged while they were worked on and whose status   *)
(* that work wrote afterwards: FindDuplicate and Insert are two statements, *)
(* and in between an original can come back from its purge, but not anew.  *)
THEOREM OriginalIsOne == Spec => []OneOriginal
<1>1. IInv => OneOriginal
  BY DEF IInv, CatalogInv
<1> QED
  BY <1>1, Invariance, PTL

(* A duplicate points at an original of the same content, for ever. *)
THEOREM DuplicatesPoint == Spec => []DuplicatesPointAtOriginals
<1>1. IInv => DuplicatesPointAtOriginals
  BY DEF IInv, CatalogInv
<1> QED
  BY <1>1, Invariance, PTL

(* Numbers are distinct, and the latest version's is the highest. *)
THEOREM LatestIsAlwaysNewest == Spec => []LatestIsNewest
<1>1. IInv => LatestIsNewest
  BY DEF IInv, CatalogInv
<1> QED
  BY <1>1, Invariance, PTL

(* A reader finds the bytes of every version of a document nobody un-archived *)
(* in the middle of its purge, but of those whose status was written over a  *)
(* tombstone's.                                                              *)
THEOREM VisibleAlwaysHasBytes == Spec => []VisibleHasBytes
<1>1. IInv => VisibleHasBytes
  BY DEF IInv, BytesInv
<1> QED
  BY <1>1, Invariance, PTL

(* Bytes and rows, which no transaction covers together, agree all the same: *)
(* the exceptions are an un-archiving within a purge, a status written after *)
(* the purge, and a deletion the store refused.                              *)
THEOREM BytesAlwaysFollowRows == Spec => []BytesFollowRows
<1>1. IInv => BytesFollowRows
  BY DEF IInv, BytesInv, BytesFollowRows
<1> QED
  BY <1>1, Invariance, PTL

(* A tombstone has no bytes, unless the store refused to delete them. *)
THEOREM PurgedNeverHasBytes == Spec => []PurgedHasNoBytes
<1>1. IInv => PurgedHasNoBytes
  BY DEF IInv, BytesInv
<1> QED
  BY <1>1, Invariance, PTL

(* A request the client has an answer to makes no further version. *)
THEOREM KeysAreHonoured == Spec => AnsweredOnce
<1>1. IInv /\ [Next]_vars =>
        [\A v \in Versions : row[v] = None /\ row'[v] # None =>
                               upload.request \notin answered]_vars
  <2> SUFFICES ASSUME IInv, [Next]_vars, NEW v \in Versions, row[v] = None, row'[v] # None
               PROVE  upload.request \notin answered
    OBVIOUS
  <2>1. ASSUME NEW a \in Admins, NEW u \in Versions, MarkPurged(a, u) PROVE FALSE
    <3>1. Recorded' = Recorded
      BY <2>1, MarkedRow DEF StatusWritten
    <3> QED
      BY <3>1 DEF Recorded
  <2>3. ASSUME NEW u \in Versions, LateWrite(u) PROVE FALSE
    <3>1. Recorded' = Recorded
      BY <2>3, LateRow DEF StatusWritten
    <3> QED
      BY <3>1 DEF Recorded
  <2>2. ASSUME NEW d \in Documents, Insert(d) PROVE upload.request \notin answered
    BY <2>2 DEF Insert, IInv, KeyInv
  <2> QED
    BY <2>1, <2>2, <2>3, RowCases
<1> QED
  BY <1>1, Invariance, PTL DEF Spec, AnsweredOnce

-----------------------------------------------------------------------------
(* Refinement of the registry of contents.                                 *)

(* An insertion adopts a content or enters a copy. *)
LEMMA InsertRegisters ==
    ASSUME IInv, NEW d \in Documents, Insert(d)
    PROVE  Registry!RegistryNext
<1> DEFINE w == upload.version
           u == upload.duplicateOf
<1>1. /\ w \in Versions /\ w \notin Recorded
      /\ Recorded' = Recorded \cup {w}
      /\ \A x \in Recorded : row'[x] = row[x]
      /\ row'[w] = [document |-> d, number |-> upload.number, hash |-> upload.hash,
                    duplicateOf |-> u,
                    status |-> IF u = None THEN "STORED" ELSE "DUPLICATE_DETECTED"]
      /\ revived' = revived /\ w \notin revived
  BY InsertedRow DEF Insert, history, revival, IInv, RevivalInv
<1>2. /\ row'[w].hash = upload.hash /\ row'[w].duplicateOf = u
      /\ row'[w].status # "PURGED"
  BY <1>1
<1>3. Registered' = [x \in Recorded \cup {w} |->
                       IF x = w THEN [content |-> upload.hash, copyOf |-> u, retired |-> FALSE,
                                      restored |-> FALSE]
                                ELSE Registered[x]]
  <2>1. Registered' = [x \in Recorded \cup {w} |->
                         [content |-> row'[x].hash, copyOf |-> row'[x].duplicateOf,
                          retired |-> row'[x].status = "PURGED", restored |-> x \in revived]]
    BY <1>1 DEF Registered
  <2>2. (row'[w].status = "PURGED") = FALSE /\ (w \in revived) = FALSE
    BY <1>1, <1>2
  <2>3. \A x \in Recorded \cup {w} :
           [content |-> row'[x].hash, copyOf |-> row'[x].duplicateOf,
            retired |-> row'[x].status = "PURGED", restored |-> x \in revived]
         = IF x = w THEN [content |-> upload.hash, copyOf |-> u, retired |-> FALSE,
                          restored |-> FALSE]
                    ELSE Registered[x]
    BY <1>1, <1>2, <2>2 DEF Registered
  <2> QED
    BY <2>1, <2>3
<1>4. DOMAIN Registered = Recorded
  BY DEF Registered
<1>5. CASE u = None
  <2>1. upload.hash \in Hashes /\ Originals(upload.hash) \subseteq revived
    BY <1>5 DEF IInv, UploadInv, Insert
  <2>2. \A x \in Recorded : Registered[x].content = upload.hash /\ Registered[x].copyOf = None
                              => Registered[x].retired \/ Registered[x].restored
    BY <2>1 DEF Registered, Originals
  <2>3. Registry!Adopt(w, upload.hash)
    BY <1>1, <1>3, <1>4, <1>5, <2>2 DEF Registry!Adopt, Registry!Enter, Registry!Known
  <2> QED
    BY <1>1, <2>1, <2>3 DEF Registry!RegistryNext
<1>6. CASE u # None
  <2>1. u \in Recorded /\ row[u].duplicateOf = None /\ row[u].hash = upload.hash
    BY <1>6 DEF IInv, UploadInv, Insert
  <2>2. Registered[u].copyOf = None /\ Registered[u].content = upload.hash
    BY <2>1 DEF Registered
  <2>3. Registry!Copy(w, u)
    BY <1>1, <1>3, <1>4, <2>1, <2>2 DEF Registry!Copy, Registry!Enter, Registry!Known
  <2> QED
    BY <1>1, <2>1, <2>3 DEF Registry!RegistryNext, Recorded
<1> QED
  BY <1>5, <1>6

(* A tombstone retires an entry. *)
LEMMA MarkRetires ==
    ASSUME IInv, NEW a \in Admins, NEW v \in Versions, MarkPurged(a, v)
    PROVE  Registry!RegistryNext
<1>1. /\ v \in Recorded
      /\ Recorded' = Recorded
      /\ \A x \in Recorded :
            /\ row'[x].hash = row[x].hash
            /\ row'[x].duplicateOf = row[x].duplicateOf
            /\ row'[x].status = IF x = v THEN "PURGED" ELSE row[x].status
      /\ revived' = revived
  BY MarkedRow DEF MarkPurged, StatusWritten
<1>2. DOMAIN Registered = Recorded /\ Recorded \cup {v} = Recorded
  BY <1>1 DEF Registered
<1>3. Registered' = [x \in Recorded |->
                       IF x = v THEN [content |-> Registered[v].content,
                                      copyOf |-> Registered[v].copyOf, retired |-> TRUE,
                                      restored |-> Registered[v].restored]
                                ELSE Registered[x]]
  BY <1>1 DEF Registered
<1>4. Registry!Retire(v)
  BY <1>1, <1>2, <1>3 DEF Registry!Retire, Registry!Enter, Registry!Known
<1> QED
  BY <1>4 DEF Registry!RegistryNext

(* A status written over a tombstone restores the entry of an original.    *)
LEMMA LateRestores ==
    ASSUME IInv, NEW v \in Versions, LateWrite(v)
    PROVE  Registry!RegistryNext
<1>1. /\ v \in Recorded
      /\ Recorded' = Recorded
      /\ \A x \in Recorded :
            /\ row'[x].hash = row[x].hash
            /\ row'[x].duplicateOf = row[x].duplicateOf
            /\ row'[x].status = IF x = v THEN "STORED" ELSE row[x].status
      /\ revived' = revived \cup {v}
  BY LateRow DEF LateWrite, StatusWritten
<1>2. row[v].duplicateOf = None /\ row[v].status = "PURGED"
  BY DEF LateWrite, IInv, RevivalInv
<1>3. DOMAIN Registered = Recorded /\ Recorded \cup {v} = Recorded
  BY <1>1 DEF Registered
<1>4. Registered' = [x \in Recorded |->
                       IF x = v THEN [content |-> Registered[v].content, copyOf |-> None,
                                      retired |-> FALSE, restored |-> TRUE]
                                ELSE Registered[x]]
  <2>1. Registered' = [x \in Recorded |->
                         [content |-> row'[x].hash, copyOf |-> row'[x].duplicateOf,
                          retired |-> row'[x].status = "PURGED",
                          restored |-> x \in revived \cup {v}]]
    BY <1>1 DEF Registered
  <2>2. \A x \in Recorded \ {v} : (x \in revived \cup {v}) = (x \in revived)
    OBVIOUS
  <2>3. (row'[v].status = "PURGED") = FALSE /\ (v \in revived \cup {v}) = TRUE
    BY <1>1
  <2>4. \A x \in Recorded :
           [content |-> row'[x].hash, copyOf |-> row'[x].duplicateOf,
            retired |-> row'[x].status = "PURGED", restored |-> x \in revived \cup {v}]
         = IF x = v THEN [content |-> Registered[v].content, copyOf |-> None,
                          retired |-> FALSE, restored |-> TRUE]
                    ELSE Registered[x]
    BY <1>1, <1>2, <2>2, <2>3 DEF Registered
  <2> QED
    BY <2>1, <2>4
<1>5. Registered[v].copyOf = None /\ Registered[v].retired
  BY <1>1, <1>2 DEF Registered
<1>6. Registry!Restore(v)
  BY <1>1, <1>3, <1>4, <1>5 DEF Registry!Restore, Registry!Enter, Registry!Known
<1> QED
  BY <1>6 DEF Registry!RegistryNext

(* However uploads, purges, late writes, faults and crashes interleave, the *)
(* rows are a registry of contents: a version is entered once, as the one  *)
(* of its content that is worked on or as a copy of such, and then at most *)
(* retired, and restored when its own work outlived that; beside what was  *)
(* restored a content may have another version, which came in between.     *)
THEOREM CatalogImplementsRegistry == Spec => ImplementsRegistry
<1>1. Init => Registry!RegistryInit
  BY DEF Init, Registry!RegistryInit, Registry!Known, Registered, Recorded
<1>2. IInv /\ [Next]_vars => [Registry!RegistryNext]_Registered
  <2> SUFFICES ASSUME IInv, [Next]_vars
               PROVE  [Registry!RegistryNext]_Registered
    OBVIOUS
  <2>1. CASE UNCHANGED <<row, latest, revived>>
    BY <2>1 DEF Registered, Recorded
  <2> QED
    BY <2>1, InsertRegisters, MarkRetires, LateRestores, RowCases
<1> QED
  BY <1>1, <1>2, Invariance, PTL DEF Spec, ImplementsRegistry, Registry!RegistrySpec

=============================================================================
