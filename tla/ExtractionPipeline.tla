------------------------- MODULE ExtractionPipeline -------------------------
(***************************************************************************)
(* Asynchronous extraction: HTTP request threads move a version to         *)
(* QUEUED_FOR_EXTRACTION and then put a job on the bounded in-memory       *)
(* queue; worker tasks take jobs and run the extraction on executor        *)
(* threads; a recovery scan, at boot and periodically, fails versions it   *)
(* takes for abandoned; the process may crash at any point, which loses    *)
(* everything but the catalog.  Every statement that commits to the        *)
(* catalog is one step, so whatever can happen between two commits does.   *)
(*                                                                         *)
(* The queue is an asyncio.Queue, which is not thread-safe: the workers    *)
(* use it on the event loop, the routes call put_nowait on their own       *)
(* threads.  Its operations are split where the threads can interleave.    *)
(*                                                                         *)
(* The rest of the system appears as its effect on a version's status:     *)
(* uploads, review and administration.                                     *)
(***************************************************************************)
EXTENDS DocumentStatus, Naturals, Sequences, FiniteSets

CONSTANTS
    Versions,          \* document versions
    Families,          \* documents: families of versions
    FamilyOf,          \* the family each version belongs to
    Requests,          \* request threads of the extract and retry routes
    Workers,           \* worker tasks; in inline mode, the request threads
    QueueSize,         \* settings.extraction_queue_size
    Modes,             \* the values settings.extraction_inline may be given at a boot
    PeriodicRecovery,  \* settings.extraction_recovery_interval_seconds > 0, or
                       \* an operator posts to /admin/reconcile
    Administration,    \* whether documents are archived and purged
    CatalogFaults,     \* whether a catalog statement may fail ("database is locked")
    NoVersion          \* no version: an idle thread, an empty family

ASSUME PipelineAssumption ==
    /\ FamilyOf \in [Versions -> Families]
    /\ NoVersion \notin Versions
    /\ IsFiniteSet(Requests) /\ Requests # {}
    /\ QueueSize \in Nat \ {0}
    /\ Modes # {}
    /\ Modes \cup {PeriodicRecovery, Administration, CatalogFaults} \subseteq BOOLEAN

VARIABLES
    status,    \* document_versions.status, "ABSENT" before the upload
    latest,    \* documents.latest_version_id
    archived,  \* documents.archived_at IS NOT NULL
    raw,       \* versions with a row in raw_extractions
    queue,     \* the asyncio.Queue of ExtractionRequests
    putting,   \* the version each request thread is about to put, if any
    admitted,  \* request threads that found room in the queue, in put_nowait
    job,       \* what each worker thread is doing, and for which version
    scan,      \* versions the running recovery scan has still to fail
    purging,   \* versions the running purge has still to write
    up,        \* whether the process is running
    inline,    \* settings.extraction_inline of the running process
    lost       \* history: why a version in flight has no job ("no": it has one)

catalog == <<status, latest, archived, raw>>
memory  == <<queue, putting, admitted, job, scan, purging, up, inline>>
vars    == <<status, latest, archived, raw, queue, putting, admitted, job,
             scan, purging, up, inline, lost>>

-----------------------------------------------------------------------------
(* "parking": the worker has seen the queue empty, in Queue.get, and has    *)
(* not yet registered the future that a put wakes; "parked": it has.       *)
Free == {"idle", "parking", "parked"}
Busy == {"claimed", "parsing", "publishing"}

At(stage) == [stage |-> stage, version |-> NoVersion]
Idle == At("idle")

(* The ways a version can be left QUEUED_FOR_EXTRACTION or EXTRACTING with *)
(* nobody working on it: its job was refused by a full queue (503), its    *)
(* thread died on a catalog error, or the process went down and the scan   *)
(* at the next boot did not see it.                                        *)
LostReasons == {"no", "refused", "aborted", "interrupted"}

TypeOK ==
    /\ status \in [Versions -> Statuses \cup {"ABSENT"}]
    /\ latest \in [Families -> Versions \cup {NoVersion}]
    /\ archived \in [Families -> BOOLEAN]
    /\ raw \in SUBSET Versions
    /\ queue \in Seq(Versions)
    /\ putting \in [Requests -> Versions \cup {NoVersion}]
    /\ admitted \subseteq {r \in Requests : putting[r] # NoVersion}
    /\ job \in [Workers -> [stage : Free, version : {NoVersion}]
                        \cup [stage : Busy, version : Versions]]
    /\ scan \in SUBSET Versions
    /\ purging \in SUBSET Versions
    /\ up \in BOOLEAN
    /\ inline \in Modes
    /\ lost \in [Versions -> LostReasons]

Init ==
    /\ status = [v \in Versions |-> "ABSENT"]
    /\ latest = [f \in Families |-> NoVersion]
    /\ archived = [f \in Families |-> FALSE]
    /\ raw = {}
    /\ queue = <<>>
    /\ putting = [r \in Requests |-> NoVersion]
    /\ admitted = {}
    /\ job = [w \in Workers |-> Idle]
    /\ scan = {}
    /\ purging = {}
    /\ up = TRUE
    /\ inline \in Modes
    /\ lost = [v \in Versions |-> "no"]

-----------------------------------------------------------------------------
(* Faulty variant: the UPDATE without its WHERE clause. *)
UnguardedWrite(v, t) ==
    /\ status[v] # "ABSENT"
    /\ status' = [status EXCEPT ![v] = t]

(* update_status: read, assert_transition, and an UPDATE whose WHERE clause *)
(* repeats the test.  Only the UPDATE decides, so the three are one step.   *)
GuardedWrite(v, t) ==
    /\ status[v] \in AllowedPredecessors(t)
    /\ status' = [status EXCEPT ![v] = t]

(* update_version_failure: an UPDATE with no test of the current status. *)
WriteFailed(v) == status' = [status EXCEPT ![v] = "FAILED"]

Owned(v) == lost' = [lost EXCEPT ![v] = "no"]

-----------------------------------------------------------------------------
(* Request threads.                                                        *)

(* upload_stream's last statement: a new row, the latest of its family.     *)
(* The service looked for an unarchived family earlier; the statement      *)
(* itself does not look at archived_at.                                    *)
Upload(v) ==
    /\ up
    /\ status[v] = "ABSENT"
    /\ \E s \in {"STORED", "DUPLICATE_DETECTED"} :
          status' = [status EXCEPT ![v] = s]
    /\ latest' = [latest EXCEPT ![FamilyOf[v]] = v]
    /\ UNCHANGED <<archived, raw, memory, lost>>

(* _enqueue_extract and _enqueue_retry, first half.  The retry route also   *)
(* asks for FAILED, which the table allows from the extract route too.     *)
Enqueue(r, v) ==
    /\ up /\ ~inline
    /\ putting[r] = NoVersion
    /\ GuardedWrite(v, "QUEUED_FOR_EXTRACTION")
    /\ putting' = [putting EXCEPT ![r] = v]
    /\ Owned(v)
    /\ UNCHANGED <<latest, archived, raw, queue, admitted, job, scan, purging, up, inline>>

(* Faulty variant: the bound is off by one. *)
FindRoomOffByOne(r) ==
    /\ putting[r] # NoVersion /\ r \notin admitted
    /\ Len(queue) <= QueueSize
    /\ admitted' = admitted \cup {r}
    /\ UNCHANGED <<catalog, queue, putting, job, scan, purging, up, inline, lost>>

(* _put_and_build_snapshot calls put_nowait, whose first half is the test   *)
(* of full(): the thread goes on to append, or ...                         *)
FindRoom(r) ==
    /\ putting[r] # NoVersion /\ r \notin admitted
    /\ Len(queue) < QueueSize
    /\ admitted' = admitted \cup {r}
    /\ UNCHANGED <<catalog, queue, putting, job, scan, purging, up, inline, lost>>

(* ... answers 503.  The refusal does not undo the status write. *)
Refuse(r) ==
    /\ putting[r] # NoVersion /\ r \notin admitted
    /\ Len(queue) >= QueueSize
    /\ putting' = [putting EXCEPT ![r] = NoVersion]
    /\ lost' = [lost EXCEPT ![putting[r]] = "refused"]
    /\ UNCHANGED <<catalog, queue, admitted, job, scan, purging, up, inline>>

(* Faulty variant: the thread does not leave put_nowait's bookkeeping. *)
PutTwice(r) ==
    /\ r \in admitted
    /\ queue' = Append(queue, putting[r])
    /\ putting' = [putting EXCEPT ![r] = NoVersion]
    /\ UNCHANGED <<catalog, admitted, job, scan, purging, up, inline, lost>>

(* The second half of put_nowait: append, and wake one registered getter.   *)
Put(r) ==
    /\ r \in admitted
    /\ queue' = Append(queue, putting[r])
    /\ putting' = [putting EXCEPT ![r] = NoVersion]
    /\ admitted' = admitted \ {r}
    /\ LET parked == {w \in Workers : job[w].stage = "parked"} IN
       IF parked = {} THEN UNCHANGED job
       ELSE \E w \in parked : job' = [job EXCEPT ![w] = Idle]
    /\ UNCHANGED <<catalog, scan, purging, up, inline, lost>>

-----------------------------------------------------------------------------
(* Extraction threads.                                                     *)

(* The workers' tasks share one event loop: while one of them is inside     *)
(* Queue.get, up to its await, no other runs.                              *)
LoopFree == \A w \in Workers : job[w].stage # "parking"

(* Queue.get finds the queue empty ... *)
SeeEmpty(w) ==
    /\ up /\ ~inline /\ LoopFree
    /\ job[w] = Idle
    /\ queue = <<>>
    /\ job' = [job EXCEPT ![w] = At("parking")]
    /\ UNCHANGED <<catalog, queue, putting, admitted, scan, purging, up, inline, lost>>

(* ... and registers a future to await.  A put in between wakes nobody. *)
Park(w) ==
    /\ job[w] = At("parking")
    /\ job' = [job EXCEPT ![w] = At("parked")]
    /\ UNCHANGED <<catalog, queue, putting, admitted, scan, purging, up, inline, lost>>

(* ExtractionWorker._run: await queue.get(), then run_in_executor. *)
Dequeue(w) ==
    /\ LoopFree
    /\ job[w] = Idle
    /\ queue # <<>>
    /\ job' = [job EXCEPT ![w] = [stage |-> "claimed", version |-> Head(queue)]]
    /\ queue' = Tail(queue)
    /\ UNCHANGED <<catalog, putting, admitted, scan, purging, up, inline, lost>>

(* _run_inline_extract and _run_inline_retry: the request thread itself     *)
(* calls ExtractionJobService.extract.                                     *)
StartInline(w, v) ==
    /\ up /\ inline
    /\ job[w] = Idle
    /\ status[v] # "ABSENT"
    /\ job' = [job EXCEPT ![w] = [stage |-> "claimed", version |-> v]]
    /\ UNCHANGED <<catalog, queue, putting, admitted, scan, purging, up, inline, lost>>

(* Faulty variant: extract trusts the status the route wrote. *)
BeginExtractUnchecked(w) ==
    LET v == job[w].version IN
    /\ job[w].stage = "claimed"
    /\ status' = [status EXCEPT ![v] = "EXTRACTING"]
    /\ job' = [job EXCEPT ![w].stage = "parsing"]
    /\ Owned(v)
    /\ UNCHANGED <<latest, archived, raw, queue, putting, admitted, scan, purging, up, inline>>

(* ExtractionJobService.extract, up to the parser: the version becomes      *)
(* EXTRACTING, or the job ends with IllegalTransition (or, for a           *)
(* duplicate, ValueError) and nothing is written.                          *)
BeginExtract(w) ==
    LET v == job[w].version IN
    /\ job[w].stage = "claimed"
    /\ \/ /\ GuardedWrite(v, "EXTRACTING")
          /\ job' = [job EXCEPT ![w].stage = "parsing"]
          /\ Owned(v)
       \/ /\ status[v] \notin AllowedPredecessors("EXTRACTING")
          /\ job' = [job EXCEPT ![w] = Idle]
          /\ UNCHANGED <<status, lost>>
    /\ UNCHANGED <<latest, archived, raw, queue, putting, admitted, scan, purging, up, inline>>

(* Faulty variant: an error path that forgets mark_failed. *)
ParseFailsUnmarked(w) ==
    /\ job[w].stage = "parsing"
    /\ job' = [job EXCEPT ![w] = Idle]
    /\ UNCHANGED <<catalog, queue, putting, admitted, scan, purging, up, inline, lost>>

(* No parser for the content type, a parser exception, or no extractable    *)
(* content: mark_failed, whatever the status has become meanwhile.         *)
ParseFails(w) ==
    LET v == job[w].version IN
    /\ job[w].stage = "parsing"
    /\ WriteFailed(v)
    /\ job' = [job EXCEPT ![w] = Idle]
    /\ Owned(v)
    /\ UNCHANGED <<latest, archived, raw, queue, putting, admitted, scan, purging, up, inline>>

(* Faulty variant: the status moves although the payload was not stored. *)
SaveRawSkipped(w) ==
    /\ job[w].stage = "parsing"
    /\ job' = [job EXCEPT ![w].stage = "publishing"]
    /\ UNCHANGED <<catalog, queue, putting, admitted, scan, purging, up, inline, lost>>

(* save_raw_extraction: the payload is stored before the status moves. *)
SaveRaw(w) ==
    /\ job[w].stage = "parsing"
    /\ raw' = raw \cup {job[w].version}
    /\ job' = [job EXCEPT ![w].stage = "publishing"]
    /\ UNCHANGED <<status, latest, archived, queue, putting, admitted, scan, purging, up, inline, lost>>

(* update_status(EXTRACTED): if the version is no longer EXTRACTING the     *)
(* write matches no row and the worker swallows IllegalTransition.         *)
Publish(w) ==
    LET v == job[w].version IN
    /\ job[w].stage = "publishing"
    /\ job' = [job EXCEPT ![w] = Idle]
    /\ \/ GuardedWrite(v, "EXTRACTED")
       \/ /\ status[v] \notin AllowedPredecessors("EXTRACTED")
          /\ UNCHANGED status
    /\ UNCHANGED <<latest, archived, raw, queue, putting, admitted, scan, purging, up, inline, lost>>

(* A catalog statement of the job raises.  _handle_one logs and swallows    *)
(* it: the worker lives on, the version keeps its status.                  *)
AbortJob(w) ==
    LET v == job[w].version IN
    /\ CatalogFaults
    /\ job[w].stage \in Busy
    /\ job' = [job EXCEPT ![w] = Idle]
    /\ lost' = [lost EXCEPT ![v] = "aborted"]
    /\ UNCHANGED <<catalog, queue, putting, admitted, scan, purging, up, inline>>

-----------------------------------------------------------------------------
(* Recovery (extraction_recovery.recover_stuck_extractions).               *)

Stuck(v) == status[v] \in StuckStates

(* Faulty variant: every version of a listed document. *)
RecoverableWholeDocument ==
    {v \in Versions :
        /\ status[v] # "ABSENT"
        /\ ~archived[FamilyOf[v]]
        /\ latest[FamilyOf[v]] \in Versions
        /\ Stuck(latest[FamilyOf[v]])}

(* Faulty variant: the scan looks for EXTRACTING only, as before the queue. *)
RecoverableExtracting ==
    {v \in Versions :
        /\ status[v] = "EXTRACTING"
        /\ ~archived[FamilyOf[v]]
        /\ latest[FamilyOf[v]] \in Versions
        /\ Stuck(latest[FamilyOf[v]])}

(* What one scan fails: list_documents filters archived documents out and   *)
(* applies the status filter to the LATEST version of each document; the   *)
(* scan then takes every stuck version of the documents it was given.      *)
Recoverable ==
    {v \in Versions :
        /\ Stuck(v)
        /\ ~archived[FamilyOf[v]]
        /\ latest[FamilyOf[v]] \in Versions
        /\ Stuck(latest[FamilyOf[v]])}

(* _periodic_stuck_extraction_recovery, or /admin/reconcile: take the       *)
(* listing.  It runs in a thread, with the workers and the routes live.    *)
ScanStart ==
    /\ up /\ ~inline /\ PeriodicRecovery
    /\ scan = {}
    /\ Recoverable # {}
    /\ scan' = Recoverable
    /\ UNCHANGED <<catalog, queue, putting, admitted, job, purging, up, inline, lost>>

(* mark_failed on one listed version, whatever its status is by now. *)
ScanMarkFailed(v) ==
    /\ v \in scan
    /\ WriteFailed(v)
    /\ scan' = scan \ {v}
    /\ Owned(v)
    /\ UNCHANGED <<latest, archived, raw, queue, putting, admitted, job, purging, up, inline>>

(* mark_failed raised: logged, and the scan goes on with the next one. *)
ScanSkip(v) ==
    /\ CatalogFaults
    /\ v \in scan
    /\ scan' = scan \ {v}
    /\ UNCHANGED <<catalog, queue, putting, admitted, job, purging, up, inline, lost>>

(* The process dies.  A graceful stop differs only in that the jobs already *)
(* on executor threads run to their end first.                             *)
Crash ==
    /\ up
    /\ up' = FALSE
    /\ queue' = <<>>
    /\ putting' = [r \in Requests |-> NoVersion]
    /\ admitted' = {}
    /\ job' = [w \in Workers |-> Idle]
    /\ scan' = {}
    /\ purging' = {}
    /\ lost' = [v \in Versions |-> IF Stuck(v) THEN "interrupted" ELSE lost[v]]
    /\ UNCHANGED <<catalog, inline>>

(* The lifespan hook runs the scan before any route or worker is live.      *)
(* Under a catalog fault it fails only some of the versions it should.     *)
Boot ==
    /\ ~up
    /\ up' = TRUE
    /\ inline' \in Modes
    /\ \E R \in SUBSET Recoverable :
          /\ inline' => R = {}
          /\ ~inline' /\ ~CatalogFaults => R = Recoverable
          /\ status' = [v \in Versions |-> IF v \in R THEN "FAILED" ELSE status[v]]
          /\ lost' = [v \in Versions |-> IF v \in R THEN "no" ELSE lost[v]]
    /\ UNCHANGED <<latest, archived, raw, queue, putting, admitted, job, scan, purging>>

-----------------------------------------------------------------------------
(* The rest of the system, as far as a status can tell.                    *)

(* Semantic generation (EXTRACTED to NEEDS_REVIEW), review decisions,       *)
(* re-opening and supersession move a version along the table.             *)
Review(v) ==
    /\ up
    /\ status[v] \in {"EXTRACTED", "NEEDS_REVIEW", "VALIDATED", "REJECTED"}
    /\ \E t \in AllowedTransitions(status[v]) \cap BehindReviewGate :
          status' = [status EXCEPT ![v] = t]
    /\ UNCHANGED <<latest, archived, raw, memory, lost>>

(* flag_document_archived and unarchive_document.  No version's status is   *)
(* looked at.                                                              *)
SetArchived(f) ==
    /\ up /\ Administration
    /\ latest[f] # NoVersion
    /\ archived' = [archived EXCEPT ![f] = ~@]
    /\ UNCHANGED <<status, latest, raw, memory, lost>>

(* _purge_one_document lists the versions of an archived document that are  *)
(* not purged yet ...                                                      *)
PurgeStart(f) ==
    /\ up /\ Administration
    /\ archived[f]
    /\ purging = {}
    /\ purging' = {v \in Versions : FamilyOf[v] = f
                                   /\ status[v] \notin {"ABSENT", "PURGED"}}
    /\ UNCHANGED <<catalog, queue, putting, admitted, job, scan, up, inline, lost>>

(* ... and purge_version_artifacts writes each one, with no test of its     *)
(* current status or of the archive flag.                                  *)
Purge(v) ==
    /\ v \in purging
    /\ status' = [status EXCEPT ![v] = "PURGED"]
    /\ purging' = purging \ {v}
    /\ UNCHANGED <<latest, archived, raw, queue, putting, admitted, job, scan,
                   up, inline, lost>>

-----------------------------------------------------------------------------
WorkerStep(w) ==
    \/ SeeEmpty(w) \/ Park(w) \/ Dequeue(w)
    \/ BeginExtract(w) \/ ParseFails(w) \/ SaveRaw(w) \/ Publish(w)

RequestStep(r) == FindRoom(r) \/ Refuse(r) \/ Put(r)

Next ==
    \/ \E v \in Versions :
          \/ Upload(v) \/ Review(v) \/ Purge(v)
          \/ ScanMarkFailed(v) \/ ScanSkip(v)
          \/ \E r \in Requests : Enqueue(r, v)
          \/ \E w \in Workers : StartInline(w, v)
    \/ \E r \in Requests : RequestStep(r)
    \/ \E w \in Workers : WorkerStep(w) \/ AbortJob(w)
    \/ \E f \in Families : SetArchived(f) \/ PurgeStart(f)
    \/ ScanStart \/ Crash \/ Boot

Spec == Init /\ [][Next]_vars

(* The event loop and the executor threads make progress and parsers       *)
(* return; a booting process comes up; the recovery timer fires, and not   *)
(* every one of its writes fails.  Nothing is assumed of users,            *)
(* administrators, faults or crashes.                                      *)
Fairness ==
    /\ \A w \in Workers : WF_vars(WorkerStep(w))
    /\ \A r \in Requests : WF_vars(RequestStep(r))
    /\ WF_vars(Boot)
    /\ WF_vars(ScanStart)
    /\ \A v \in Versions : SF_vars(ScanMarkFailed(v))

FairSpec == Spec /\ Fairness

-----------------------------------------------------------------------------
(* Who holds what.                                                         *)

OnQueue(v) == \E i \in 1..Len(queue) : queue[i] = v

Waiting(v) == \/ \E r \in Requests : putting[r] = v
              \/ OnQueue(v)
              \/ \E w \in Workers : job[w] = [stage |-> "claimed", version |-> v]

Extracting(w, v) ==
    job[w].version = v /\ job[w].stage \in {"parsing", "publishing"}

(* No version in flight silently loses its job: while the process is up, a *)
(* QUEUED_FOR_EXTRACTION version is with a request thread, on the queue or  *)
(* in a worker's hands, an EXTRACTING one has a thread extracting it, and  *)
(* the only exceptions are the three the code knows how to cause.          *)
InFlightAccounted ==
    up => \A v \in Versions :
             lost[v] = "no" =>
                /\ status[v] = "QUEUED_FOR_EXTRACTION" => Waiting(v)
                /\ status[v] = "EXTRACTING" => \E w \in Workers : Extracting(w, v)

(* The queue outgrows its bound by at most the request threads that raced   *)
(* each other through put_nowait's test of full().                         *)
QueueBounded == Len(queue) < QueueSize + Cardinality(Requests)

(* Nothing without provenance: a version that is extracted or further has  *)
(* its raw extraction stored, at every instant, crashes included           *)
(* (ADR-006 section 5: the payload is persisted before the status flips).  *)
ProvenanceStored ==
    \A v \in Versions :
        status[v] \in {"EXTRACTED"} \cup BehindReviewGate => v \in raw

(* At most one thread extracts a version at a time.  The code has no lock   *)
(* per version: it relies on the guarded write of EXTRACTING.  It holds     *)
(* while nothing fails a live job from outside, that is, without the       *)
(* periodic scan.                                                          *)
SoleExtractor ==
    \A v \in Versions : \A w1, w2 \in Workers :
        Extracting(w1, v) /\ Extracting(w2, v) => w1 = w2

(* A version has at most one job between request threads, queue and workers *)
(* ("a concurrent caller racing two extract submissions doesn't enqueue    *)
(* twice", _enqueue_extract).                                              *)
NoDoubleEnqueue ==
    ~inline => \A v \in Versions :
        Cardinality({r \in Requests : putting[r] = v})
      + Cardinality({i \in 1..Len(queue) : queue[i] = v})
      + Cardinality({w \in Workers : job[w].version = v}) <= 1

(* Retry never bypasses the review gate (models/document.py): once a        *)
(* version is in review, no leftover of the extraction pipeline, neither   *)
(* a late parser failure nor a recovery scan, throws it back.              *)
ReviewGateHolds ==
    [][\A v \in Versions :
          status[v] \in BehindReviewGate =>
             status'[v] \notin StuckStates \cup {"FAILED", "EXTRACTED"}]_vars

(* Every version in flight eventually leaves the pipeline, through faults,  *)
(* crashes and refusals, provided that the recovery scan can see it and    *)
(* that the process does not crash for ever.                               *)
InFlightSettles ==
    <>[]up => \A v \in Versions :
                 Stuck(v) ~> \/ ~Stuck(v)
                             \/ archived[FamilyOf[v]]
                             \/ latest[FamilyOf[v]] # v

(* Under boot-only recovery and no administration the pipeline implements   *)
(* the lifecycle table: every write of a status is one of its edges.       *)
Lifecycle == INSTANCE VersionLifecycle WITH Versions <- Versions, status <- status
ImplementsLifecycle == Lifecycle!LifecycleSpec

=============================================================================
