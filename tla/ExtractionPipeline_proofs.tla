---------------------- MODULE ExtractionPipeline_proofs ----------------------
(***************************************************************************)
(* Proofs about ExtractionPipeline, for any versions, families, threads,   *)
(* workers, queue size and settings.                                       *)
(***************************************************************************)
EXTENDS ExtractionPipeline, FiniteSetTheorems, TLAPS

(* The statuses are distinct from the mark of a row that does not exist. *)
LEMMA StatusFacts ==
    /\ \A t : AllowedPredecessors(t) \subseteq Statuses
    /\ "ABSENT" \notin Statuses
    /\ BehindReviewGate \subseteq Statuses
    /\ {"STORED", "DUPLICATE_DETECTED", "QUEUED_FOR_EXTRACTION", "EXTRACTING",
        "EXTRACTED", "FAILED", "PURGED"} \subseteq Statuses
  BY DEF AllowedPredecessors, Statuses, BehindReviewGate

(* The table's rows that the pipeline's guarded writes rely on. *)
LEMMA PredecessorFacts ==
    /\ AllowedPredecessors("QUEUED_FOR_EXTRACTION") \subseteq {"STORED", "FAILED"}
    /\ AllowedPredecessors("EXTRACTING")
         = {"STORED", "QUEUED_FOR_EXTRACTION", "FAILED"}
    /\ AllowedPredecessors("EXTRACTED") = {"EXTRACTING"}
  BY DEF AllowedPredecessors, AllowedTransitions, Statuses

(* The two shapes of a worker's job. *)
Shapes == [stage : Free, version : {NoVersion}] \cup [stage : Busy, version : Versions]

(* A thread that is busy holds a version. *)
LEMMA JobFacts ==
    ASSUME TypeOK, NEW w \in Workers
    PROVE  /\ job[w] \in Shapes
           /\ job[w].stage \in Busy => job[w].version \in Versions
<1>1. job[w] \in Shapes
  BY DEF TypeOK, Shapes
<1>2. Free \cap Busy = {}
  BY DEF Free, Busy
<1> QED
  BY <1>1, <1>2 DEF Shapes

(* What the extraction steps write into a job. *)
LEMMA JobUpdates ==
    ASSUME TypeOK, NEW w \in Workers
    PROVE  /\ \A stage \in Free :
                 [job EXCEPT ![w] = At(stage)] \in [Workers -> Shapes]
           /\ \A stage \in Busy, v \in Versions :
                 [job EXCEPT ![w] = [stage |-> stage, version |-> v]] \in [Workers -> Shapes]
           /\ \A stage \in Busy :
                 job[w].stage \in Busy =>
                    [job EXCEPT ![w].stage = stage] \in [Workers -> Shapes]
<1>1. job \in [Workers -> Shapes]
  BY DEF TypeOK, Shapes
<1>2. \A stage \in Free : At(stage) \in Shapes
  BY DEF At, Shapes
<1>3. \A stage \in Busy, v \in Versions : [stage |-> stage, version |-> v] \in Shapes
  BY DEF Shapes
<1>4. ASSUME NEW stage \in Busy, job[w].stage \in Busy
      PROVE  [job[w] EXCEPT !.stage = stage] \in Shapes
  <2>1. job[w] \in [stage : Busy, version : Versions]
    BY <1>4, JobFacts DEF Shapes, Free, Busy
  <2> QED
    BY <2>1 DEF Shapes
<1> QED
  BY <1>1, <1>2, <1>3, <1>4

-----------------------------------------------------------------------------
(* Type correctness: every variable keeps its shape. *)
THEOREM TypeCorrect == Spec => []TypeOK
<1>1. Init => TypeOK
  BY PipelineAssumption DEF Init, TypeOK, PipelineAssumption, Idle, At, Free, LostReasons
<1>2. TypeOK /\ [Next]_vars => TypeOK'
  <2> SUFFICES ASSUME TypeOK, [Next]_vars PROVE TypeOK'
    OBVIOUS
  <2> USE PipelineAssumption, StatusFacts
  <2> USE DEF PipelineAssumption
  <2>1. ASSUME NEW v \in Versions, Upload(v) PROVE TypeOK'
    BY <2>1 DEF TypeOK, Upload, memory
  <2>2. ASSUME NEW v \in Versions, Review(v) PROVE TypeOK'
    BY <2>2 DEF TypeOK, Review, memory
  <2>3. ASSUME NEW v \in Versions, Purge(v) PROVE TypeOK'
    BY <2>3 DEF TypeOK, Purge
  <2>4. ASSUME NEW v \in Versions, ScanMarkFailed(v) PROVE TypeOK'
    BY <2>4 DEF TypeOK, ScanMarkFailed, WriteFailed, Owned, LostReasons
  <2>5. ASSUME NEW v \in Versions, ScanSkip(v) PROVE TypeOK'
    BY <2>5 DEF TypeOK, ScanSkip, catalog
  <2>6. ASSUME NEW v \in Versions, NEW r \in Requests, Enqueue(r, v) PROVE TypeOK'
    BY <2>6 DEF TypeOK, Enqueue, GuardedWrite, Owned, LostReasons
  <2>7. ASSUME NEW v \in Versions, NEW w \in Workers, StartInline(w, v) PROVE TypeOK'
    BY <2>7 DEF TypeOK, StartInline, catalog, Busy
  <2>8. ASSUME NEW r \in Requests, RequestStep(r) PROVE TypeOK'
    <3>1. CASE FindRoom(r)
      BY <3>1 DEF TypeOK, FindRoom, catalog
    <3>2. CASE Refuse(r)
      BY <3>2 DEF TypeOK, Refuse, catalog, LostReasons
    <3>3. CASE Put(r)
      <4>1. queue' \in Seq(Versions) /\ putting' \in [Requests -> Versions \cup {NoVersion}]
        BY <3>3 DEF TypeOK, Put
      <4>2. admitted' \subseteq {x \in Requests : putting'[x] # NoVersion}
        BY <3>3 DEF TypeOK, Put
      <4>3. job' \in [Workers -> [stage : Free, version : {NoVersion}]
                        \cup [stage : Busy, version : Versions]]
        BY <3>3 DEF TypeOK, Put, Idle, At, Free
      <4> QED
        BY <3>3, <4>1, <4>2, <4>3 DEF TypeOK, Put, catalog
    <3> QED
      BY <2>8, <3>1, <3>2, <3>3 DEF RequestStep
  <2>9. ASSUME NEW w \in Workers, WorkerStep(w) PROVE TypeOK'
    <3> USE JobFacts
    <3>1. CASE SeeEmpty(w)
      BY <3>1 DEF TypeOK, SeeEmpty, catalog, At, Free
    <3>2. CASE Park(w)
      BY <3>2 DEF TypeOK, Park, catalog, At, Free
    <3>3. CASE Dequeue(w)
      <4>1. Head(queue) \in Versions /\ Tail(queue) \in Seq(Versions)
        BY <3>3 DEF TypeOK, Dequeue
      <4> QED
        BY <3>3, <4>1 DEF TypeOK, Dequeue, catalog, Busy
    <3>4. CASE BeginExtract(w)
      <4>1. job[w].version \in Versions
        BY <3>4 DEF BeginExtract, Busy
      <4>2. job' \in [Workers -> Shapes]
        <5>1. /\ [job EXCEPT ![w] = Idle] \in [Workers -> Shapes]
              /\ [job EXCEPT ![w].stage = "parsing"] \in [Workers -> Shapes]
          BY <3>4, JobUpdates DEF BeginExtract, Idle, Free, Busy
        <5> QED
          BY <3>4, <5>1 DEF BeginExtract
      <4>3. status' \in [Versions -> Statuses \cup {"ABSENT"}]
        BY <3>4, <4>1 DEF TypeOK, BeginExtract, GuardedWrite
      <4>4. lost' \in [Versions -> LostReasons]
        BY <3>4, <4>1 DEF TypeOK, BeginExtract, Owned, LostReasons
      <4> QED
        BY <3>4, <4>2, <4>3, <4>4 DEF TypeOK, BeginExtract, Shapes
    <3>5. CASE ParseFails(w)
      <4>1. job[w].version \in Versions
        BY <3>5 DEF ParseFails, Busy
      <4> QED
        BY <3>5, <4>1 DEF TypeOK, ParseFails, WriteFailed, Owned, LostReasons, Idle, At, Free, Busy
    <3>6. CASE SaveRaw(w)
      <4>1. job[w].version \in Versions
        BY <3>6 DEF SaveRaw, Busy
      <4> QED
        BY <3>6, <4>1 DEF TypeOK, SaveRaw, Busy
    <3>7. CASE Publish(w)
      BY <3>7 DEF TypeOK, Publish, GuardedWrite, Idle, At, Free
    <3> QED
      BY <2>9, <3>1, <3>2, <3>3, <3>4, <3>5, <3>6, <3>7 DEF WorkerStep
  <2>10. ASSUME NEW w \in Workers, AbortJob(w) PROVE TypeOK'
    BY <2>10 DEF TypeOK, AbortJob, catalog, Idle, At, Free, LostReasons
  <2>11. ASSUME NEW f \in Families, SetArchived(f) PROVE TypeOK'
    BY <2>11 DEF TypeOK, SetArchived, memory
  <2>12. ASSUME NEW f \in Families, PurgeStart(f) PROVE TypeOK'
    BY <2>12 DEF TypeOK, PurgeStart, catalog
  <2>13. CASE ScanStart
    BY <2>13 DEF TypeOK, ScanStart, Recoverable, catalog
  <2>14. CASE Crash
    <3>1. lost' \in [Versions -> LostReasons]
      BY <2>14 DEF TypeOK, Crash, Stuck, LostReasons
    <3>2. job' \in [Workers -> [stage : Free, version : {NoVersion}]
                      \cup [stage : Busy, version : Versions]]
      BY <2>14 DEF Crash, Idle, At, Free
    <3>3. putting' \in [Requests -> Versions \cup {NoVersion}] /\ queue' \in Seq(Versions)
      BY <2>14 DEF Crash
    <3> QED
      BY <2>14, <3>1, <3>2, <3>3 DEF TypeOK, Crash, catalog
  <2>15. CASE Boot
    BY <2>15 DEF TypeOK, Boot, Recoverable, LostReasons
  <2>16. CASE UNCHANGED vars
    BY <2>16 DEF TypeOK, vars
  <2> QED
    BY <2>1, <2>2, <2>3, <2>4, <2>5, <2>6, <2>7, <2>8, <2>9, <2>10, <2>11,
       <2>12, <2>13, <2>14, <2>15, <2>16 DEF Next
<1> QED
  BY <1>1, <1>2, PTL DEF Spec

-----------------------------------------------------------------------------
(* The bound of the queue.                                                 *)

(* A thread that found room counts as if it had put its job: the test of   *)
(* full() saw fewer than QueueSize jobs, and at most all other threads were *)
(* between their test and their append.                                    *)
RoomInv == Len(queue) + Cardinality(admitted) < QueueSize + Cardinality(Requests)

(* The admitted request threads are finitely many. *)
LEMMA AdmittedFacts ==
    ASSUME TypeOK
    PROVE  /\ Len(queue) \in Nat
           /\ IsFiniteSet(admitted) /\ Cardinality(admitted) \in Nat
           /\ Cardinality(Requests) \in Nat \ {0}
           /\ QueueSize \in Nat \ {0}
<1>1. IsFiniteSet(Requests) /\ admitted \subseteq Requests
  BY PipelineAssumption DEF TypeOK, PipelineAssumption
<1>2. IsFiniteSet(admitted) /\ Cardinality(admitted) \in Nat
  BY <1>1, FS_Subset, FS_CardinalityType
<1>3. Cardinality(Requests) \in Nat \ {0}
  BY <1>1, FS_CardinalityType, FS_EmptySet, PipelineAssumption DEF PipelineAssumption
<1> QED
  BY <1>2, <1>3, PipelineAssumption DEF TypeOK, PipelineAssumption

(* The queue never holds QueueSize jobs plus one for every request thread,  *)
(* however the threads race each other through put_nowait.                 *)
THEOREM QueueIsBounded == Spec => []QueueBounded
<1>1. Init => RoomInv
  BY PipelineAssumption, FS_EmptySet, FS_CardinalityType DEF Init, RoomInv, PipelineAssumption
<1>2. TypeOK /\ TypeOK' /\ RoomInv /\ [Next]_vars => RoomInv'
  <2> SUFFICES ASSUME TypeOK, TypeOK', RoomInv, [Next]_vars PROVE RoomInv'
    OBVIOUS
  <2>1. ASSUME NEW r \in Requests, FindRoom(r) PROVE RoomInv'
    <3>1. Len(queue') < QueueSize
      BY <2>1 DEF FindRoom
    <3>2. Cardinality(admitted') <= Cardinality(Requests)
      BY FS_Subset, PipelineAssumption DEF TypeOK, PipelineAssumption
    <3>3. Cardinality(admitted') \in Nat /\ Len(queue') \in Nat
      BY AdmittedFacts, FS_Subset, FS_CardinalityType, PipelineAssumption
      DEF TypeOK, PipelineAssumption
    <3> QED
      BY <3>1, <3>2, <3>3, AdmittedFacts DEF RoomInv
  <2>2. ASSUME NEW r \in Requests, Put(r) PROVE RoomInv'
    <3>1. Len(queue') = Len(queue) + 1
      BY <2>2 DEF Put, TypeOK
    <3>2. Cardinality(admitted') = Cardinality(admitted) - 1
      BY <2>2, AdmittedFacts, FS_RemoveElement DEF Put
    <3> QED
      BY <3>1, <3>2, AdmittedFacts DEF RoomInv
  <2>3. ASSUME NEW w \in Workers, Dequeue(w) PROVE RoomInv'
    <3>1. Len(queue') = Len(queue) - 1 /\ admitted' = admitted
      BY <2>3 DEF Dequeue, TypeOK
    <3> QED
      BY <3>1, AdmittedFacts DEF RoomInv
  <2>4. CASE Crash
    BY <2>4, AdmittedFacts, FS_EmptySet DEF Crash, RoomInv
  <2>5. CASE UNCHANGED <<queue, admitted>>
    BY <2>5 DEF RoomInv
  <2>6. \/ \E r \in Requests : FindRoom(r) \/ Put(r)
        \/ \E w \in Workers : Dequeue(w)
        \/ Crash
        \/ UNCHANGED <<queue, admitted>>
    BY DEF Next, vars, catalog, memory, Upload, Review, Purge, ScanMarkFailed, ScanSkip,
           Enqueue, StartInline, RequestStep, Refuse, WorkerStep, SeeEmpty, Park,
           BeginExtract, ParseFails, SaveRaw, Publish, AbortJob, SetArchived, PurgeStart,
           ScanStart, Boot
  <2> QED
    BY <2>1, <2>2, <2>3, <2>4, <2>5, <2>6
<1>3. TypeOK /\ RoomInv => QueueBounded
  BY AdmittedFacts DEF RoomInv, QueueBounded
<1> QED
  BY <1>1, <1>2, <1>3, TypeCorrect, PTL DEF Spec

-----------------------------------------------------------------------------
(* Provenance.                                                             *)

(* A job that is about to publish has stored its payload. *)
ProvenanceInv ==
    /\ ProvenanceStored
    /\ \A w \in Workers : job[w].stage = "publishing" => job[w].version \in raw

(* What the steps outside extraction and review do to it: nothing.  They    *)
(* leave raw alone, start no publishing, and move no version to EXTRACTED   *)
(* or behind the review gate.                                              *)
LEMMA ProvenanceFrame ==
    ASSUME TypeOK, ProvenanceInv, raw \subseteq raw',
           \A w \in Workers : job'[w] = job[w] \/ job'[w].stage # "publishing",
           \A v \in Versions :
              \/ status'[v] = status[v]
              \/ status'[v] \notin {"EXTRACTED"} \cup BehindReviewGate
              \/ v \in raw'
    PROVE  ProvenanceInv'
  BY DEF ProvenanceInv, ProvenanceStored

(* Nothing is EXTRACTED, in review or decided without its stored payload. *)
THEOREM ProvenanceAlwaysStored == Spec => []ProvenanceStored
<1>1. Init => ProvenanceInv
  BY DEF Init, ProvenanceInv, ProvenanceStored, BehindReviewGate, Idle, At
<1>2. TypeOK /\ ProvenanceInv /\ [Next]_vars => ProvenanceInv'
  <2> SUFFICES ASSUME TypeOK, ProvenanceInv, [Next]_vars PROVE ProvenanceInv'
    OBVIOUS
  <2>1. ASSUME NEW v \in Versions, Upload(v) PROVE ProvenanceInv'
    BY <2>1, ProvenanceFrame DEF Upload, TypeOK, memory, BehindReviewGate
  <2>2. ASSUME NEW v \in Versions, Review(v) PROVE ProvenanceInv'
    <3>1. v \in raw
      BY <2>2 DEF Review, ProvenanceInv, ProvenanceStored, BehindReviewGate
    <3> QED
      BY <2>2, <3>1, ProvenanceFrame DEF Review, TypeOK, memory
  <2>3. ASSUME NEW v \in Versions, Purge(v) PROVE ProvenanceInv'
    BY <2>3, ProvenanceFrame DEF Purge, TypeOK, BehindReviewGate
  <2>4. ASSUME NEW v \in Versions, ScanMarkFailed(v) PROVE ProvenanceInv'
    BY <2>4, ProvenanceFrame DEF ScanMarkFailed, WriteFailed, TypeOK, BehindReviewGate
  <2>5. ASSUME NEW v \in Versions, NEW r \in Requests, Enqueue(r, v) PROVE ProvenanceInv'
    BY <2>5, ProvenanceFrame DEF Enqueue, GuardedWrite, TypeOK, BehindReviewGate
  <2>6. ASSUME NEW w \in Workers, BeginExtract(w) PROVE ProvenanceInv'
    BY <2>6, ProvenanceFrame DEF BeginExtract, GuardedWrite, TypeOK, BehindReviewGate, Idle, At
  <2>7. ASSUME NEW w \in Workers, ParseFails(w) PROVE ProvenanceInv'
    BY <2>7, ProvenanceFrame DEF ParseFails, WriteFailed, TypeOK, BehindReviewGate, Idle, At
  <2>8. ASSUME NEW w \in Workers, SaveRaw(w) PROVE ProvenanceInv'
    BY <2>8 DEF SaveRaw, TypeOK, ProvenanceInv, ProvenanceStored
  <2>9. ASSUME NEW w \in Workers, Publish(w) PROVE ProvenanceInv'
    <3>1. job[w].version \in raw
      BY <2>9 DEF Publish, ProvenanceInv
    <3> QED
      BY <2>9, <3>1, ProvenanceFrame DEF Publish, GuardedWrite, TypeOK, Idle, At
  <2>10. CASE Crash
    BY <2>10, ProvenanceFrame DEF Crash, catalog, TypeOK, Idle, At
  <2>11. CASE Boot
    BY <2>11, ProvenanceFrame DEF Boot, TypeOK, BehindReviewGate
  <2>12. ASSUME NEW v \in Versions, ScanSkip(v) PROVE ProvenanceInv'
    BY <2>12, ProvenanceFrame DEF ScanSkip, catalog
  <2>13. ASSUME NEW f \in Families, SetArchived(f) \/ PurgeStart(f) PROVE ProvenanceInv'
    BY <2>13, ProvenanceFrame DEF SetArchived, PurgeStart, catalog, memory
  <2>14. ASSUME NEW r \in Requests, RequestStep(r) PROVE ProvenanceInv'
    BY <2>14, ProvenanceFrame DEF RequestStep, FindRoom, Refuse, Put, catalog, TypeOK, Idle, At
  <2>15. ASSUME NEW w \in Workers, SeeEmpty(w) \/ Park(w) \/ Dequeue(w) \/ AbortJob(w)
         PROVE  ProvenanceInv'
    BY <2>15, ProvenanceFrame DEF SeeEmpty, Park, Dequeue, AbortJob, catalog, TypeOK, Idle, At
  <2>16. ASSUME NEW w \in Workers, NEW v \in Versions, StartInline(w, v) PROVE ProvenanceInv'
    BY <2>16, ProvenanceFrame DEF StartInline, catalog, TypeOK
  <2>17. CASE ScanStart
    BY <2>17, ProvenanceFrame DEF ScanStart, catalog
  <2>18. CASE UNCHANGED vars
    BY <2>18, ProvenanceFrame DEF vars
  <2> QED
    BY <2>1, <2>2, <2>3, <2>4, <2>5, <2>6, <2>7, <2>8, <2>9, <2>10, <2>11, <2>12,
       <2>13, <2>14, <2>15, <2>16, <2>17, <2>18 DEF Next, WorkerStep
<1>3. ProvenanceInv => ProvenanceStored
  BY DEF ProvenanceInv
<1> QED
  BY <1>1, <1>2, <1>3, TypeCorrect, PTL DEF Spec

-----------------------------------------------------------------------------
(* A process that is down holds nothing in memory, and every version it    *)
(* was working on is known to be interrupted.                              *)
DownInv ==
    ~up => /\ queue = <<>>
           /\ \A r \in Requests : putting[r] = NoVersion
           /\ \A w \in Workers : job[w] = Idle
           /\ scan = {} /\ purging = {}
           /\ \A v \in Versions : Stuck(v) => lost[v] # "no"

(* A process that is down has an empty queue and no thread at work, and has *)
(* accounted for what it lost.                                              *)
LEMMA DownIsEmpty == Spec => []DownInv
<1>1. Init => DownInv
  BY DEF Init, DownInv
<1>2. TypeOK /\ DownInv /\ [Next]_vars => DownInv'
  <2> SUFFICES ASSUME TypeOK, DownInv, [Next]_vars PROVE DownInv'
    OBVIOUS
  <2>1. CASE Crash
    BY <2>1 DEF Crash, DownInv, TypeOK, LostReasons, catalog, Stuck
  <2>2. CASE Boot
    BY <2>2 DEF Boot, DownInv
  <2>3. CASE UNCHANGED vars
    BY <2>3 DEF vars, DownInv, Stuck
  <2>4. ASSUME NEW v \in Versions,
               Upload(v) \/ Review(v) \/ Purge(v) \/ ScanMarkFailed(v) \/ ScanSkip(v)
        PROVE  DownInv'
    BY <2>4 DEF Upload, Review, Purge, ScanMarkFailed, ScanSkip, DownInv, memory
  <2>5. ASSUME NEW v \in Versions, NEW r \in Requests, Enqueue(r, v) PROVE DownInv'
    BY <2>5 DEF Enqueue, DownInv
  <2>6. ASSUME NEW v \in Versions, NEW w \in Workers, StartInline(w, v) PROVE DownInv'
    BY <2>6 DEF StartInline, DownInv
  <2>7. ASSUME NEW r \in Requests, RequestStep(r) PROVE DownInv'
    BY <2>7 DEF RequestStep, FindRoom, Refuse, Put, DownInv, TypeOK
  <2>8. ASSUME NEW w \in Workers, WorkerStep(w) \/ AbortJob(w) PROVE DownInv'
    BY <2>8 DEF WorkerStep, SeeEmpty, Park, Dequeue, BeginExtract, ParseFails, SaveRaw,
                Publish, AbortJob, DownInv, Idle, At, Busy
  <2>9. ASSUME NEW f \in Families, SetArchived(f) \/ PurgeStart(f) PROVE DownInv'
    BY <2>9 DEF SetArchived, PurgeStart, DownInv, memory
  <2>10. CASE ScanStart
    BY <2>10 DEF ScanStart, DownInv
  <2> QED
    BY <2>1, <2>2, <2>3, <2>4, <2>5, <2>6, <2>7, <2>8, <2>9, <2>10 DEF Next
<1> QED
  BY <1>1, <1>2, TypeCorrect, PTL DEF Spec

-----------------------------------------------------------------------------
(* Ownership of a version by its extracting thread.                        *)

(* Without the periodic scan, a version being extracted is EXTRACTING until *)
(* its own thread writes, unless a purge has written it off, and neither   *)
(* status is one from which another thread could begin.                    *)
OwnershipInv ==
    /\ SoleExtractor
    /\ scan = {}
    /\ \A v \in Versions, w \in Workers :
          Extracting(w, v) => status[v] \in {"EXTRACTING", "PURGED"}

(* Nobody takes a version out of its extractor's hands. *)
LEMMA OwnershipPreserved ==
    ASSUME ~PeriodicRecovery, TypeOK, DownInv, OwnershipInv, [Next]_vars
    PROVE  OwnershipInv'
<1> USE DEF OwnershipInv, SoleExtractor, Extracting
<1>1. ASSUME NEW v \in Versions, Upload(v) PROVE OwnershipInv'
  BY <1>1 DEF Upload, TypeOK, memory
<1>2. ASSUME NEW v \in Versions, Review(v) PROVE OwnershipInv'
  BY <1>2 DEF Review, TypeOK, memory
<1>3. ASSUME NEW v \in Versions, Purge(v) PROVE OwnershipInv'
  BY <1>3 DEF Purge, TypeOK
<1>4. ASSUME NEW v \in Versions, ScanMarkFailed(v) \/ ScanSkip(v) PROVE OwnershipInv'
  BY <1>4 DEF ScanMarkFailed, ScanSkip
<1>5. ASSUME NEW v \in Versions, NEW r \in Requests, Enqueue(r, v) PROVE OwnershipInv'
  BY <1>5, PredecessorFacts DEF Enqueue, GuardedWrite, TypeOK
<1>6. ASSUME NEW v \in Versions, NEW w \in Workers, StartInline(w, v) PROVE OwnershipInv'
  BY <1>6 DEF StartInline, catalog, TypeOK
<1>7. ASSUME NEW r \in Requests, RequestStep(r) PROVE OwnershipInv'
  <2>1. UNCHANGED <<status, scan>>
    BY <1>7 DEF RequestStep, FindRoom, Refuse, Put, catalog
  <2>2. \A w \in Workers : job'[w] = job[w] \/ job'[w] = Idle
    BY <1>7 DEF RequestStep, FindRoom, Refuse, Put, TypeOK
  <2> QED
    BY <2>1, <2>2 DEF Idle, At
<1>8. ASSUME NEW w \in Workers, SeeEmpty(w) \/ Park(w) \/ Dequeue(w) \/ AbortJob(w)
      PROVE  OwnershipInv'
  BY <1>8 DEF SeeEmpty, Park, Dequeue, AbortJob, catalog, TypeOK, Idle, At
<1>9. ASSUME NEW w \in Workers, BeginExtract(w) PROVE OwnershipInv'
  <2>1. job[w].version \in Versions
    BY <1>9, JobFacts DEF BeginExtract, Busy
  <2>2. CASE GuardedWrite(job[w].version, "EXTRACTING")
    <3>1. \A x \in Workers : ~Extracting(x, job[w].version)
      BY <2>1, <2>2, PredecessorFacts DEF GuardedWrite
    <3>2. status' = [status EXCEPT ![job[w].version] = "EXTRACTING"] /\ UNCHANGED scan
      BY <1>9, <2>2 DEF BeginExtract, GuardedWrite
    <3>3. \A x \in Workers : x # w => job'[x] = job[x]
      BY <1>9 DEF BeginExtract, TypeOK
    <3>4. job'[w].version = job[w].version \/ job'[w] = Idle
      BY <1>9 DEF BeginExtract, TypeOK
    <3>5. ASSUME NEW v \in Versions, NEW x \in Workers, Extracting(x, v)'
          PROVE  \/ x = w /\ v = job[w].version
                 \/ x # w /\ v # job[w].version /\ Extracting(x, v)
      BY <3>1, <3>3, <3>4, <3>5 DEF Idle, At
    <3>6. SoleExtractor'
      BY <3>5
    <3> QED
      BY <2>1, <3>2, <3>5, <3>6 DEF TypeOK
  <2>3. CASE job' = [job EXCEPT ![w] = Idle] /\ UNCHANGED <<status, scan>>
    BY <2>3 DEF TypeOK, Idle, At
  <2> QED
    BY <1>9, <2>2, <2>3 DEF BeginExtract
<1>10. ASSUME NEW w \in Workers, ParseFails(w) PROVE OwnershipInv'
  BY <1>10, JobFacts DEF ParseFails, WriteFailed, TypeOK, Idle, At, Busy
<1>11. ASSUME NEW w \in Workers, SaveRaw(w) PROVE OwnershipInv'
  BY <1>11 DEF SaveRaw, TypeOK
<1>12. ASSUME NEW w \in Workers, Publish(w) PROVE OwnershipInv'
  BY <1>12, JobFacts DEF Publish, GuardedWrite, TypeOK, Idle, At, Busy
<1>13. ASSUME NEW f \in Families, SetArchived(f) \/ PurgeStart(f) PROVE OwnershipInv'
  BY <1>13 DEF SetArchived, PurgeStart, catalog, memory
<1>14. CASE ScanStart
  BY <1>14 DEF ScanStart
<1>15. CASE Crash
  BY <1>15 DEF Crash, Idle, At
<1>16. CASE Boot
  BY <1>16 DEF Boot, DownInv, Idle, At
<1>17. CASE UNCHANGED vars
  BY <1>17 DEF vars
<1> QED
  BY <1>1, <1>2, <1>3, <1>4, <1>5, <1>6, <1>7, <1>8, <1>9, <1>10, <1>11, <1>12,
     <1>13, <1>14, <1>15, <1>16, <1>17 DEF Next, WorkerStep

(* With recovery at boot only, a version being extracted has one owner. *)
LEMMA Ownership == ~PeriodicRecovery /\ Spec => []OwnershipInv
<1> SUFFICES ASSUME ~PeriodicRecovery PROVE Spec => []OwnershipInv
  OBVIOUS
<1>1. Init => OwnershipInv
  BY DEF Init, OwnershipInv, SoleExtractor, Extracting, Idle, At
<1>2. TypeOK /\ DownInv /\ OwnershipInv /\ [Next]_vars => OwnershipInv'
  BY OwnershipPreserved
<1> QED
  BY <1>1, <1>2, TypeCorrect, DownIsEmpty, PTL DEF Spec

(* With recovery at boot only, at most one thread extracts a version,      *)
(* whatever the mode, the number of workers and the administrators do.     *)
THEOREM ExtractorIsSole == ~PeriodicRecovery /\ Spec => []SoleExtractor
<1>1. OwnershipInv => SoleExtractor
  BY DEF OwnershipInv
<1> QED
  BY <1>1, Ownership, PTL

-----------------------------------------------------------------------------
(* The review gate.                                                        *)
GateStep ==
    \A v \in Versions :
       status[v] \in BehindReviewGate =>
          status'[v] \notin StuckStates \cup {"FAILED", "EXTRACTED"}

(* No step of the pipeline writes an extraction status over a reviewed one. *)
LEMMA GatePreserved ==
    ASSUME TypeOK, OwnershipInv, [Next]_vars
    PROVE  GateStep
<1> USE DEF GateStep, BehindReviewGate, StuckStates
<1>1. ASSUME NEW v \in Versions, Upload(v) PROVE GateStep
  BY <1>1 DEF Upload, TypeOK
<1>2. ASSUME NEW v \in Versions, Review(v) PROVE GateStep
  BY <1>2 DEF Review, TypeOK
<1>3. ASSUME NEW v \in Versions, Purge(v) PROVE GateStep
  BY <1>3 DEF Purge, TypeOK
<1>4. ASSUME NEW v \in Versions, ScanMarkFailed(v) PROVE GateStep
  BY <1>4 DEF ScanMarkFailed, OwnershipInv
<1>5. ASSUME NEW v \in Versions, NEW r \in Requests, Enqueue(r, v) PROVE GateStep
  BY <1>5, PredecessorFacts DEF Enqueue, GuardedWrite, TypeOK
<1>6. ASSUME NEW w \in Workers, BeginExtract(w) PROVE GateStep
  BY <1>6, JobFacts, PredecessorFacts DEF BeginExtract, GuardedWrite, TypeOK, Busy
<1>7. ASSUME NEW w \in Workers, ParseFails(w) PROVE GateStep
  BY <1>7, JobFacts DEF ParseFails, WriteFailed, OwnershipInv, Extracting, TypeOK, Busy
<1>8. ASSUME NEW w \in Workers, Publish(w) PROVE GateStep
  BY <1>8, JobFacts, PredecessorFacts DEF Publish, GuardedWrite, TypeOK, Busy
<1>9. CASE Boot
  BY <1>9 DEF Boot, Recoverable, Stuck, TypeOK
<1>10. CASE UNCHANGED status
  BY <1>10
<1>11. ASSUME NEW v \in Versions, NEW w \in Workers, StartInline(w, v) PROVE UNCHANGED status
  BY <1>11 DEF StartInline, catalog
<1>12. ASSUME NEW r \in Requests, RequestStep(r) PROVE UNCHANGED status
  BY <1>12 DEF RequestStep, FindRoom, Refuse, Put, catalog
<1>13. ASSUME NEW w \in Workers,
              SeeEmpty(w) \/ Park(w) \/ Dequeue(w) \/ SaveRaw(w) \/ AbortJob(w)
       PROVE  UNCHANGED status
  BY <1>13 DEF SeeEmpty, Park, Dequeue, SaveRaw, AbortJob, catalog
<1>14. ASSUME NEW f \in Families, SetArchived(f) \/ PurgeStart(f) PROVE UNCHANGED status
  BY <1>14 DEF SetArchived, PurgeStart, catalog
<1>15. CASE ScanStart \/ Crash \/ UNCHANGED vars
  BY <1>15 DEF ScanStart, Crash, catalog, vars
<1>16. ASSUME NEW v \in Versions, ScanSkip(v) PROVE UNCHANGED status
  BY <1>16 DEF ScanSkip, catalog
<1> QED
  BY <1>1, <1>2, <1>3, <1>4, <1>5, <1>6, <1>7, <1>8, <1>9, <1>10, <1>11, <1>12,
     <1>13, <1>14, <1>15, <1>16 DEF Next, WorkerStep

(* With recovery at boot only, no leftover of the extraction pipeline ever *)
(* throws a version in review, or decided, back.                           *)
THEOREM GateHolds == ~PeriodicRecovery /\ Spec => ReviewGateHolds
<1>1. TypeOK /\ OwnershipInv /\ [Next]_vars => [GateStep]_vars
  BY GatePreserved
<1> QED
  BY <1>1, TypeCorrect, Ownership, PTL DEF Spec, ReviewGateHolds, GateStep

-----------------------------------------------------------------------------
(* Nothing in flight is forgotten.                                         *)

(* What is on the queue after a put, and after a get. *)
LEMMA PutKeepsJobs ==
    ASSUME TypeOK, NEW v \in Versions, NEW u \in Versions, queue' = Append(queue, u)
    PROVE  OnQueue(v)' <=> OnQueue(v) \/ u = v
<1>1. queue \in Seq(Versions)
  BY DEF TypeOK
<1>2. /\ Len(queue') = Len(queue) + 1 /\ Len(queue) \in Nat
      /\ \A i \in 1..Len(queue) : queue'[i] = queue[i]
      /\ queue'[Len(queue) + 1] = u
  BY <1>1
<1> QED
  BY <1>2 DEF OnQueue

(* A get takes the first job, and no other version's. *)
LEMMA GetKeepsOthers ==
    ASSUME TypeOK, NEW v \in Versions, queue # <<>>, queue' = Tail(queue), OnQueue(v)
    PROVE  OnQueue(v)' \/ v = Head(queue)
<1>1. queue \in Seq(Versions)
  BY DEF TypeOK
<1>2. PICK i \in 1..Len(queue) : queue[i] = v
  BY DEF OnQueue
<1>3. CASE i = 1
  BY <1>1, <1>2, <1>3
<1>4. CASE i # 1
  <2>1. i - 1 \in 1..Len(queue') /\ queue'[i - 1] = v
    BY <1>1, <1>2, <1>4
  <2> QED
    BY <2>1 DEF OnQueue
<1> QED
  BY <1>3, <1>4

(* The invariant of one version. *)
Accounted(v) ==
    up /\ lost[v] = "no" =>
       /\ status[v] = "QUEUED_FOR_EXTRACTION" => Waiting(v)
       /\ status[v] = "EXTRACTING" => \E w \in Workers : Extracting(w, v)

(* A step that leaves one version's status and mark alone, and takes it    *)
(* out of nobody's hands, leaves it accounted for.                         *)
LEMMA AccountedFrame ==
    ASSUME NEW v \in Versions, Accounted(v), up' => up, lost'[v] = "no" => lost[v] = "no",
           status'[v] \in StuckStates => status'[v] = status[v],
           Waiting(v) => Waiting(v)',
           \A w \in Workers : Extracting(w, v) => \E x \in Workers : Extracting(x, v)'
    PROVE  Accounted(v)'
  BY DEF Accounted, StuckStates

(* Every step leaves a version settled, in somebody's hands, or lost. *)
LEMMA AccountedPreserved ==
    ASSUME TypeOK, DownInv, NEW v \in Versions, Accounted(v), [Next]_vars
    PROVE  Accounted(v)'
<1>1. ASSUME NEW u \in Versions, Upload(u) \/ Review(u) \/ Purge(u) PROVE Accounted(v)'
  <2>1. UNCHANGED <<up, lost, queue, putting, job>>
    BY <1>1 DEF Upload, Review, Purge, memory
  <2>2. status'[v] \in StuckStates => status'[v] = status[v]
    BY <1>1 DEF Upload, Review, Purge, TypeOK, StuckStates, BehindReviewGate
  <2> QED
    BY <2>1, <2>2, AccountedFrame DEF Waiting, OnQueue, Extracting
<1>2. ASSUME NEW u \in Versions, ScanMarkFailed(u) PROVE Accounted(v)'
  <2>1. UNCHANGED <<up, queue, putting, job>> /\ status'[v] \in {status[v], "FAILED"}
    BY <1>2 DEF ScanMarkFailed, WriteFailed, TypeOK
  <2>2. status'[v] = "FAILED" \/ lost'[v] = lost[v]
    BY <1>2 DEF ScanMarkFailed, WriteFailed, Owned, TypeOK
  <2> QED
    BY <2>1, <2>2 DEF Accounted, Waiting, OnQueue, Extracting
<1>3. ASSUME NEW u \in Versions, ScanSkip(u) PROVE Accounted(v)'
  BY <1>3 DEF ScanSkip, catalog, Accounted, Waiting, OnQueue, Extracting
<1>4. ASSUME NEW u \in Versions, NEW r \in Requests, Enqueue(r, u) PROVE Accounted(v)'
  <2>1. CASE u = v
    <3>1. status'[v] = "QUEUED_FOR_EXTRACTION" /\ putting'[r] = v
      BY <1>4, <2>1 DEF Enqueue, GuardedWrite, TypeOK
    <3> QED
      BY <3>1 DEF Accounted, Waiting
  <2>2. CASE u # v
    <3>1. /\ status'[v] = status[v] /\ lost'[v] = lost[v]
          /\ UNCHANGED <<up, queue, job>>
      BY <1>4, <2>2 DEF Enqueue, GuardedWrite, Owned, TypeOK
    <3>2. \A q \in Requests : putting[q] = v => putting'[q] = v
      BY <1>4, PipelineAssumption DEF Enqueue, TypeOK, PipelineAssumption
    <3> QED
      BY <3>1, <3>2, AccountedFrame DEF Waiting, OnQueue, Extracting
  <2> QED
    BY <2>1, <2>2
<1>5. ASSUME NEW u \in Versions, NEW w \in Workers, StartInline(w, u) PROVE Accounted(v)'
  <2>1. UNCHANGED <<status, up, lost, queue, putting>>
    BY <1>5 DEF StartInline, catalog
  <2>2. \A x \in Workers : job[x].stage \in Busy => job'[x] = job[x]
    BY <1>5 DEF StartInline, TypeOK, Idle, At, Busy
  <2>3. Waiting(v) => Waiting(v)'
    BY <2>1, <2>2 DEF Waiting, OnQueue, Busy
  <2>4. \A x \in Workers : Extracting(x, v) => Extracting(x, v)'
    BY <2>2 DEF Extracting, Busy
  <2> QED
    BY <2>1, <2>3, <2>4, AccountedFrame
<1>6. ASSUME NEW r \in Requests, FindRoom(r) PROVE Accounted(v)'
  BY <1>6 DEF FindRoom, catalog, Accounted, Waiting, OnQueue, Extracting
<1>7. ASSUME NEW r \in Requests, Refuse(r) PROVE Accounted(v)'
  <2>1. UNCHANGED <<status, up, queue, job>>
    BY <1>7 DEF Refuse, catalog
  <2>2. CASE putting[r] = v
    BY <1>7, <2>2 DEF Refuse, TypeOK, Accounted
  <2>3. CASE putting[r] # v
    <3>1. lost'[v] = lost[v] /\ \A q \in Requests : putting[q] = v => putting'[q] = v
      BY <1>7, <2>3 DEF Refuse, TypeOK
    <3> QED
      BY <2>1, <3>1, AccountedFrame DEF Waiting, OnQueue, Extracting
  <2> QED
    BY <2>2, <2>3
<1>8. ASSUME NEW r \in Requests, Put(r) PROVE Accounted(v)'
  <2>1. UNCHANGED <<status, up, lost>>
    BY <1>8 DEF Put, catalog
  <2>2. putting[r] \in Versions /\ queue' = Append(queue, putting[r])
    BY <1>8 DEF Put, TypeOK
  <2>3. \A q \in Requests : putting[q] = v => putting'[q] = v \/ q = r
    BY <1>8 DEF Put, TypeOK
  <2>4. OnQueue(v)' <=> OnQueue(v) \/ putting[r] = v
    BY <2>2, PutKeepsJobs
  <2>5. \A w \in Workers : job[w].stage \in Busy => job'[w] = job[w]
    BY <1>8 DEF Put, TypeOK, Busy
  <2>6. Waiting(v) => Waiting(v)'
    <3>1. ASSUME NEW q \in Requests, putting[q] = v PROVE Waiting(v)'
      BY <2>3, <2>4, <3>1 DEF Waiting
    <3>2. ASSUME NEW w \in Workers, job[w] = [stage |-> "claimed", version |-> v]
          PROVE  Waiting(v)'
      BY <2>5, <3>2 DEF Waiting, Busy
    <3> QED
      BY <2>4, <3>1, <3>2 DEF Waiting
  <2>7. \A w \in Workers : Extracting(w, v) => Extracting(w, v)'
    BY <2>5 DEF Extracting, Busy
  <2> QED
    BY <2>1, <2>6, <2>7, AccountedFrame
<1>9. ASSUME NEW w \in Workers, SeeEmpty(w) \/ Park(w) PROVE Accounted(v)'
  <2>1. UNCHANGED <<status, up, lost, queue, putting>>
    BY <1>9 DEF SeeEmpty, Park, catalog
  <2>2. \A x \in Workers : job[x].stage \in Busy => job'[x] = job[x]
    BY <1>9 DEF SeeEmpty, Park, TypeOK, Idle, At, Busy
  <2>3. Waiting(v) => Waiting(v)'
    BY <2>1, <2>2 DEF Waiting, OnQueue, Busy
  <2>4. \A x \in Workers : Extracting(x, v) => Extracting(x, v)'
    BY <2>2 DEF Extracting, Busy
  <2> QED
    BY <2>1, <2>3, <2>4, AccountedFrame
<1>10. ASSUME NEW w \in Workers, Dequeue(w) PROVE Accounted(v)'
  <2>1. UNCHANGED <<status, up, lost, putting>>
    BY <1>10 DEF Dequeue, catalog
  <2>2. \A x \in Workers : job[x].stage \in Busy => job'[x] = job[x]
    BY <1>10 DEF Dequeue, TypeOK, Idle, At, Busy
  <2>3. job'[w] = [stage |-> "claimed", version |-> Head(queue)]
    BY <1>10 DEF Dequeue, TypeOK
  <2>4. OnQueue(v) => OnQueue(v)' \/ v = Head(queue)
    BY <1>10, GetKeepsOthers DEF Dequeue
  <2>5. Waiting(v) => Waiting(v)'
    <3>1. ASSUME OnQueue(v) PROVE Waiting(v)'
      BY <2>3, <2>4, <3>1 DEF Waiting
    <3>2. ASSUME NEW x \in Workers, job[x] = [stage |-> "claimed", version |-> v]
          PROVE  Waiting(v)'
      BY <2>2, <3>2 DEF Waiting, Busy
    <3> QED
      BY <2>1, <3>1, <3>2 DEF Waiting
  <2>6. \A x \in Workers : Extracting(x, v) => Extracting(x, v)'
    BY <2>2 DEF Extracting, Busy
  <2> QED
    BY <2>1, <2>5, <2>6, AccountedFrame
<1>11. ASSUME NEW w \in Workers, BeginExtract(w) PROVE Accounted(v)'
  <2>1. UNCHANGED <<up, queue, putting>>
    BY <1>11 DEF BeginExtract
  <2>2. \A x \in Workers : x # w => job'[x] = job[x]
    BY <1>11 DEF BeginExtract, TypeOK
  <2>3. job[w].stage = "claimed" /\ job[w].version \in Versions
    BY <1>11, JobFacts DEF BeginExtract, Busy
  <2>4. CASE job[w].version # v
    <3>1. status'[v] = status[v] /\ lost'[v] = lost[v]
      BY <1>11, <2>3, <2>4 DEF BeginExtract, GuardedWrite, Owned, TypeOK
    <3>2. Waiting(v) => Waiting(v)'
      BY <2>1, <2>2, <2>4 DEF Waiting, OnQueue
    <3>3. \A x \in Workers : Extracting(x, v) => Extracting(x, v)'
      BY <2>2, <2>4 DEF Extracting
    <3> QED
      BY <2>1, <3>1, <3>2, <3>3, AccountedFrame
  <2>5. CASE job[w].version = v /\ GuardedWrite(v, "EXTRACTING")
    <3>1. status'[v] = "EXTRACTING"
      BY <2>5 DEF GuardedWrite, TypeOK
    <3>2. CASE job' = [job EXCEPT ![w].stage = "parsing"]
      <4>1. job'[w].version = v /\ job'[w].stage = "parsing"
        BY <3>2, <2>5, JobFacts DEF TypeOK, Shapes
      <4> QED
        BY <3>1, <4>1 DEF Accounted, Extracting
    <3>3. CASE status[v] \notin AllowedPredecessors("EXTRACTING")
      BY <2>5, <3>3 DEF GuardedWrite
    <3> QED
      BY <1>11, <2>5, <3>2, <3>3 DEF BeginExtract
  <2>6. CASE job[w].version = v /\ status[v] \notin AllowedPredecessors("EXTRACTING")
    <3>1. UNCHANGED <<status, lost>>
      BY <1>11, <2>6 DEF BeginExtract, GuardedWrite
    <3>2. status[v] # "QUEUED_FOR_EXTRACTION"
      BY <2>6, PredecessorFacts
    <3>3. \A x \in Workers : Extracting(x, v) => Extracting(x, v)'
      BY <2>2, <2>3 DEF Extracting
    <3> QED
      BY <2>1, <3>1, <3>2, <3>3 DEF Accounted
  <2> QED
    BY <1>11, <2>4, <2>5, <2>6 DEF BeginExtract
<1>12. ASSUME NEW w \in Workers, ParseFails(w) PROVE Accounted(v)'
  <2>1. UNCHANGED <<up, queue, putting>>
    BY <1>12 DEF ParseFails
  <2>2. \A x \in Workers : x # w => job'[x] = job[x]
    BY <1>12 DEF ParseFails, TypeOK
  <2>3. CASE job[w].version = v
    BY <1>12, <2>3 DEF ParseFails, WriteFailed, TypeOK, Accounted
  <2>4. CASE job[w].version # v
    <3>1. status'[v] = status[v] /\ lost'[v] = lost[v]
      BY <1>12, <2>4 DEF ParseFails, WriteFailed, Owned, TypeOK
    <3>2. Waiting(v) => Waiting(v)'
      BY <2>1, <2>2, <2>4 DEF Waiting, OnQueue
    <3>3. \A x \in Workers : Extracting(x, v) => Extracting(x, v)'
      BY <2>2, <2>4 DEF Extracting
    <3> QED
      BY <2>1, <3>1, <3>2, <3>3, AccountedFrame
  <2> QED
    BY <2>3, <2>4
<1>13. ASSUME NEW w \in Workers, SaveRaw(w) PROVE Accounted(v)'
  <2>1. UNCHANGED <<status, up, lost, queue, putting>>
    BY <1>13 DEF SaveRaw
  <2>2. /\ \A x \in Workers : x # w => job'[x] = job[x]
        /\ job[w].stage = "parsing" /\ job'[w].stage = "publishing"
        /\ job'[w].version = job[w].version
    BY <1>13, JobFacts DEF SaveRaw, TypeOK, Shapes
  <2>3. Waiting(v) => Waiting(v)'
    BY <2>1, <2>2 DEF Waiting, OnQueue
  <2>4. \A x \in Workers : Extracting(x, v) => Extracting(x, v)'
    BY <2>2 DEF Extracting
  <2> QED
    BY <2>1, <2>3, <2>4, AccountedFrame
<1>14. ASSUME NEW w \in Workers, Publish(w) PROVE Accounted(v)'
  <2>1. UNCHANGED <<up, lost, queue, putting>>
    BY <1>14 DEF Publish
  <2>2. \A x \in Workers : x # w => job'[x] = job[x]
    BY <1>14 DEF Publish, TypeOK
  <2>3. Waiting(v) => Waiting(v)'
    BY <1>14, <2>1, <2>2 DEF Waiting, OnQueue, Publish
  <2>4. CASE job[w].version = v
    <3>1. status'[v] # "EXTRACTING" /\ (status'[v] = status[v] \/ status'[v] = "EXTRACTED")
      BY <1>14, <2>4, PredecessorFacts DEF Publish, GuardedWrite, TypeOK
    <3> QED
      BY <2>1, <2>3, <3>1 DEF Accounted
  <2>5. CASE job[w].version # v
    <3>1. status'[v] = status[v]
      BY <1>14, <2>5 DEF Publish, GuardedWrite, TypeOK
    <3> QED
      BY <2>1, <2>2, <2>3, <2>5, <3>1, AccountedFrame DEF Extracting
  <2> QED
    BY <2>4, <2>5
<1>15. ASSUME NEW w \in Workers, AbortJob(w) PROVE Accounted(v)'
  <2>1. UNCHANGED <<status, up, queue, putting>>
    BY <1>15 DEF AbortJob, catalog
  <2>2. CASE job[w].version = v
    BY <1>15, <2>2 DEF AbortJob, TypeOK, Accounted
  <2>3. CASE job[w].version # v
    <3>1. lost'[v] = lost[v] /\ \A x \in Workers : x # w => job'[x] = job[x]
      BY <1>15, <2>3 DEF AbortJob, TypeOK
    <3>2. Waiting(v) => Waiting(v)'
      BY <2>1, <2>3, <3>1 DEF Waiting, OnQueue
    <3>3. \A x \in Workers : Extracting(x, v) => Extracting(x, v)'
      BY <2>3, <3>1 DEF Extracting
    <3> QED
      BY <2>1, <3>1, <3>2, <3>3, AccountedFrame
  <2> QED
    BY <2>2, <2>3
<1>16. ASSUME NEW f \in Families, SetArchived(f) \/ PurgeStart(f) PROVE Accounted(v)'
  BY <1>16 DEF SetArchived, PurgeStart, catalog, memory, Accounted, Waiting, OnQueue, Extracting
<1>17. CASE ScanStart
  BY <1>17 DEF ScanStart, catalog, Accounted, Waiting, OnQueue, Extracting
<1>18. CASE Crash
  BY <1>18 DEF Crash, Accounted
<1>19. CASE Boot
  <2>1. status'[v] = "FAILED" \/ (status'[v] = status[v] /\ lost'[v] = lost[v])
    BY <1>19 DEF Boot
  <2>2. Stuck(v) => lost[v] # "no"
    BY <1>19 DEF Boot, DownInv
  <2> QED
    BY <2>1, <2>2 DEF Accounted, Stuck, StuckStates
<1>20. CASE UNCHANGED vars
  BY <1>20 DEF vars, Accounted, Waiting, OnQueue, Extracting
<1> QED
  BY <1>1, <1>2, <1>3, <1>4, <1>5, <1>6, <1>7, <1>8, <1>9, <1>10, <1>11, <1>12, <1>13,
     <1>14, <1>15, <1>16, <1>17, <1>18, <1>19, <1>20 DEF Next, RequestStep, WorkerStep

(* Under every setting, the periodic scan and administrators included, a    *)
(* version in flight is in somebody's hands, or its loss is one of the      *)
(* three the code is known to cause.                                       *)
THEOREM InFlightIsAccounted == Spec => []InFlightAccounted
<1>1. Init => InFlightAccounted
  BY DEF Init, InFlightAccounted
<1>2. InFlightAccounted <=> \A v \in Versions : Accounted(v)
  BY DEF InFlightAccounted, Accounted
<1>3. InFlightAccounted' <=> \A v \in Versions : Accounted(v)'
  BY DEF InFlightAccounted, Accounted
<1>4. TypeOK /\ DownInv /\ InFlightAccounted /\ [Next]_vars => InFlightAccounted'
  BY <1>2, <1>3, AccountedPreserved
<1> QED
  BY <1>1, <1>4, TypeCorrect, DownIsEmpty, PTL DEF Spec

-----------------------------------------------------------------------------
(* One job per version.                                                    *)

Putting(v) == \E r \in Requests : putting[r] = v
Working(v) == \E w \in Workers : job[w].version = v
Held(v)    == Putting(v) \/ OnQueue(v) \/ Working(v)

(* A version has one job, in one place, and its status is not one from     *)
(* which a route may enqueue it again: between the job's submission and    *)
(* its end the status is changed by the job itself, or by a purge.         *)
SoleJob(v) ==
    /\ \A r, q \in Requests : putting[r] = v /\ putting[q] = v => r = q
    /\ \A i, j \in 1..Len(queue) : queue[i] = v /\ queue[j] = v => i = j
    /\ \A w, x \in Workers : job[w].version = v /\ job[x].version = v => w = x
    /\ ~(Putting(v) /\ OnQueue(v))
    /\ ~(Putting(v) /\ Working(v))
    /\ ~(OnQueue(v) /\ Working(v))
    /\ Held(v) => status[v] \in {"QUEUED_FOR_EXTRACTION", "EXTRACTING", "PURGED"}

(* Inline, a version may be extracted by several requests at once. *)
JobsInv == ~inline => \A v \in Versions : SoleJob(v)

(* A step that adds no job for a version keeps its job the only one. *)
LEMMA SoleJobFrame ==
    ASSUME NEW v \in Versions, SoleJob(v), UNCHANGED queue,
           \A r \in Requests : putting'[r] = v => putting[r] = v,
           \A w \in Workers : job'[w].version = v => job[w].version = v,
           Held(v)' => status'[v] \in {status[v], "EXTRACTING", "PURGED"}
    PROVE  SoleJob(v)'
<1>1. Putting(v)' => Putting(v)
  BY DEF Putting
<1>2. Working(v)' => Working(v)
  BY DEF Working
<1>3. OnQueue(v)' <=> OnQueue(v)
  BY DEF OnQueue
<1>4. Held(v)' => Held(v)
  BY <1>1, <1>2, <1>3 DEF Held
<1> QED
  BY <1>1, <1>2, <1>3, <1>4 DEF SoleJob

(* A step that ends the only job of a version leaves it without one. *)
LEMMA SoleJobEnds ==
    ASSUME NEW v \in Versions, SoleJob(v), UNCHANGED <<queue, putting>>,
           NEW w \in Workers, job[w].version = v, job'[w].version # v,
           \A x \in Workers : x # w => job'[x] = job[x]
    PROVE  SoleJob(v)'
<1>1. ~Putting(v) /\ ~OnQueue(v)
  BY DEF SoleJob, Working
<1>2. ~Putting(v)' /\ ~OnQueue(v)'
  BY <1>1 DEF Putting, OnQueue
<1>3. ~Working(v)'
  BY DEF Working, SoleJob
<1> QED
  BY <1>2, <1>3 DEF SoleJob, Held, Putting, OnQueue, Working

(* What a step of one worker does to the versions the workers hold. *)
LEMMA OneJobChanges ==
    ASSUME TypeOK, NEW w \in Workers, NEW stage
    PROVE  /\ job' = [job EXCEPT ![w] = At(stage)] =>
                 /\ job'[w].version = NoVersion
                 /\ \A x \in Workers : x # w => job'[x] = job[x]
           /\ job' = [job EXCEPT ![w].stage = stage] =>
                 /\ job'[w].version = job[w].version
                 /\ \A x \in Workers : x # w => job'[x] = job[x]
<1>1. job \in [Workers -> Shapes]
  BY DEF TypeOK, Shapes
<1>2. At(stage).version = NoVersion
  BY DEF At
<1>3. job[w] \in Shapes => [job[w] EXCEPT !.stage = stage].version = job[w].version
  BY DEF Shapes
<1> QED
  BY <1>1, <1>2, <1>3

(* A job is submitted for a version that has none. *)
LEMMA EnqueueKeepsSole ==
    ASSUME TypeOK, NEW v \in Versions, SoleJob(v),
           NEW r \in Requests, NEW u \in Versions, Enqueue(r, u)
    PROVE  SoleJob(v)'
<1>1. UNCHANGED <<queue, job>> /\ putting' = [putting EXCEPT ![r] = u]
  BY DEF Enqueue
<1>2. CASE u = v
  <2>1. ~Held(v)
    BY <1>2, PredecessorFacts DEF Enqueue, GuardedWrite, SoleJob
  <2>2. ~OnQueue(v)' /\ ~Working(v)'
    BY <1>1, <2>1 DEF Held, OnQueue, Working
  <2>3. \A q \in Requests : putting'[q] = v => q = r
    BY <1>1, <2>1 DEF TypeOK, Held, Putting
  <2>4. status'[v] = "QUEUED_FOR_EXTRACTION"
    BY <1>2 DEF Enqueue, GuardedWrite, TypeOK
  <2> QED
    BY <2>2, <2>3, <2>4 DEF SoleJob, OnQueue, Working
<1>3. CASE u # v
  <2>1. status'[v] = status[v]
    BY <1>3 DEF Enqueue, GuardedWrite, TypeOK
  <2>2. \A q \in Requests : putting'[q] = v => putting[q] = v
    BY <1>1, <1>3 DEF TypeOK
  <2> QED
    BY <1>1, <2>1, <2>2, SoleJobFrame
<1> QED
  BY <1>2, <1>3

(* The job moves from its request thread to the queue ... *)
LEMMA PutKeepsSole ==
    ASSUME TypeOK, NEW v \in Versions, SoleJob(v), NEW r \in Requests, Put(r)
    PROVE  SoleJob(v)'
<1>1. /\ putting[r] \in Versions /\ queue' = Append(queue, putting[r])
      /\ putting' = [putting EXCEPT ![r] = NoVersion] /\ UNCHANGED status
  BY DEF Put, TypeOK, catalog
<1>2. queue \in Seq(Versions) /\ Len(queue) \in Nat
  BY DEF TypeOK
<1>3. /\ Len(queue') = Len(queue) + 1
      /\ \A i \in 1..Len(queue) : queue'[i] = queue[i]
      /\ queue'[Len(queue) + 1] = putting[r]
  BY <1>1, <1>2
<1>4. \A w \in Workers : job'[w].version = v => job[w].version = v
  <2>1. UNCHANGED job \/ \E x \in Workers : job' = [job EXCEPT ![x] = At("idle")]
    BY DEF Put, Idle
  <2> QED
    BY <2>1, OneJobChanges, PipelineAssumption DEF PipelineAssumption
<1>5. Working(v)' => Working(v)
  BY <1>4 DEF Working
<1>6. OnQueue(v)' <=> OnQueue(v) \/ putting[r] = v
  BY <1>1, PutKeepsJobs
<1>7. \A w, x \in Workers : job'[w].version = v /\ job'[x].version = v => w = x
  BY <1>4 DEF SoleJob
<1>8. CASE putting[r] = v
  <2>1. ~OnQueue(v) /\ ~Working(v)
    BY <1>8 DEF SoleJob, Putting
  <2>2. ~Putting(v)'
    BY <1>1, <1>8, PipelineAssumption DEF SoleJob, Putting, TypeOK, PipelineAssumption
  <2>3. \A i \in 1..Len(queue') : queue'[i] = v => i = Len(queue) + 1
    BY <1>2, <1>3, <2>1 DEF OnQueue
  <2>4. \A i, j \in 1..Len(queue') : queue'[i] = v /\ queue'[j] = v => i = j
    BY <2>3
  <2>5. Held(v)
    BY <1>8 DEF Held, Putting
  <2> QED
    BY <1>1, <1>5, <1>7, <2>1, <2>2, <2>4, <2>5 DEF SoleJob, Putting
<1>9. CASE putting[r] # v
  <2>1. \A q \in Requests : putting'[q] = v => putting[q] = v
    BY <1>1, <1>9, PipelineAssumption DEF TypeOK, PipelineAssumption
  <2>2. Putting(v)' => Putting(v)
    BY <2>1 DEF Putting
  <2>3. \A q, p \in Requests : putting'[q] = v /\ putting'[p] = v => q = p
    BY <2>1 DEF SoleJob
  <2>4. \A i \in 1..Len(queue') : queue'[i] = v => i \in 1..Len(queue) /\ queue[i] = v
    BY <1>2, <1>3, <1>9
  <2>5. \A i, j \in 1..Len(queue') : queue'[i] = v /\ queue'[j] = v => i = j
    BY <2>4 DEF SoleJob
  <2>6. Held(v)' => Held(v)
    BY <1>5, <1>6, <1>9, <2>2 DEF Held
  <2> QED
    BY <1>1, <1>5, <1>6, <1>7, <1>9, <2>2, <2>3, <2>5, <2>6 DEF SoleJob
<1> QED
  BY <1>8, <1>9

(* ... and from the queue to a worker. *)
LEMMA DequeueKeepsSole ==
    ASSUME TypeOK, NEW v \in Versions, SoleJob(v), NEW w \in Workers, Dequeue(w)
    PROVE  SoleJob(v)'
<1>1. /\ queue # <<>> /\ queue' = Tail(queue) /\ UNCHANGED <<status, putting>>
      /\ job' = [job EXCEPT ![w] = [stage |-> "claimed", version |-> Head(queue)]]
  BY DEF Dequeue, catalog
<1>2. queue \in Seq(Versions) /\ Len(queue) \in Nat \ {0} /\ Head(queue) = queue[1]
  BY <1>1 DEF TypeOK
<1>3. /\ Len(queue') = Len(queue) - 1
      /\ \A i \in 1..Len(queue') : i + 1 \in 1..Len(queue) /\ queue'[i] = queue[i + 1]
  BY <1>1, <1>2
<1>4. Putting(v)' <=> Putting(v)
  BY <1>1 DEF Putting
<1>5. OnQueue(v)' => OnQueue(v)
  BY <1>3 DEF OnQueue
<1>6. \A i, j \in 1..Len(queue') : queue'[i] = v /\ queue'[j] = v => i = j
  <2> SUFFICES ASSUME NEW i \in 1..Len(queue'), NEW j \in 1..Len(queue'),
                      queue'[i] = v, queue'[j] = v
               PROVE  i = j
    OBVIOUS
  <2>1. i + 1 = j + 1
    BY <1>3 DEF SoleJob
  <2> QED
    BY <2>1
<1>7. /\ job'[w].version = Head(queue)
      /\ \A x \in Workers : x # w => job'[x] = job[x]
  BY <1>1 DEF TypeOK
<1>8. CASE Head(queue) = v
  <2>1. OnQueue(v)
    BY <1>2, <1>8 DEF OnQueue
  <2>2. ~Putting(v) /\ ~Working(v) /\ Held(v)
    BY <2>1 DEF SoleJob, Held
  <2>3. ~OnQueue(v)'
    <3> SUFFICES ASSUME NEW i \in 1..Len(queue'), queue'[i] = v PROVE FALSE
      BY DEF OnQueue
    <3>1. i + 1 \in 1..Len(queue) /\ 1 \in 1..Len(queue)
      BY <1>2, <1>3
    <3>2. queue[i + 1] = v /\ queue[1] = v
      BY <1>2, <1>3, <1>8
    <3>3. i + 1 = 1
      BY <3>1, <3>2 DEF SoleJob
    <3> QED
      BY <3>3, <1>3
  <2>4. \A x \in Workers : job'[x].version = v => x = w
    BY <1>7, <2>2 DEF Working
  <2>5. \A r, q \in Requests : putting'[r] = v /\ putting'[q] = v => r = q
    BY <1>1 DEF SoleJob
  <2> QED
    BY <1>1, <1>4, <1>6, <2>2, <2>3, <2>4, <2>5 DEF SoleJob
<1>9. CASE Head(queue) # v
  <2>1. \A x \in Workers : job'[x].version = v => job[x].version = v
    BY <1>7, <1>9
  <2>2. Working(v)' => Working(v)
    BY <2>1 DEF Working
  <2>3. Held(v)' => Held(v)
    BY <1>4, <1>5, <2>2 DEF Held
  <2>4. \A r, q \in Requests : putting'[r] = v /\ putting'[q] = v => r = q
    BY <1>1 DEF SoleJob
  <2>5. \A x, y \in Workers : job'[x].version = v /\ job'[y].version = v => x = y
    BY <2>1 DEF SoleJob
  <2> QED
    BY <1>1, <1>4, <1>5, <1>6, <2>2, <2>3, <2>4, <2>5 DEF SoleJob
<1> QED
  BY <1>8, <1>9

(* No step of a queued deployment gives a version a second job. *)
LEMMA SoleJobPreserved ==
    ASSUME ~PeriodicRecovery, TypeOK, OwnershipInv, ~inline, up,
           NEW v \in Versions, SoleJob(v), [Next]_vars
    PROVE  SoleJob(v)'
<1> USE PipelineAssumption DEF PipelineAssumption
<1>1. ASSUME NEW u \in Versions, Upload(u) \/ Review(u) \/ Purge(u) PROVE SoleJob(v)'
  <2>1. UNCHANGED <<queue, putting, job>>
    BY <1>1 DEF Upload, Review, Purge, memory
  <2>2. Held(v)' <=> Held(v)
    BY <2>1 DEF Held, Putting, OnQueue, Working
  <2>3. Held(v) => status'[v] \in {status[v], "PURGED"}
    BY <1>1 DEF Upload, Review, Purge, TypeOK, SoleJob
  <2> QED
    BY <2>1, <2>2, <2>3, SoleJobFrame
<1>2. ASSUME NEW u \in Versions, ScanMarkFailed(u) \/ ScanSkip(u) PROVE SoleJob(v)'
  BY <1>2 DEF ScanMarkFailed, ScanSkip, OwnershipInv
<1>3. ASSUME NEW u \in Versions, NEW r \in Requests, Enqueue(r, u) PROVE SoleJob(v)'
  BY <1>3, EnqueueKeepsSole
<1>4. ASSUME NEW u \in Versions, NEW w \in Workers, StartInline(w, u) PROVE SoleJob(v)'
  BY <1>4 DEF StartInline
<1>5. ASSUME NEW r \in Requests, FindRoom(r) \/ Refuse(r) PROVE SoleJob(v)'
  <2>1. UNCHANGED <<status, queue, job>>
    BY <1>5 DEF FindRoom, Refuse, catalog
  <2>2. \A q \in Requests : putting'[q] = v => putting[q] = v
    BY <1>5 DEF FindRoom, Refuse, TypeOK
  <2> QED
    BY <2>1, <2>2, SoleJobFrame
<1>6. ASSUME NEW r \in Requests, Put(r) PROVE SoleJob(v)'
  BY <1>6, PutKeepsSole
<1>7. ASSUME NEW w \in Workers, SeeEmpty(w) \/ Park(w) PROVE SoleJob(v)'
  <2>1. UNCHANGED <<status, queue, putting>>
    BY <1>7 DEF SeeEmpty, Park, catalog
  <2>2. \A x \in Workers : job'[x].version = v => job[x].version = v
    BY <1>7, OneJobChanges DEF SeeEmpty, Park
  <2> QED
    BY <2>1, <2>2, SoleJobFrame
<1>8. ASSUME NEW w \in Workers, Dequeue(w) PROVE SoleJob(v)'
  BY <1>8, DequeueKeepsSole
<1>9. ASSUME NEW w \in Workers, BeginExtract(w) PROVE SoleJob(v)'
  <2>1. UNCHANGED <<queue, putting>>
    BY <1>9 DEF BeginExtract
  <2>2. \A x \in Workers : job'[x].version = v => job[x].version = v
    BY <1>9, OneJobChanges DEF BeginExtract, Idle
  <2>3. status'[v] \in {status[v], "EXTRACTING"}
    BY <1>9, JobFacts DEF BeginExtract, GuardedWrite, TypeOK, Busy
  <2> QED
    BY <2>1, <2>2, <2>3, SoleJobFrame
<1>10. ASSUME NEW w \in Workers, SaveRaw(w) PROVE SoleJob(v)'
  <2>1. UNCHANGED <<status, queue, putting>>
    BY <1>10 DEF SaveRaw
  <2>2. \A x \in Workers : job'[x].version = v => job[x].version = v
    BY <1>10, OneJobChanges DEF SaveRaw
  <2> QED
    BY <2>1, <2>2, SoleJobFrame
<1>11. ASSUME NEW w \in Workers, ParseFails(w) \/ Publish(w) \/ AbortJob(w) PROVE SoleJob(v)'
  <2>1. /\ UNCHANGED <<queue, putting>>
        /\ job'[w].version # v /\ \A x \in Workers : x # w => job'[x] = job[x]
    BY <1>11, OneJobChanges DEF ParseFails, Publish, AbortJob, Idle, catalog
  <2>2. CASE job[w].version = v
    BY <2>1, <2>2, SoleJobEnds
  <2>3. CASE job[w].version # v
    <3>1. status'[v] = status[v]
      <4>1. \/ UNCHANGED status
            \/ \E t \in {"FAILED", "EXTRACTED"} : status' = [status EXCEPT ![job[w].version] = t]
        BY <1>11 DEF ParseFails, Publish, AbortJob, WriteFailed, GuardedWrite, catalog
      <4> QED
        BY <2>3, <4>1 DEF TypeOK
    <3> QED
      BY <2>1, <3>1, SoleJobFrame
  <2> QED
    BY <2>2, <2>3
<1>12. CASE ScanStart \/ Boot
  BY <1>12 DEF ScanStart, Boot
<1>13. CASE Crash
  <2>1. ~Held(v)'
    BY <1>13 DEF Crash, Held, Putting, OnQueue, Working, Idle, At
  <2> QED
    BY <2>1 DEF SoleJob, Held, Putting, OnQueue, Working
<1>14. ASSUME NEW f \in Families, SetArchived(f) \/ PurgeStart(f) PROVE SoleJob(v)'
  <2>1. UNCHANGED <<status, queue, putting, job>>
    BY <1>14 DEF SetArchived, PurgeStart, catalog, memory
  <2> QED
    BY <2>1, SoleJobFrame
<1>15. CASE UNCHANGED vars
  BY <1>15, SoleJobFrame DEF vars
<1> QED
  BY <1>1, <1>2, <1>3, <1>4, <1>5, <1>6, <1>7, <1>8, <1>9, <1>10, <1>11, <1>12, <1>13,
     <1>14, <1>15 DEF Next, RequestStep, WorkerStep

(* A process that is down keeps nobody's job. *)
LEMMA DownHasNoJobs ==
    ASSUME TypeOK, DownInv, ~up, NEW v \in Versions, [Next]_vars
    PROVE  SoleJob(v)'
<1>1. queue = <<>> /\ (\A r \in Requests : putting[r] = NoVersion)
      /\ (\A w \in Workers : job[w] = Idle) /\ scan = {} /\ purging = {}
  BY DEF DownInv
<1>2. \A r \in Requests : r \notin admitted
  BY <1>1 DEF TypeOK
<1>3. UNCHANGED <<queue, putting, job>>
  BY <1>1, <1>2 DEF Next, vars, Upload, Review, Purge, ScanMarkFailed, ScanSkip, Enqueue,
     StartInline, RequestStep, FindRoom, Refuse, Put, WorkerStep, SeeEmpty, Park, Dequeue,
     BeginExtract, ParseFails, SaveRaw, Publish, AbortJob, SetArchived, PurgeStart,
     ScanStart, Crash, Boot, Idle, At, Busy
<1>4. ~Putting(v)' /\ ~OnQueue(v)' /\ ~Working(v)'
  BY <1>1, <1>3, PipelineAssumption
  DEF Putting, OnQueue, Working, Idle, At, PipelineAssumption
<1> QED
  BY <1>4 DEF SoleJob, Held, Putting, OnQueue, Working

(* The three ways to hold a version count at most one job. *)
LEMMA SoleJobCounts ==
    ASSUME NEW v \in Versions, SoleJob(v)
    PROVE  Cardinality({r \in Requests : putting[r] = v})
         + Cardinality({i \in 1..Len(queue) : queue[i] = v})
         + Cardinality({w \in Workers : job[w].version = v}) <= 1
<1> DEFINE P == {r \in Requests : putting[r] = v}
           Q == {i \in 1..Len(queue) : queue[i] = v}
           W == {w \in Workers : job[w].version = v}
<1>1. P = {} \/ \E r : P = {r}
  <2>1. \A q, r \in P : q = r
    BY DEF SoleJob
  <2> HIDE DEF P
  <2> QED
    BY <2>1
<1>2. Q = {} \/ \E i : Q = {i}
  <2>1. \A i, j \in Q : i = j
    BY DEF SoleJob
  <2> HIDE DEF Q
  <2> QED
    BY <2>1
<1>3. W = {} \/ \E w : W = {w}
  <2>1. \A w, x \in W : w = x
    BY DEF SoleJob
  <2> HIDE DEF W
  <2> QED
    BY <2>1
<1>4. /\ P = {} \/ Q = {}
      /\ P = {} \/ W = {}
      /\ Q = {} \/ W = {}
  BY DEF SoleJob, Putting, OnQueue, Working
<1>5. Cardinality({}) = 0 /\ \A x : Cardinality({x}) = 1
  BY FS_EmptySet, FS_Singleton
<1> HIDE DEF P, Q, W
<1>6. /\ Cardinality(P) = IF P = {} THEN 0 ELSE 1
      /\ Cardinality(Q) = IF Q = {} THEN 0 ELSE 1
      /\ Cardinality(W) = IF W = {} THEN 0 ELSE 1
  BY <1>1, <1>2, <1>3, <1>5
<1>7. Cardinality(P) + Cardinality(Q) + Cardinality(W) <= 1
  BY <1>4, <1>6
<1> QED
  BY <1>7 DEF P, Q, W

(* With recovery at boot only, a version submitted by racing requests has   *)
(* one job, through queues, crashes, catalog faults and purges.            *)
THEOREM NoVersionEnqueuedTwice == ~PeriodicRecovery /\ Spec => []NoDoubleEnqueue
<1> SUFFICES ASSUME ~PeriodicRecovery PROVE Spec => []NoDoubleEnqueue
  OBVIOUS
<1>1. Init => JobsInv
  BY PipelineAssumption DEF Init, JobsInv, SoleJob, Held, Putting, OnQueue, Working, Idle, At,
     PipelineAssumption
<1>2. TypeOK /\ DownInv /\ OwnershipInv /\ JobsInv /\ [Next]_vars => JobsInv'
  <2> SUFFICES ASSUME TypeOK, DownInv, OwnershipInv, JobsInv, [Next]_vars PROVE JobsInv'
    OBVIOUS
  <2>1. up => UNCHANGED inline
    BY DEF Next, vars, memory, Upload, Review, Purge, ScanMarkFailed, ScanSkip, Enqueue,
       StartInline, RequestStep, FindRoom, Refuse, Put, WorkerStep, SeeEmpty, Park, Dequeue,
       BeginExtract, ParseFails, SaveRaw, Publish, AbortJob, SetArchived, PurgeStart,
       ScanStart, Crash, Boot
  <2>2. CASE up
    BY <2>1, <2>2, SoleJobPreserved DEF JobsInv
  <2>3. CASE ~up
    BY <2>3, DownHasNoJobs DEF JobsInv
  <2> QED
    BY <2>2, <2>3
<1>3. JobsInv => NoDoubleEnqueue
  BY SoleJobCounts DEF JobsInv, NoDoubleEnqueue
<1> QED
  BY <1>1, <1>2, <1>3, TypeCorrect, DownIsEmpty, Ownership, PTL DEF Spec

-----------------------------------------------------------------------------
(* Refinement of the lifecycle table.                                      *)

(* Without administrators nothing is archived and nothing PURGED. *)
UnadministeredInv ==
    /\ purging = {}
    /\ \A f \in Families : ~archived[f]
    /\ \A v \in Versions : status[v] # "PURGED"

(* Without administration no version is archived or purged. *)
LEMMA UnadministeredPreserved ==
    ASSUME ~Administration, TypeOK, UnadministeredInv, [Next]_vars
    PROVE  UnadministeredInv'
<1> USE DEF UnadministeredInv
<1>1. ASSUME NEW v \in Versions, Upload(v) \/ Review(v) PROVE UnadministeredInv'
  BY <1>1 DEF Upload, Review, TypeOK, memory, BehindReviewGate
<1>2. ASSUME NEW v \in Versions, Purge(v) \/ ScanMarkFailed(v) \/ ScanSkip(v)
      PROVE  UnadministeredInv'
  BY <1>2 DEF Purge, ScanMarkFailed, WriteFailed, ScanSkip, catalog, TypeOK
<1>3. ASSUME NEW v \in Versions, NEW r \in Requests, Enqueue(r, v) PROVE UnadministeredInv'
  BY <1>3 DEF Enqueue, GuardedWrite, TypeOK
<1>4. ASSUME NEW v \in Versions, NEW w \in Workers, StartInline(w, v) PROVE UnadministeredInv'
  BY <1>4 DEF StartInline, catalog
<1>5. ASSUME NEW r \in Requests, RequestStep(r) PROVE UnadministeredInv'
  BY <1>5 DEF RequestStep, FindRoom, Refuse, Put, catalog
<1>6. ASSUME NEW w \in Workers, SeeEmpty(w) \/ Park(w) \/ Dequeue(w) \/ AbortJob(w) \/ SaveRaw(w)
      PROVE  UnadministeredInv'
  BY <1>6 DEF SeeEmpty, Park, Dequeue, AbortJob, SaveRaw, catalog
<1>7. ASSUME NEW w \in Workers, BeginExtract(w) \/ ParseFails(w) \/ Publish(w)
      PROVE  UnadministeredInv'
  BY <1>7 DEF BeginExtract, ParseFails, Publish, GuardedWrite, WriteFailed, TypeOK
<1>8. ASSUME NEW f \in Families, SetArchived(f) \/ PurgeStart(f) PROVE UnadministeredInv'
  BY <1>8 DEF SetArchived, PurgeStart
<1>9. CASE ScanStart \/ Crash
  BY <1>9 DEF ScanStart, Crash, catalog
<1>10. CASE Boot
  BY <1>10 DEF Boot, TypeOK
<1>11. CASE UNCHANGED vars
  BY <1>11 DEF vars
<1> QED
  BY <1>1, <1>2, <1>3, <1>4, <1>5, <1>6, <1>7, <1>8, <1>9, <1>10, <1>11 DEF Next, WorkerStep

(* The abstract specification is about the same table. *)
LEMMA SameTable ==
    /\ \A s : Lifecycle!AllowedTransitions(s) = AllowedTransitions(s)
    /\ Lifecycle!StuckStates = StuckStates
  BY DEF Lifecycle!AllowedTransitions, AllowedTransitions, Lifecycle!StuckStates, StuckStates

(* A write along one edge of the table is a move of the abstract version. *)
LEMMA MoveImplements ==
    ASSUME NEW v \in Versions, NEW t, status[v] # "ABSENT",
           t \in AllowedTransitions(status[v]), status' = [status EXCEPT ![v] = t]
    PROVE  Lifecycle!LifecycleNext
  BY SameTable DEF Lifecycle!LifecycleNext, Lifecycle!Move

(* So is a write that checks the table first. *)
LEMMA GuardedWriteImplements ==
    ASSUME NEW v \in Versions, NEW t, GuardedWrite(v, t)
    PROVE  Lifecycle!LifecycleNext
<1>1. status[v] # "ABSENT" /\ t \in AllowedTransitions(status[v])
  BY StatusFacts DEF GuardedWrite, AllowedPredecessors
<1> QED
  BY <1>1, MoveImplements DEF GuardedWrite

(* Each step of the pipeline is a step of the lifecycle or a stutter. *)
LEMMA StepImplements ==
    ASSUME TypeOK, OwnershipInv, UnadministeredInv, [Next]_vars
    PROVE  [Lifecycle!LifecycleNext]_status
<1>1. ASSUME NEW v \in Versions, Upload(v) PROVE Lifecycle!LifecycleNext
  BY <1>1 DEF Upload, Lifecycle!LifecycleNext, Lifecycle!Create
<1>2. ASSUME NEW v \in Versions, Review(v) PROVE Lifecycle!LifecycleNext
  BY <1>2, MoveImplements DEF Review
<1>3. ASSUME NEW v \in Versions, Purge(v) \/ ScanMarkFailed(v) PROVE FALSE
  BY <1>3 DEF Purge, ScanMarkFailed, UnadministeredInv, OwnershipInv
<1>4. ASSUME NEW v \in Versions, ScanSkip(v) PROVE UNCHANGED status
  BY <1>4 DEF ScanSkip, catalog
<1>5. ASSUME NEW v \in Versions, NEW r \in Requests, Enqueue(r, v)
      PROVE  Lifecycle!LifecycleNext
  BY <1>5, GuardedWriteImplements DEF Enqueue
<1>6. ASSUME NEW v \in Versions, NEW w \in Workers, StartInline(w, v) PROVE UNCHANGED status
  BY <1>6 DEF StartInline, catalog
<1>7. ASSUME NEW r \in Requests, RequestStep(r) PROVE UNCHANGED status
  BY <1>7 DEF RequestStep, FindRoom, Refuse, Put, catalog
<1>8. ASSUME NEW w \in Workers, SeeEmpty(w) \/ Park(w) \/ Dequeue(w) \/ SaveRaw(w) \/ AbortJob(w)
      PROVE  UNCHANGED status
  BY <1>8 DEF SeeEmpty, Park, Dequeue, SaveRaw, AbortJob, catalog
<1>9. ASSUME NEW w \in Workers, BeginExtract(w) \/ Publish(w)
      PROVE  Lifecycle!LifecycleNext \/ UNCHANGED status
  <2>1. job[w].version \in Versions
    BY <1>9, JobFacts DEF BeginExtract, Publish, Busy
  <2> QED
    BY <1>9, <2>1, GuardedWriteImplements DEF BeginExtract, Publish
<1>10. ASSUME NEW w \in Workers, ParseFails(w) PROVE Lifecycle!LifecycleNext
  <2>1. job[w].version \in Versions /\ status[job[w].version] = "EXTRACTING"
    BY <1>10, JobFacts DEF ParseFails, Busy, OwnershipInv, Extracting, UnadministeredInv
  <2>2. "FAILED" \in AllowedTransitions("EXTRACTING")
    BY DEF AllowedTransitions
  <2> QED
    BY <1>10, <2>1, <2>2, MoveImplements DEF ParseFails, WriteFailed
<1>11. ASSUME NEW f \in Families, SetArchived(f) \/ PurgeStart(f) PROVE UNCHANGED status
  BY <1>11 DEF SetArchived, PurgeStart, catalog
<1>12. CASE ScanStart \/ Crash \/ UNCHANGED vars
  BY <1>12 DEF ScanStart, Crash, catalog, vars
<1>13. CASE Boot
  BY <1>13, SameTable DEF Boot, Recoverable, Stuck, Lifecycle!LifecycleNext, Lifecycle!FailAbandoned
<1> QED
  BY <1>1, <1>2, <1>3, <1>4, <1>5, <1>6, <1>7, <1>8, <1>9, <1>10, <1>11, <1>12, <1>13
  DEF Next, WorkerStep

(* With recovery at boot only and no administrators, every write of a      *)
(* status by uploads, extraction, recovery and review is one edge of the   *)
(* lifecycle table, or a recovery of abandoned versions.                   *)
THEOREM PipelineImplementsLifecycle ==
    ~PeriodicRecovery /\ ~Administration /\ Spec => ImplementsLifecycle
<1> SUFFICES ASSUME ~PeriodicRecovery, ~Administration PROVE Spec => ImplementsLifecycle
  OBVIOUS
<1>1. Init => Lifecycle!LifecycleInit
  BY DEF Init, Lifecycle!LifecycleInit
<1>2. Init => UnadministeredInv
  BY DEF Init, UnadministeredInv
<1>3. TypeOK /\ UnadministeredInv /\ [Next]_vars => UnadministeredInv'
  BY UnadministeredPreserved
<1>4. TypeOK /\ OwnershipInv /\ UnadministeredInv /\ [Next]_vars
        => [Lifecycle!LifecycleNext]_status
  BY StepImplements
<1> QED
  BY <1>1, <1>2, <1>3, <1>4, TypeCorrect, Ownership, PTL
  DEF Spec, ImplementsLifecycle, Lifecycle!LifecycleSpec

=============================================================================
