------------------------------ MODULE AuditLog ------------------------------
(***************************************************************************)
(* The audit log: domain events that the threads of the process log, a      *)
(* handler that stores each, and the pages in which an administrator reads  *)
(* them, newest first.  A record takes its time when it is made and is      *)
(* stored later, so the order of storing need not be the order of times.    *)
(*                                                                         *)
(* Left out: what events say, but for whether the filters of a reader       *)
(* match them; records that are no domain events, which the handler drops;  *)
(* opaque encodings of cursors.                                            *)
(***************************************************************************)
EXTENDS Naturals, FiniteSets, Sequences, SequencesExt, OrderedRows

CONSTANTS
    LoggingThreads,
    MaxEvents,      \* bound on the events stored
    LastTime,       \* bound on the clock, in the resolution of the store
    AuditLimit,     \* rows per page
    NoRecord        \* nothing is being logged

ASSUME AuditAssumption == AuditLimit \in Nat \ {0} /\ {MaxEvents, LastTime} \subseteq Nat

VARIABLES
    auditStore,  \* the store of this deployment
    auditClock,
    events,      \* the events stored, in the order of their row ids
    logging,     \* the record each thread is about to have stored
    auditWalk    \* an administrator paging through the events

auditVars == <<auditStore, auditClock, events, logging, auditWalk>>

-----------------------------------------------------------------------------
AuditStores == {"memory", "sqlite"}
Event == [at : 0..LastTime, matches : BOOLEAN]

(* A cursor: the last row's id in SQLite; in memory a time, and how many   *)
(* rows of that time are behind the reader.                                *)
NoCursor == [id |-> 0, at |-> 0, offset |-> 0]

NoAuditWalk == [on |-> FALSE, cursor |-> NoCursor, seen |-> <<>>, known |-> 0]

AuditTypeOK ==
    /\ auditStore \in AuditStores
    /\ auditClock \in 0..LastTime
    /\ events \in BoundedSeq(Event, MaxEvents)
    /\ logging \in [LoggingThreads -> Event \cup {NoRecord}]
    /\ auditWalk.on \in BOOLEAN
    /\ auditWalk.known \in 0..MaxEvents
    /\ auditWalk.seen \in Seq(DOMAIN events)

-----------------------------------------------------------------------------
(* Logging.                                                                *)

LogEvent(t) ==
    /\ logging[t] = NoRecord
    /\ \E m \in BOOLEAN : logging' = [logging EXCEPT ![t] = [at |-> auditClock, matches |-> m]]
    /\ UNCHANGED <<auditStore, auditClock, events, auditWalk>>

(* emit: one INSERT under a lock.  When it fails, the event is gone.        *)
StoreEvent(t) ==
    /\ logging[t] # NoRecord
    /\ \/ Len(events) < MaxEvents /\ events' = Append(events, logging[t])
       \/ UNCHANGED events
    /\ logging' = [logging EXCEPT ![t] = NoRecord]
    /\ UNCHANGED <<auditStore, auditClock, auditWalk>>

AuditTick ==
    /\ auditClock < LastTime
    /\ auditClock' = auditClock + 1
    /\ UNCHANGED <<auditStore, events, logging, auditWalk>>

-----------------------------------------------------------------------------
(* Reading.                                                                *)

(* Newest first, and of one time those stored last first. *)
Newer(i, j) == events[i].at > events[j].at \/ (events[i].at = events[j].at /\ i > j)

MatchingEvents == {i \in DOMAIN events : events[i].matches}

NewestFirst(ids) == InOrder(ids, {p \in ids \X ids : Newer(p[1], p[2])})

PageOf(ids) == FirstFew(ids, AuditLimit)

(* SQLiteAuditEventStore: of the rows with a smaller id than the cursor's. *)
SQLitePage(cursor) ==
    LET rows == NewestFirst({i \in MatchingEvents : cursor.id # 0 => i < cursor.id})
        page == PageOf(rows)
    IN  [rows |-> page, more |-> Len(rows) > AuditLimit,
         next |-> IF page = <<>> THEN NoCursor ELSE [NoCursor EXCEPT !.id = Last(page)]]

(* Faulty variant: what earlier pages had of the last row's time is forgotten. *)
MemoryPageNoCarry(cursor) ==
    LET older == NewestFirst({i \in MatchingEvents : cursor # NoCursor => events[i].at <= cursor.at})
        rows  == SubSeq(older, cursor.offset + 1, Len(older))
        page  == PageOf(rows)
        last  == events[Last(page)].at
        same  == Cardinality({k \in DOMAIN page : events[page[k]].at = last})
    IN  [rows |-> page, more |-> Len(rows) > AuditLimit,
         next |-> IF page = <<>> THEN NoCursor ELSE [id |-> 0, at |-> last, offset |-> same]]

(* InMemoryAuditEventStore: of the rows no newer than the cursor's time,    *)
(* without as many as earlier pages had of that time.                      *)
MemoryPage(cursor) ==
    LET older == NewestFirst({i \in MatchingEvents : cursor # NoCursor => events[i].at <= cursor.at})
        rows  == SubSeq(older, cursor.offset + 1, Len(older))
        page  == PageOf(rows)
        last  == events[Last(page)].at
        same  == Cardinality({k \in DOMAIN page : events[page[k]].at = last})
        carry == IF cursor # NoCursor /\ cursor.at = last THEN cursor.offset ELSE 0
    IN  [rows |-> page, more |-> Len(rows) > AuditLimit,
         next |-> IF page = <<>> THEN NoCursor ELSE [id |-> 0, at |-> last, offset |-> carry + same]]

StartAuditWalk ==
    /\ ~auditWalk.on
    /\ auditWalk' = [NoAuditWalk EXCEPT !.on = TRUE, !.known = Len(events)]
    /\ UNCHANGED <<auditStore, auditClock, events, logging>>

FetchAuditPage ==
    /\ auditWalk.on
    /\ LET answer == IF auditStore = "sqlite" THEN SQLitePage(auditWalk.cursor)
                                              ELSE MemoryPage(auditWalk.cursor)
       IN  auditWalk' = [auditWalk EXCEPT !.seen = @ \o answer.rows, !.on = answer.more,
                            !.cursor = IF answer.more THEN answer.next ELSE NoCursor]
    /\ UNCHANGED <<auditStore, auditClock, events, logging>>

(* The process restarts; only the SQLite file stays. *)
AuditRestart ==
    /\ events' = IF auditStore = "sqlite" THEN events ELSE <<>>
    /\ logging' = [t \in LoggingThreads |-> NoRecord]
    /\ auditWalk' = NoAuditWalk
    /\ UNCHANGED <<auditStore, auditClock>>

-----------------------------------------------------------------------------
AuditInit ==
    /\ auditStore \in AuditStores
    /\ auditClock = 0
    /\ events = <<>>
    /\ logging = [t \in LoggingThreads |-> NoRecord]
    /\ auditWalk = NoAuditWalk

AuditNext ==
    \/ \E t \in LoggingThreads : LogEvent(t) \/ StoreEvent(t)
    \/ AuditTick \/ StartAuditWalk \/ FetchAuditPage \/ AuditRestart

AuditSpec == AuditInit /\ [][AuditNext]_auditVars

-----------------------------------------------------------------------------
(* Properties.                                                             *)

(* Every event was stored at a time no earlier than those before it: no     *)
(* thread was overtaken between making its record and storing it.          *)
StoredInOrder == \A i, j \in DOMAIN events : i < j => events[i].at <= events[j].at

(* What was stored since the walk began is newer than what was stored before it. *)
NewsIsNewer ==
    \A i, j \in DOMAIN events : i < j /\ j > auditWalk.known => events[i].at < events[j].at

(* An administrator who follows next_cursor to the end has seen, newest     *)
(* first, each matching event that was stored when the walk began once, and *)
(* none twice, whatever was logged meanwhile (query_page: "a                *)
(* same-timestamp tie doesn't drift across pages").  The SQLite store's     *)
(* cursor relies on events being stored in the order of their times, the    *)
(* in-memory one on new events being newer than those stored before.       *)
AuditWalkIsComplete ==
    (IF auditStore = "sqlite" THEN StoredInOrder ELSE NewsIsNewer) =>
    /\ \A k \in 1..(Len(auditWalk.seen) - 1) : Newer(auditWalk.seen[k], auditWalk.seen[k + 1])
    /\ ~auditWalk.on /\ auditWalk # NoAuditWalk =>
          {i \in MatchingEvents : i <= auditWalk.known} \subseteq ToSet(auditWalk.seen)

=============================================================================
