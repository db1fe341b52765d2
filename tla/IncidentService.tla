--------------------------- MODULE IncidentService ---------------------------
(***************************************************************************)
(* incident-service: HTTP handlers and the MONITORING_ALERTS consumer,     *)
(* each holding a database session, over one READ COMMITTED database.      *)
(*                                                                         *)
(* A session runs one statement per step, as the handlers await between    *)
(* statements.  What a session has written is invisible to the others      *)
(* until its Commit step; until then it holds the row lock of the incident *)
(* it updated or the unique-index entry of the reference it inserted.      *)
(*                                                                         *)
(* An incident is named by its reference number: the column is UNIQUE, so  *)
(* `incidents' is a function from the references in use to rows, and the   *)
(* uuid primary key is left out.                                           *)
(***************************************************************************)
EXTENDS IncidentLifecycle, Sequences, FiniteSets

CONSTANTS
    Handlers,         \* HTTP requests served at the same time
    Consumers,        \* consumer tasks of the group, one per worker process
    Alerts,           \* identities of monitoring alerts
    NoAlert,          \* source_ref of a manually opened incident
    Analysts,         \* assignees
    NoAnalyst,        \* assignee of an unassigned incident
    Severities,       \* severity ranks that requests and alerts carry
    AutoOpenMin,      \* settings.auto_open_min_severity
    HttpOps,          \* the write endpoints that are called
    MaxRequests,      \* bound: HTTP requests that start a write
    MaxMessages,      \* bound: messages on MONITORING_ALERTS
    MaxCrashes,       \* bound: sessions killed with their process
    MaxRebalances     \* bound: moves of the partition between consumers

Sessions == Handlers \cup Consumers

AllHttpOps == {"create", "status", "assign", "note"}

ASSUME SessionAssumption == Handlers \cap Consumers = {} /\ Consumers # {}
ASSUME SentinelAssumption == NoAlert \notin Alerts /\ NoAnalyst \notin Analysts
ASSUME SeverityAssumption ==
    Severities \subseteq SeverityRanks /\ AutoOpenMin \in SeverityRanks
ASSUME OpsAssumption == HttpOps \subseteq AllHttpOps
ASSUME BoundAssumption ==
    {MaxRequests, MaxMessages, MaxCrashes, MaxRebalances} \subseteq Nat

VARIABLES
    incidents,      \* committed incidents: reference -> row
    timeline,       \* committed incident_timeline rows
    notifications,  \* committed incident_notifications: <<reference, regulator>>
    audit,          \* committed audit_log rows
    auditSeq,       \* the audit_log id sequence (gaps after a rollback)
    events,         \* INCIDENT_EVENTS, in the order they were sent
    alertLog,       \* MONITORING_ALERTS, one partition, append only
    position,       \* messages the owning consumer has fetched
    committed,      \* the group's committed offset
    owner,          \* the consumer the partition is assigned to
    pc,             \* next statement of each session
    sess,           \* what each session holds in memory and uncommitted
    clock,          \* transactions begun so far; now() is the begin time
    requests, crashes, rebalances   \* counters of the bounds

dbVars  == <<incidents, timeline, notifications, audit, auditSeq>>
busVars == <<alertLog, position, committed, owner>>
boundVars == <<requests, crashes, rebalances>>
vars == <<dbVars, events, busVars, pc, sess, clock, boundVars>>

------------------------------------------------------------------------------
Row == [severity : SeverityRanks, ndpa : BOOLEAN, source : Alerts \cup {NoAlert},
        status : Statuses, stamped : SUBSET Stamps,
        assignee : Analysts \cup {NoAnalyst}]

NewRow(severity, ndpa, source) ==
    [severity |-> severity, ndpa |-> ndpa, source |-> source,
     status |-> "open", stamped |-> {}, assignee |-> NoAnalyst]

\* op: the operation; ref: the incident; row: the ORM object in memory;
\* from: the status it had when it was loaded; at: when the transaction
\* began; prev: the audit row whose hash was read; aid: the audit id drawn.
Session == [op : AllHttpOps \cup {"none"}, ref : Nat, row : Row,
            from : Statuses, at : Nat, prev : Nat, aid : Nat]

\* A message of MONITORING_ALERTS, an event of INCIDENT_EVENTS, a timeline row
\* (kind CBN or NDPC: a drafted notification), an audit row (its hash is named
\* by its id, the hash before it by prev; 0 is the genesis hash).
Message == [alert : Alerts, severity : Severities]
Event == [type : {"incident.opened", "incident.resolved", "incident.status_changed"},
          ref : Nat, status : Statuses]
TimelineEntry == [ref : Nat, at : Nat,
                  kind : {"created", "status_change", "assign", "note", "CBN", "NDPC"},
                  from : Statuses \cup {"none"}, to : Statuses \cup {"none"}]
AuditRow == [id : Nat, prev : Nat]

BlankRow == NewRow(0, FALSE, NoAlert)
NoSession == [op |-> "none", ref |-> 0, row |-> BlankRow, from |-> "open",
              at |-> 0, prev |-> 0, aid |-> 0]

Steps == {"idle", "count", "insert", "flush", "audit", "auditInsert",
          "commit", "refresh", "publish"}

Count == Cardinality(DOMAIN incidents)

\* _next_reference; it would leave gaps if drawn from a sequence, as a
\* sequence does not roll back, and would start at 0 without the + 1.
ReferenceFromSequence == clock + 1
ReferenceFromZero == Count
NextReference == Count + 1

\* The row record_audit_event chains to: the newest that is committed (not the
\* newest drawn from the sequence).
IsNewestDrawn(n) == n = auditSeq
IsLastAuditId(n) == /\ n \in {0} \cup {a.id : a \in audit}
                    /\ \A a \in audit : a.id <= n

\* Sessions with an uncommitted INSERT or UPDATE of incident ref.
InTransaction == {"audit", "auditInsert", "commit"}
Inserting(s) == sess[s].op = "create" /\ pc[s] \in InTransaction
Updating(s)  == sess[s].op \in {"status", "assign"} /\ pc[s] \in InTransaction

\* Dedup: one incident per originating alert, whatever its status; it would
\* be wrong among active incidents only, or with any incident.
FindBySourceRef(a) == {r \in DOMAIN incidents : incidents[r].source = a}
IsActiveDuplicate(a) == \E r \in FindBySourceRef(a) : incidents[r].status # "closed"
IsAnyDuplicate(a) == DOMAIN incidents # {}
IsDuplicate(a) == FindBySourceRef(a) # {}

\* transition_status refuses the current status and what the lifecycle forbids.
IsChange(row, target) == target # row.status
MayTransition(row, target) ==
    target # row.status /\ CanTransition(row.status, target)

Init ==
    /\ incidents = [r \in {} |-> BlankRow]
    /\ timeline = {} /\ notifications = {}
    /\ audit = {} /\ auditSeq = 0
    /\ events = <<>> /\ alertLog = <<>>
    /\ position = 0 /\ committed = 0
    /\ owner \in Consumers
    /\ pc = [s \in Sessions |-> "idle"]
    /\ sess = [s \in Sessions |-> NoSession]
    /\ clock = 0
    /\ requests = 0 /\ crashes = 0 /\ rebalances = 0

------------------------------------------------------------------------------
(* Starting a session: the first statement of each write operation.        *)

Begin(s, record, step) ==
    /\ pc[s] = "idle"
    /\ pc' = [pc EXCEPT ![s] = step]
    /\ sess' = [sess EXCEPT ![s] = record]
    /\ clock' = clock + 1

Request(h, op) ==
    /\ op \in HttpOps
    /\ requests < MaxRequests
    /\ requests' = requests + 1
    /\ UNCHANGED <<dbVars, events, busVars, crashes, rebalances>>

\* POST /incidents: COUNT(*) is the first statement of the transaction.
CreateIncident(h) ==
    /\ Request(h, "create")
    /\ \E severity \in Severities, ndpa \in BOOLEAN :
           Begin(h, [NoSession EXCEPT
                        !.op = "create", !.ref = NextReference, !.at = clock,
                        !.row = NewRow(severity, ndpa, NoAlert)], "insert")

\* POST /incidents/{id}/status: load the row and check the transition.  A
\* refused request (404, 409) changes nothing.
UpdateStatus(h) ==
    /\ Request(h, "status")
    /\ \E r \in DOMAIN incidents : \E target \in Statuses :
           LET row == incidents[r] IN
           /\ MayTransition(row, target)
           /\ Begin(h, [NoSession EXCEPT
                 !.op = "status", !.ref = r, !.at = clock, !.from = row.status,
                 !.row = [row EXCEPT
                    !.status = target,
                    !.stamped = StampStatusTimestamps(row.stamped, target)]],
                 "flush")

\* POST /incidents/{id}/assign: any status, no check.
AssignIncident(h) ==
    /\ Request(h, "assign")
    /\ \E r \in DOMAIN incidents, analyst \in Analysts :
           Begin(h, [NoSession EXCEPT
                 !.op = "assign", !.ref = r, !.at = clock,
                 !.row = [incidents[r] EXCEPT !.assignee = analyst]], "flush")

\* POST /incidents/{id}/notes: only inserts rows, so it locks no incident.
AddNote(h) ==
    /\ Request(h, "note")
    /\ \E r \in DOMAIN incidents :
           Begin(h, [NoSession EXCEPT !.op = "note", !.ref = r, !.at = clock],
                 "audit")

------------------------------------------------------------------------------
(* The MONITORING_ALERTS consumer.                                         *)

\* A message is published, or published again, upstream.
AlertPublished ==
    /\ Len(alertLog) < MaxMessages
    /\ \E a \in Alerts, severity \in Severities :
           alertLog' = Append(alertLog, [alert |-> a, severity |-> severity])
    /\ UNCHANGED <<dbVars, events, position, committed, owner, pc, sess, clock,
                   boundVars>>

\* `async for msg': the position moves past the message before the handler
\* runs.  An alert below the threshold or with an incident ends the handler.
ConsumeAlert(c) ==
    /\ owner = c /\ pc[c] = "idle" /\ position < Len(alertLog)
    /\ position' = position + 1
    /\ LET m == alertLog[position + 1] IN
       IF MeetsAutoOpenThreshold(m.severity, AutoOpenMin) /\ ~IsDuplicate(m.alert)
       THEN Begin(c, [NoSession EXCEPT
                         !.op = "create", !.at = clock,
                         !.row = NewRow(m.severity, FALSE, m.alert)], "count")
       ELSE UNCHANGED <<pc, sess, clock>>
    /\ UNCHANGED <<dbVars, events, alertLog, committed, owner, boundVars>>

\* create_incident starts with COUNT(*), a statement after the dedup query.
CountIncidents(c) ==
    /\ pc[c] = "count"
    /\ pc' = [pc EXCEPT ![c] = "insert"]
    /\ sess' = [sess EXCEPT ![c].ref = NextReference]
    /\ UNCHANGED <<dbVars, events, busVars, clock, boundVars>>

\* enable_auto_commit: the fetched position is committed from time to time.
AutoCommit ==
    /\ committed < position
    /\ committed' = position
    /\ UNCHANGED <<dbVars, events, alertLog, position, owner, pc, sess, clock,
                   boundVars>>

\* The group moves the partition: the new owner resumes at the committed
\* offset, and a handler the old owner is running is not interrupted.
Rebalance(c) ==
    /\ owner # c /\ rebalances < MaxRebalances
    /\ owner' = c
    /\ position' = committed
    /\ rebalances' = rebalances + 1
    /\ UNCHANGED <<dbVars, events, alertLog, committed, pc, sess, clock,
                   requests, crashes>>

------------------------------------------------------------------------------
(* The statements of a session, and its end.                               *)

Advance(s, step) == pc' = [pc EXCEPT ![s] = step]

Finish(s) ==
    /\ Advance(s, "idle")
    /\ sess' = [sess EXCEPT ![s] = NoSession]

\* A conflict that is taken for success, that is retried with the same
\* reference, or that goes unnoticed without the unique index.
InsertIgnoringConflict(s) ==
    /\ pc[s] = "insert"
    /\ \A t \in Sessions \ {s} : ~(Inserting(t) /\ sess[t].ref = sess[s].ref)
    /\ Advance(s, IF sess[s].ref \in DOMAIN incidents THEN "refresh" ELSE "audit")
    /\ UNCHANGED <<dbVars, events, busVars, sess, clock, boundVars>>
InsertRetrying(s) ==
    /\ pc[s] = "insert"
    /\ Advance(s, IF sess[s].ref \in DOMAIN incidents THEN "insert" ELSE "audit")
    /\ UNCHANGED <<dbVars, events, busVars, sess, clock, boundVars>>
InsertUnindexed(s) ==
    /\ pc[s] = "insert"
    /\ Advance(s, "audit")
    /\ UNCHANGED <<dbVars, events, busVars, sess, clock, boundVars>>

\* INSERT INTO incidents.  It waits while another transaction holds the same
\* reference; a committed one raises IntegrityError, and the session is rolled
\* back (500 to an HTTP client; logged and skipped by the consumer loop).
InsertIncident(s) ==
    /\ pc[s] = "insert"
    /\ \A t \in Sessions \ {s} : ~(Inserting(t) /\ sess[t].ref = sess[s].ref)
    /\ IF sess[s].ref \in DOMAIN incidents
       THEN Finish(s)
       ELSE Advance(s, "audit") /\ UNCHANGED sess
    /\ UNCHANGED <<dbVars, events, busVars, clock, boundVars>>

\* The autoflushed UPDATE of the changed columns waits for the row lock.
FlushUpdate(s) ==
    /\ pc[s] = "flush"
    /\ \A t \in Sessions \ {s} : ~(Updating(t) /\ sess[t].ref = sess[s].ref)
    /\ Advance(s, "audit")
    /\ UNCHANGED <<dbVars, events, busVars, sess, clock, boundVars>>

\* record_audit_event: SELECT the newest visible row ...
SelectLastAudit(s) ==
    /\ pc[s] = "audit"
    /\ \E n \in 0..auditSeq :
           IsLastAuditId(n) /\ sess' = [sess EXCEPT ![s].prev = n]
    /\ Advance(s, "auditInsert")
    /\ UNCHANGED <<dbVars, events, busVars, clock, boundVars>>

\* ... and INSERT one that points to it.
InsertAudit(s) ==
    /\ pc[s] = "auditInsert"
    /\ auditSeq' = auditSeq + 1
    /\ sess' = [sess EXCEPT ![s].aid = auditSeq + 1]
    /\ Advance(s, "commit")
    /\ UNCHANGED <<incidents, timeline, notifications, audit, events, busVars,
                   clock, boundVars>>

\* The timeline rows a session commits; created_at is the begin time.
Entry(s, kind, from, to) ==
    [ref |-> sess[s].ref, at |-> sess[s].at, kind |-> kind,
     from |-> from, to |-> to]
StatusEntryAfterUpdate(s) ==
    Entry(s, "status_change", sess[s].row.status, sess[s].row.status)
StatusEntry(s) == Entry(s, "status_change", sess[s].from, sess[s].row.status)
Entries(s) ==
    CASE sess[s].op = "create" ->
           {Entry(s, "created", "none", "open")} \cup
           {Entry(s, g, "none", "none") :
                g \in DraftsFor(sess[s].row.severity, sess[s].row.ndpa)}
      [] sess[s].op = "status" ->
           {StatusEntry(s)}
      [] OTHER -> {Entry(s, sess[s].op, "none", "none")}

CommitTimelineAndAudit(s) ==
    /\ pc[s] = "commit"
    /\ timeline' = timeline \cup Entries(s)
    /\ audit' = audit \cup {[id |-> sess[s].aid, prev |-> sess[s].prev]}
    /\ UNCHANGED <<auditSeq, events, busVars, clock, boundVars>>

CommitCreate(s) ==
    /\ sess[s].op = "create"
    /\ CommitTimelineAndAudit(s)
    /\ LET new == sess[s].ref IN
       /\ incidents' = [r \in DOMAIN incidents \cup {new} |->
                            IF r = new THEN sess[s].row ELSE incidents[r]]
       /\ notifications' = notifications \cup
             ({new} \X DraftsFor(sess[s].row.severity, sess[s].row.ndpa))
    /\ Advance(s, "refresh") /\ UNCHANGED sess

\* The UPDATE names the columns that changed, whatever the row holds by now.
CommitStatus(s) ==
    /\ sess[s].op = "status"
    /\ CommitTimelineAndAudit(s)
    /\ incidents' = [incidents EXCEPT
           ![sess[s].ref].status = sess[s].row.status,
           ![sess[s].ref].stamped = @ \cup sess[s].row.stamped]
    /\ Advance(s, "refresh") /\ UNCHANGED <<notifications, sess>>

\* The assign and note handlers publish nothing.
CommitAssign(s) ==
    /\ sess[s].op = "assign"
    /\ CommitTimelineAndAudit(s)
    /\ incidents' = [incidents EXCEPT ![sess[s].ref].assignee = sess[s].row.assignee]
    /\ Finish(s) /\ UNCHANGED notifications

CommitNote(s) ==
    /\ sess[s].op = "note"
    /\ CommitTimelineAndAudit(s)
    /\ Finish(s) /\ UNCHANGED <<incidents, notifications>>

\* refresh reloads the row: another session may have changed it since.
Refresh(s) ==
    /\ pc[s] = "refresh"
    /\ sess' = [sess EXCEPT ![s].row = incidents[sess[s].ref]]
    /\ Advance(s, "publish")
    /\ UNCHANGED <<dbVars, events, busVars, clock, boundVars>>

EventOf(s) ==
    [type |-> IF sess[s].op = "create" THEN "incident.opened"
              ELSE IF sess[s].row.status = "resolved" THEN "incident.resolved"
              ELSE "incident.status_changed",
     ref |-> sess[s].ref, status |-> sess[s].row.status]

\* publish returns False, and the event is lost, when no broker is reachable.
PublishIncidentEvent(s) ==
    /\ pc[s] = "publish"
    /\ events' \in {Append(events, EventOf(s)), events}
    /\ Finish(s)
    /\ UNCHANGED <<dbVars, busVars, clock, boundVars>>

\* A process dies with its session; a consumer that owned the partition
\* rejoins at the committed offset.
Crash(s) ==
    /\ crashes < MaxCrashes
    /\ crashes' = crashes + 1
    /\ Finish(s)
    /\ position' = IF s = owner THEN committed ELSE position
    /\ UNCHANGED <<dbVars, events, alertLog, committed, owner, clock,
                   requests, rebalances>>

------------------------------------------------------------------------------
Step(s) ==
    \/ InsertIncident(s) \/ FlushUpdate(s)
    \/ SelectLastAudit(s) \/ InsertAudit(s)
    \/ CommitCreate(s) \/ CommitStatus(s) \/ CommitAssign(s) \/ CommitNote(s)
    \/ Refresh(s) \/ PublishIncidentEvent(s)

StartRequest(h) ==
    CreateIncident(h) \/ UpdateStatus(h) \/ AssignIncident(h) \/ AddNote(h)

\* Nothing is running: the system waits for requests and alerts.
Quiescent == (\A s \in Sessions : pc[s] = "idle") /\ UNCHANGED vars

Next ==
    \/ \E h \in Handlers : StartRequest(h)
    \/ \E c \in Consumers : ConsumeAlert(c) \/ CountIncidents(c) \/ Rebalance(c)
    \/ \E s \in Sessions : Step(s) \/ Crash(s)
    \/ AlertPublished
    \/ AutoCommit
    \/ Quiescent

Spec == Init /\ [][Next]_vars

\* The event loop resumes every await that can complete, the database grants a
\* lock that is free, and a consumer that is connected fetches what is there.
Fairness ==
    /\ \A s \in Sessions : WF_vars(Step(s))
    /\ \A c \in Consumers : WF_vars(ConsumeAlert(c)) /\ WF_vars(CountIncidents(c))

FairSpec == Spec /\ Fairness
=============================================================================
