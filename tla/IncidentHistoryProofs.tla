------------------------ MODULE IncidentHistoryProofs ------------------------
(***************************************************************************)
(* What incident-service records and announces of its incidents: drafts,   *)
(* events, the audit chain, alerts and the timeline, and that it refines   *)
(* IncidentRegister.  The drafts and the events are right for any          *)
(* sessions; the others hold with one session of a kind at a time, which   *)
(* each theorem names.                                                     *)
(***************************************************************************)
EXTENDS IncidentProofs

------------------------------------------------------------------------------
(* The life of a session, step by step.                                    *)

Stays(t) == pc'[t] = pc[t] /\ sess'[t] = sess[t]

\* A session ends with a conflict, with its work done, or with its process.
Ends(t) ==
    /\ pc'[t] = "idle" /\ sess'[t] = NoSession
    /\ \/ InsertIncident(t) /\ sess[t].ref \in DOMAIN incidents
       \/ CommitAssign(t) \/ CommitNote(t) \/ PublishIncidentEvent(t) \/ Crash(t)

\* A session that goes on keeps its operation, the time it began and the
\* status it loaded; COUNT(*) sets its reference, refresh reloads its row, and
\* each step comes from one statement.
Moves(t) ==
    /\ pc[t] # "idle"
    /\ sess'[t].op = sess[t].op /\ sess'[t].at = sess[t].at /\ sess'[t].from = sess[t].from
    /\ CountIncidents(t) \/ sess'[t].ref = sess[t].ref
    /\ Refresh(t) \/ sess'[t].row = sess[t].row
    /\ \/ pc'[t] = "insert" /\ CountIncidents(t)
       \/ pc'[t] = "audit" /\ (InsertIncident(t) \/ FlushUpdate(t))
       \/ pc'[t] = "auditInsert" /\ SelectLastAudit(t)
       \/ pc'[t] = "commit" /\ InsertAudit(t)
       \/ pc'[t] = "refresh" /\ (CommitCreate(t) \/ CommitStatus(t))
       \/ pc'[t] = "publish" /\ Refresh(t)

\* A session that starts takes the time; what is committed stays as it is.
Starts(t) ==
    /\ pc[t] = "idle" /\ sess'[t].at = clock /\ clock' = clock + 1
    /\ (t \in Handlers /\ StartRequest(t)) \/ (t \in Consumers /\ ConsumeAlert(t))
    /\ UNCHANGED <<dbVars, events>>

LEMMA LifeOfStep ==
    ASSUME TypeInv, NEW s \in Sessions, Step(s) \/ Crash(s)
    PROVE  /\ \A t \in Sessions \ {s} : Stays(t)
           /\ Ends(s) \/ Moves(s)
<1> USE DEF TypeInv
<1>1. ASSUME Finish(s)
      PROVE  (\A t \in Sessions \ {s} : Stays(t)) /\ pc'[s] = "idle" /\ sess'[s] = NoSession
  BY <1>1, FinishLocal DEF Stays
<1>2. ASSUME NEW step, Advance(s, step), UNCHANGED sess
      PROVE  (\A t \in Sessions \ {s} : Stays(t)) /\ pc'[s] = step /\ sess'[s] = sess[s]
  BY <1>2, AdvanceLocal DEF Stays
<1>3. CASE InsertIncident(s)
  <2>1. CASE sess[s].ref \in DOMAIN incidents
    BY <1>1, <1>3, <2>1 DEF InsertIncident, Ends
  <2>2. CASE sess[s].ref \notin DOMAIN incidents
    BY <1>2, <1>3, <2>2 DEF InsertIncident, Moves
  <2> QED
    BY <2>1, <2>2
<1>4. CASE FlushUpdate(s)
  BY <1>2, <1>4 DEF FlushUpdate, Moves
<1>5. CASE SelectLastAudit(s)
  <2>1. PICK n \in 0..auditSeq : sess' = [sess EXCEPT ![s].prev = n]
    BY <1>5 DEF SelectLastAudit
  <2>2. pc[s] = "audit" /\ Advance(s, "auditInsert")
    BY <1>5 DEF SelectLastAudit
  <2>3. /\ sess'[s].op = sess[s].op /\ sess'[s].row = sess[s].row /\ sess'[s].ref = sess[s].ref
        /\ sess'[s].at = sess[s].at /\ sess'[s].from = sess[s].from
    BY <2>1 DEF TypeOK, Session
  <2>4. pc'[s] = "auditInsert" /\ \A t \in Sessions \ {s} : Stays(t)
    BY <2>1, <2>2 DEF Advance, TypeOK, Stays
  <2> QED
    BY <1>5, <2>2, <2>3, <2>4 DEF Moves
<1>6. CASE InsertAudit(s)
  <2>1. sess' = [sess EXCEPT ![s].aid = auditSeq + 1]
    BY <1>6 DEF InsertAudit
  <2>2. pc[s] = "auditInsert" /\ Advance(s, "commit")
    BY <1>6 DEF InsertAudit
  <2>3. /\ sess'[s].op = sess[s].op /\ sess'[s].row = sess[s].row /\ sess'[s].ref = sess[s].ref
        /\ sess'[s].at = sess[s].at /\ sess'[s].from = sess[s].from
    BY <2>1 DEF TypeOK, Session
  <2>4. pc'[s] = "commit" /\ \A t \in Sessions \ {s} : Stays(t)
    BY <2>1, <2>2 DEF Advance, TypeOK, Stays
  <2> QED
    BY <1>6, <2>2, <2>3, <2>4 DEF Moves
<1>7. CASE CommitCreate(s) \/ CommitStatus(s)
  <2>1. pc[s] = "commit" /\ Advance(s, "refresh") /\ UNCHANGED sess
    BY <1>7 DEF CommitCreate, CommitStatus, CommitTimelineAndAudit
  <2> QED
    BY <1>2, <1>7, <2>1 DEF Moves
<1>8. CASE Refresh(s)
  <2>1. /\ pc[s] = "refresh" /\ Advance(s, "publish")
        /\ sess' = [sess EXCEPT ![s].row = incidents[sess[s].ref]]
    BY <1>8 DEF Refresh
  <2>2. pc'[s] = "publish" /\ \A t \in Sessions \ {s} : Stays(t)
    BY <2>1 DEF Advance, TypeOK, Stays
  <2>3. /\ sess'[s].op = sess[s].op /\ sess'[s].ref = sess[s].ref
        /\ sess'[s].at = sess[s].at /\ sess'[s].from = sess[s].from
    BY <2>1 DEF TypeOK, Session
  <2> QED
    BY <1>8, <2>1, <2>2, <2>3 DEF Moves
<1>9. CASE CommitAssign(s) \/ CommitNote(s) \/ PublishIncidentEvent(s) \/ Crash(s)
  BY <1>1, <1>9 DEF CommitAssign, CommitNote, PublishIncidentEvent, Crash, Ends
<1> QED
  BY <1>3, <1>4, <1>5, <1>6, <1>7, <1>8, <1>9 DEF Step

LEMMA LifeOfStart ==
    ASSUME TypeInv, NEW s \in Sessions,
           (s \in Handlers /\ StartRequest(s)) \/ (s \in Consumers /\ ConsumeAlert(s))
    PROVE  /\ \A t \in Sessions \ {s} : Stays(t)
           /\ Starts(s) \/ Stays(s)
<1> USE DEF TypeInv
<1>1. ASSUME NEW record, NEW step, Begin(s, record, step), record.at = clock,
             UNCHANGED <<dbVars, events>>
      PROVE  (\A t \in Sessions \ {s} : Stays(t)) /\ Starts(s)
  BY <1>1, BeginLocal DEF Stays, Starts, Begin
<1>2. CASE s \in Handlers /\ StartRequest(s)
  <2>1. UNCHANGED <<dbVars, events>>
    BY <1>2 DEF StartRequest, CreateIncident, UpdateStatus, AssignIncident, AddNote, Request
  <2>2. CASE CreateIncident(s)
    <3>1. PICK v \in Severities, n \in BOOLEAN :
            Begin(s, [NoSession EXCEPT
                        !.op = "create", !.ref = NextReference, !.at = clock,
                        !.row = NewRow(v, n, NoAlert)], "insert")
      BY <2>2 DEF CreateIncident
    <3> DEFINE record == [NoSession EXCEPT
                        !.op = "create", !.ref = NextReference, !.at = clock,
                        !.row = NewRow(v, n, NoAlert)]
    <3>2. record.at = clock
      BY NoSessionType DEF Session
    <3> HIDE DEF record
    <3> QED
      BY <1>1, <2>1, <3>1, <3>2 DEF record
  <2>3. CASE UpdateStatus(s)
    <3>1. PICK r \in DOMAIN incidents, target \in Statuses :
            Begin(s, [NoSession EXCEPT
                 !.op = "status", !.ref = r, !.at = clock, !.from = incidents[r].status,
                 !.row = [incidents[r] EXCEPT
                    !.status = target,
                    !.stamped = StampStatusTimestamps(incidents[r].stamped, target)]],
                 "flush")
      BY <2>3 DEF UpdateStatus
    <3> DEFINE record == [NoSession EXCEPT
                 !.op = "status", !.ref = r, !.at = clock, !.from = incidents[r].status,
                 !.row = [incidents[r] EXCEPT
                    !.status = target,
                    !.stamped = StampStatusTimestamps(incidents[r].stamped, target)]]
    <3>2. record.at = clock
      BY NoSessionType DEF Session
    <3> HIDE DEF record
    <3> QED
      BY <1>1, <2>1, <3>1, <3>2 DEF record
  <2>4. CASE AssignIncident(s)
    <3>1. PICK r \in DOMAIN incidents, analyst \in Analysts :
            Begin(s, [NoSession EXCEPT
                 !.op = "assign", !.ref = r, !.at = clock,
                 !.row = [incidents[r] EXCEPT !.assignee = analyst]], "flush")
      BY <2>4 DEF AssignIncident
    <3> DEFINE record == [NoSession EXCEPT
                 !.op = "assign", !.ref = r, !.at = clock,
                 !.row = [incidents[r] EXCEPT !.assignee = analyst]]
    <3>2. record.at = clock
      BY NoSessionType DEF Session
    <3> HIDE DEF record
    <3> QED
      BY <1>1, <2>1, <3>1, <3>2 DEF record
  <2>5. CASE AddNote(s)
    <3>1. PICK r \in DOMAIN incidents :
            Begin(s, [NoSession EXCEPT !.op = "note", !.ref = r, !.at = clock], "audit")
      BY <2>5 DEF AddNote
    <3> DEFINE record == [NoSession EXCEPT !.op = "note", !.ref = r, !.at = clock]
    <3>2. record.at = clock
      BY NoSessionType DEF Session
    <3> HIDE DEF record
    <3> QED
      BY <1>1, <2>1, <3>1, <3>2 DEF record
  <2> QED
    BY <1>2, <2>2, <2>3, <2>4, <2>5 DEF StartRequest
<1>3. CASE s \in Consumers /\ ConsumeAlert(s)
  <2> DEFINE msg == alertLog[position + 1]
             record == [NoSession EXCEPT !.op = "create", !.at = clock,
                                         !.row = NewRow(msg.severity, FALSE, msg.alert)]
  <2>1. UNCHANGED <<dbVars, events>> /\ (Begin(s, record, "count") \/ UNCHANGED <<pc, sess>>)
    BY <1>3 DEF ConsumeAlert
  <2>2. record.at = clock
    BY NoSessionType DEF Session
  <2> HIDE DEF record
  <2> QED
    BY <1>1, <2>1, <2>2 DEF Stays
<1> QED
  BY <1>2, <1>3

\* Any step, as session t sees it.
LEMMA Life ==
    ASSUME TypeInv, [Next]_vars, NEW t \in Sessions
    PROVE  Stays(t) \/ Ends(t) \/ Moves(t) \/ Starts(t)
<1>1. CASE UNCHANGED vars \/ Quiescent \/ AlertPublished \/ AutoCommit
  BY <1>1 DEF vars, Quiescent, AlertPublished, AutoCommit, Stays
<1>2. CASE \E c \in Consumers : Rebalance(c)
  BY <1>2 DEF Rebalance, Stays
<1>3. ASSUME NEW c \in Consumers, CountIncidents(c)
      PROVE  Stays(t) \/ Moves(t)
  <2>1. c \in Sessions
    BY DEF Sessions
  <2>2. pc[c] = "count" /\ pc'[c] = "insert" /\ \A u \in Sessions \ {c} : Stays(u)
    BY <1>3, <2>1 DEF CountIncidents, TypeInv, TypeOK, Stays
  <2>3. /\ sess'[c].op = sess[c].op /\ sess'[c].row = sess[c].row
        /\ sess'[c].at = sess[c].at /\ sess'[c].from = sess[c].from
    BY <1>3, <2>1 DEF CountIncidents, TypeInv, TypeOK, Session
  <2> QED
    BY <1>3, <2>2, <2>3 DEF Moves
<1>4. ASSUME NEW h \in Handlers, StartRequest(h)
      PROVE  Stays(t) \/ Starts(t)
  <2>1. h \in Sessions
    BY DEF Sessions
  <2>2. (\A u \in Sessions \ {h} : Stays(u)) /\ (Starts(h) \/ Stays(h))
    BY <1>4, <2>1, LifeOfStart
  <2> QED
    BY <2>2
<1>5. ASSUME NEW c \in Consumers, ConsumeAlert(c)
      PROVE  Stays(t) \/ Starts(t)
  <2>1. c \in Sessions
    BY DEF Sessions
  <2>2. (\A u \in Sessions \ {c} : Stays(u)) /\ (Starts(c) \/ Stays(c))
    BY <1>5, <2>1, LifeOfStart
  <2> QED
    BY <2>2
<1>6. ASSUME NEW s \in Sessions, Step(s) \/ Crash(s)
      PROVE  Stays(t) \/ Ends(t) \/ Moves(t)
  BY <1>6, LifeOfStep
<1> QED
  BY <1>1, <1>2, <1>3, <1>4, <1>5, <1>6 DEF Next

------------------------------------------------------------------------------
(* Commits, as the tables see them.                                        *)

\* A new incident takes a number nobody has.
LEMMA NewIncident ==
    ASSUME TypeInv, GapInv, NEW s \in Sessions, CommitCreate(s)
    PROVE  /\ sess[s].ref \notin DOMAIN incidents
           /\ DOMAIN incidents' = DOMAIN incidents \cup {sess[s].ref}
           /\ incidents'[sess[s].ref] = sess[s].row
           /\ \A r \in DOMAIN incidents : incidents'[r] = incidents[r]
           /\ pc[s] = "commit" /\ sess[s].op = "create" /\ UNCHANGED sess
           /\ pc'[s] = "refresh" /\ \A t \in Sessions \ {s} : pc'[t] = pc[t]
<1>1. /\ pc[s] = "commit" /\ sess[s].op = "create"
      /\ incidents' = [r \in DOMAIN incidents \cup {sess[s].ref} |->
                          IF r = sess[s].ref THEN sess[s].row ELSE incidents[r]]
      /\ Advance(s, "refresh") /\ UNCHANGED sess
  BY DEF CommitCreate, CommitTimelineAndAudit
<1>2. sess[s].ref = Count + 1 /\ DOMAIN incidents = 1..Count /\ Count \in Nat
  BY <1>1, ReferenceType DEF GapInv, ReferencesGapFree, ReferenceOK, Inserting, InTransaction, TypeInv
<1>3. sess[s].ref \notin DOMAIN incidents
  BY <1>2
<1> QED
  BY <1>1, <1>3, AdvanceLocal DEF TypeInv

\* An update keeps what an incident was opened with, and takes back no
\* timestamp; only a status change sets the status.
LEMMA UpdatedIncident ==
    ASSUME TypeInv, NEW s \in Sessions, CommitStatus(s) \/ CommitAssign(s), NEW r \in DOMAIN incidents
    PROVE  /\ DOMAIN incidents' = DOMAIN incidents
           /\ incidents'[r].severity = incidents[r].severity
           /\ incidents'[r].ndpa = incidents[r].ndpa
           /\ incidents'[r].source = incidents[r].source
           /\ incidents[r].stamped \subseteq incidents'[r].stamped
           /\ incidents'[r].status = IF CommitStatus(s) /\ r = sess[s].ref
                                     THEN sess[s].row.status ELSE incidents[r].status
<1>1. incidents[r] \in Row
  BY DEF TypeInv, TypeOK
<1>2. CASE CommitStatus(s)
  BY <1>1, <1>2 DEF CommitStatus, Row
<1>3. CASE CommitAssign(s)
  <2>1. ~CommitStatus(s)
    BY <1>3 DEF CommitAssign, CommitStatus
  <2> QED
    BY <1>1, <1>3, <2>1 DEF CommitAssign, Row
<1> QED
  BY <1>2, <1>3

\* No incident disappears, and no timestamp is taken back.
LEMMA IncidentsGrow ==
    ASSUME TypeInv, GapInv, [Next]_vars, NEW r \in DOMAIN incidents
    PROVE  /\ r \in DOMAIN incidents'
           /\ incidents'[r].source = incidents[r].source
           /\ incidents[r].stamped \subseteq incidents'[r].stamped
<1>1. ASSUME NEW s \in Sessions, CommitCreate(s)
      PROVE  r \in DOMAIN incidents' /\ incidents'[r] = incidents[r]
  BY <1>1, NewIncident
<1> QED
  BY <1>1, IncidentCases, UpdatedIncident

\* The tables of drafts and of the timeline change in a commit.
LEMMA HistoryCases ==
    ASSUME TypeInv, [Next]_vars
    PROVE  \/ UNCHANGED <<incidents, timeline, notifications>>
           \/ \E s \in Sessions : CommitCreate(s) \/ CommitStatus(s) \/ CommitAssign(s) \/ CommitNote(s)
BY DEF Next, vars, dbVars, StartRequest, CreateIncident, UpdateStatus, AssignIncident,
       AddNote, Request, ConsumeAlert, CountIncidents, Rebalance, AlertPublished,
       AutoCommit, Quiescent, Step, Crash, InsertIncident, FlushUpdate, SelectLastAudit,
       InsertAudit, Refresh, PublishIncidentEvent

------------------------------------------------------------------------------
(* Drafts and the timeline.                                                *)

Drafting == {e \in timeline : e.kind \in {"CBN", "NDPC"}}

\* The entries an update commits draft nothing.
LEMMA UpdateDraftsNothing ==
    ASSUME TypeInv, NEW s \in Sessions, CommitStatus(s) \/ CommitAssign(s) \/ CommitNote(s)
    PROVE  Drafting' = Drafting /\ UNCHANGED notifications
<1>1. /\ timeline' = timeline \cup Entries(s) /\ UNCHANGED notifications
      /\ sess[s].op \in {"status", "assign", "note"}
  BY DEF CommitStatus, CommitAssign, CommitNote, CommitTimelineAndAudit
<1>2. ASSUME NEW e \in Entries(s)
      PROVE  e.kind \notin {"CBN", "NDPC"}
  <2>1. CASE sess[s].op = "status"
    BY <1>2, <2>1 DEF Entries, StatusEntry, Entry
  <2>2. CASE sess[s].op \in {"assign", "note"}
    BY <1>2, <2>2 DEF Entries, Entry
  <2> QED
    BY <1>1, <2>1, <2>2
<1> QED
  BY <1>1, <1>2 DEF Drafting

CalledFor(d) == IF d[2] = "CBN" THEN incidents[d[1]].severity >= High ELSE incidents[d[1]].ndpa

DraftsAreRight == notifications = {d \in (DOMAIN incidents) \X {"CBN", "NDPC"} : CalledFor(d)}
DraftsAreRecorded == notifications = {<<e.ref, e.kind>> : e \in Drafting}

LEMMA DraftsDefinition ==
    /\ DraftsMatchTimeline <=> DraftsAreRight /\ DraftsAreRecorded
    /\ DraftsMatchTimeline' <=> DraftsAreRight' /\ DraftsAreRecorded'
BY DEF DraftsMatchTimeline, DraftsAreRight, DraftsAreRecorded, CalledFor, Drafting

LEMMA DraftsCreate ==
    ASSUME TypeInv, GapInv, DraftsMatchTimeline, NEW s \in Sessions, CommitCreate(s)
    PROVE  DraftsMatchTimeline'
<1>a. PICK new : new = sess[s].ref
  OBVIOUS
<1>b. PICK row : row = sess[s].row
  OBVIOUS
<1>c. PICK drafts : drafts = DraftsFor(row.severity, row.ndpa)
  OBVIOUS
<1>1. /\ new \notin DOMAIN incidents /\ DOMAIN incidents' = DOMAIN incidents \cup {new}
      /\ incidents'[new] = row /\ \A r \in DOMAIN incidents : incidents'[r] = incidents[r]
      /\ sess[s].op = "create"
  BY <1>a, <1>b, NewIncident
<1>2. /\ notifications' = notifications \cup ({new} \X drafts)
      /\ timeline' = timeline \cup Entries(s)
  BY <1>a, <1>b, <1>c DEF CommitCreate, CommitTimelineAndAudit
<1>3. drafts = {g \in {"CBN", "NDPC"} : IF g = "CBN" THEN row.severity >= High ELSE row.ndpa}
  BY <1>c DEF DraftsFor, RequiresCbn
<1>4. DraftsAreRight'
  <2>1. \A d \in (DOMAIN incidents) \X {"CBN", "NDPC"} : CalledFor(d)' <=> CalledFor(d)
    BY <1>1 DEF CalledFor
  <2>2. \A g \in {"CBN", "NDPC"} : CalledFor(<<new, g>>)' <=> g \in drafts
    <3>1. CalledFor(<<new, "CBN">>)' <=> "CBN" \in drafts
      BY <1>1, <1>3 DEF CalledFor
    <3>2. CalledFor(<<new, "NDPC">>)' <=> "NDPC" \in drafts
      BY <1>1, <1>3 DEF CalledFor
    <3> QED
      BY <3>1, <3>2
  <2>3. DraftsAreRight
    BY DraftsDefinition
  <2>a. drafts \subseteq {"CBN", "NDPC"}
    BY <1>3
  <2>4. \A d : d \in notifications' <=> d \in (DOMAIN incidents') \X {"CBN", "NDPC"} /\ CalledFor(d)'
    <3>1. ASSUME NEW d
          PROVE  d \in notifications' <=> d \in notifications \/ \E g \in drafts : d = <<new, g>>
      BY <1>2
    <3>2. ASSUME NEW d
          PROVE  d \in (DOMAIN incidents') \X {"CBN", "NDPC"}
                    <=> d \in (DOMAIN incidents) \X {"CBN", "NDPC"}
                        \/ \E g \in {"CBN", "NDPC"} : d = <<new, g>>
      BY <1>1
    <3>3. ASSUME NEW d
          PROVE  d \in notifications <=> d \in (DOMAIN incidents) \X {"CBN", "NDPC"} /\ CalledFor(d)
      BY <2>3 DEF DraftsAreRight
    <3> QED
      BY <2>a, <2>1, <2>2, <3>1, <3>2, <3>3
  <2> QED
    BY <2>4 DEF DraftsAreRight
<1>5. DraftsAreRecorded'
  <2>1. Entries(s) = {Entry(s, "created", "none", "open")}
                       \cup {Entry(s, g, "none", "none") : g \in drafts}
    BY <1>1, <1>b, <1>c DEF Entries
  <2>2. \A g \in drafts : Entry(s, g, "none", "none").kind = g /\ Entry(s, g, "none", "none").ref = new
    BY <1>a DEF Entry
  <2>3. Entry(s, "created", "none", "open").kind \notin {"CBN", "NDPC"}
    BY DEF Entry
  <2>4. drafts \subseteq {"CBN", "NDPC"}
    BY <1>3
  <2>5. Drafting' = Drafting \cup {Entry(s, g, "none", "none") : g \in drafts}
    BY <1>2, <2>1, <2>2, <2>3, <2>4 DEF Drafting
  <2>6. notifications' = {<<e.ref, e.kind>> : e \in Drafting'}
    BY <1>2, <2>2, <2>5, DraftsDefinition DEF DraftsAreRecorded
  <2> QED
    BY <2>6 DEF DraftsAreRecorded
<1> QED
  BY <1>4, <1>5, DraftsDefinition

LEMMA DraftsStep ==
    ASSUME TypeInv, GapInv, DraftsMatchTimeline, [Next]_vars
    PROVE  DraftsMatchTimeline'
<1>1. CASE UNCHANGED <<incidents, timeline, notifications>>
  BY <1>1 DEF DraftsMatchTimeline
<1>2. ASSUME NEW s \in Sessions, CommitStatus(s) \/ CommitAssign(s) \/ CommitNote(s)
      PROVE  DraftsMatchTimeline'
  <2>1. Drafting' = Drafting /\ UNCHANGED notifications
    BY <1>2, UpdateDraftsNothing
  <2>2. DraftsAreRecorded'
    BY <2>1, DraftsDefinition DEF DraftsAreRecorded
  <2>3. /\ DOMAIN incidents' = DOMAIN incidents
        /\ \A d \in (DOMAIN incidents) \X {"CBN", "NDPC"} : CalledFor(d)' <=> CalledFor(d)
    <3>1. CASE CommitNote(s)
      BY <3>1 DEF CommitNote, CalledFor
    <3>2. CASE CommitStatus(s) \/ CommitAssign(s)
      <4>1. DOMAIN incidents' = DOMAIN incidents
        BY <3>2 DEF CommitStatus, CommitAssign
      <4>2. \A r \in DOMAIN incidents : /\ incidents'[r].severity = incidents[r].severity
                                        /\ incidents'[r].ndpa = incidents[r].ndpa
        BY <3>2, UpdatedIncident
      <4> QED
        BY <4>1, <4>2 DEF CalledFor
    <3> QED
      BY <1>2, <3>1, <3>2
  <2>4. DraftsAreRight'
    BY <2>1, <2>3, DraftsDefinition DEF DraftsAreRight
  <2> QED
    BY <2>2, <2>4, DraftsDefinition
<1> QED
  BY <1>1, <1>2, HistoryCases, DraftsCreate

------------------------------------------------------------------------------
(* Published events.                                                       *)

IsFact(e) ==
    /\ e.ref \in DOMAIN incidents
    /\ e.status \in Stamps => e.status \in incidents[e.ref].stamped

Opened(k, r) == events[k].type = "incident.opened" /\ events[k].ref = r

\* A session between the commit of a creation and its announcement.
Announcing(s) == pc[s] \in {"refresh", "publish"} /\ sess[s].op = "create"

\* What is about to be announced is a fact; a new incident is announced by the
\* session that made it, and has not been announced before.
AnnouncementOK(s) ==
    /\ pc[s] = "publish" => IsFact([ref |-> sess[s].ref, status |-> sess[s].row.status])
    /\ Announcing(s) => \A k \in DOMAIN events : ~Opened(k, sess[s].ref)

OneAnnouncer ==
    \A s, t \in Sessions :
        Announcing(s) /\ Announcing(t) /\ sess[s].ref = sess[t].ref => s = t

FactInv == EventsAreFacts /\ OneAnnouncer /\ \A s \in Sessions : AnnouncementOK(s)

LEMMA FactsStay ==
    ASSUME TypeInv, GapInv, [Next]_vars, NEW e, IsFact(e)
    PROVE  IsFact(e)'
BY IncidentsGrow DEF IsFact

\* The topic changes when a session publishes.
LEMMA EventCases ==
    ASSUME TypeInv, [Next]_vars
    PROVE  \/ UNCHANGED events
           \/ \E s \in Sessions : PublishIncidentEvent(s) /\ events' = Append(events, EventOf(s))
<1>1. \/ UNCHANGED events
      \/ \E s \in Sessions : PublishIncidentEvent(s)
  BY DEF Next, vars, StartRequest, CreateIncident, UpdateStatus, AssignIncident,
         AddNote, Request, ConsumeAlert, CountIncidents, Rebalance, AlertPublished,
         AutoCommit, Quiescent, Step, Crash, InsertIncident, FlushUpdate, SelectLastAudit,
         InsertAudit, CommitCreate, CommitStatus, CommitAssign, CommitNote,
         CommitTimelineAndAudit, Refresh
<1>2. ASSUME NEW s \in Sessions, PublishIncidentEvent(s)
      PROVE  events' = Append(events, EventOf(s)) \/ events' = events
  BY <1>2 DEF PublishIncidentEvent
<1> QED
  BY SMTT(30), <1>1, <1>2

\* A session that comes to announce a new incident has just committed it, and
\* one that comes to publish has just reloaded its row.
LEMMA Announces ==
    ASSUME TypeInv, [Next]_vars, NEW t \in Sessions, Announcing(t)'
    PROVE  /\ sess'[t].ref = sess[t].ref
           /\ Announcing(t) \/ CommitCreate(t)
<1>1. ~Ends(t)
  BY DEF Ends, Announcing
<1>2. CASE Stays(t)
  BY <1>2 DEF Stays, Announcing
<1>3. CASE Moves(t)
  <2>1. ~CountIncidents(t)
    BY <1>3 DEF Moves, Announcing, CountIncidents, Advance, TypeInv, TypeOK
  <2>2. CASE CommitCreate(t)
    BY <1>3, <2>1, <2>2 DEF Moves
  <2>3. CASE Refresh(t)
    BY <1>3, <2>1, <2>3 DEF Moves, Announcing, Refresh
  <2>4. CASE CommitStatus(t)
    BY <1>3, <2>4 DEF Moves, Announcing, CommitStatus
  <2> QED
    BY <1>3, <2>2, <2>3, <2>4 DEF Moves, Announcing
<1>4. ~Starts(t)
  <2> SUFFICES ASSUME Starts(t) PROVE FALSE
    OBVIOUS
  <2>1. CASE t \in Handlers /\ StartRequest(t)
    <3>1. PICK record, step : Begin(t, record, step) /\ step \in {"insert", "flush", "audit"}
      BY <2>1 DEF StartRequest, CreateIncident, UpdateStatus, AssignIncident, AddNote
    <3> QED
      BY <3>1, BeginLocal DEF Announcing, TypeInv
  <2>2. CASE t \in Consumers /\ ConsumeAlert(t)
    <3>1. UNCHANGED <<pc, sess>> \/ \E record : Begin(t, record, "count")
      BY <2>2 DEF ConsumeAlert
    <3>2. pc'[t] = pc[t] \/ pc'[t] = "count"
      BY <3>1, BeginLocal DEF TypeInv
    <3> QED
      BY <3>2 DEF Announcing, Starts
  <2> QED
    BY <2>1, <2>2 DEF Starts
<1> QED
  BY <1>1, <1>2, <1>3, <1>4, Life

LEMMA OneAnnouncerStep ==
    ASSUME TypeInv, GapInv, OneAnnouncer, [Next]_vars
    PROVE  OneAnnouncer'
<1> SUFFICES ASSUME NEW s \in Sessions, NEW t \in Sessions, Announcing(s)', Announcing(t)',
                    sess'[s].ref = sess'[t].ref
             PROVE  s = t
  BY DEF OneAnnouncer
<1>1. sess[s].ref = sess[t].ref
  BY Announces
<1>2. ASSUME NEW a \in Sessions, NEW b \in Sessions, CommitCreate(a), Announcing(b), sess[a].ref = sess[b].ref
      PROVE  FALSE
  <2>1. sess[a].ref \notin DOMAIN incidents
    BY <1>2, NewIncident
  <2>2. sess[b].ref \in DOMAIN incidents
    BY <1>2 DEF Announcing, TypeInv, SessionInv, SessionOK
  <2> QED
    BY <1>2, <2>1, <2>2
<1>3. CASE CommitCreate(s) /\ CommitCreate(t)
  <2>1. pc'[s] = "refresh" /\ pc[t] = "commit" /\ \A u \in Sessions \ {t} : pc'[u] = pc[u]
    BY <1>3, NewIncident
  <2>2. pc[s] = "commit"
    BY <1>3, NewIncident
  <2> QED
    BY <2>1, <2>2
<1> QED
  BY <1>1, <1>2, <1>3, Announces DEF OneAnnouncer

LEMMA AnnouncementStep ==
    ASSUME TypeInv, GapInv, StampInv, FactInv, [Next]_vars, NEW t \in Sessions
    PROVE  AnnouncementOK(t)'
<1>1. ASSUME pc'[t] = "publish"
      PROVE  IsFact([ref |-> sess[t].ref, status |-> sess[t].row.status])'
  <2>1. CASE Stays(t)
    <3>1. PICK e : e = [ref |-> sess[t].ref, status |-> sess[t].row.status]
      OBVIOUS
    <3>2. IsFact(e) /\ [ref |-> sess'[t].ref, status |-> sess'[t].row.status] = e
      BY <1>1, <2>1, <3>1 DEF Stays, FactInv, AnnouncementOK
    <3>3. IsFact(e)'
      BY <3>2, FactsStay
    <3> QED
      BY <3>2, <3>3 DEF IsFact
  <2>2. CASE Refresh(t)
    <3>1. /\ pc[t] = "refresh" /\ UNCHANGED incidents
          /\ sess' = [sess EXCEPT ![t].row = incidents[sess[t].ref]]
      BY <2>2 DEF Refresh, dbVars
    <3>2. sess'[t].ref = sess[t].ref /\ sess'[t].row = incidents[sess[t].ref]
      BY <3>1 DEF TypeInv, TypeOK, Session
    <3>3. sess[t].ref \in DOMAIN incidents
      BY <3>1 DEF TypeInv, SessionInv, SessionOK
    <3> QED
      BY <3>1, <3>2, <3>3 DEF IsFact, StampInv, StampsMatchStatus
  <2>3. CASE Starts(t)
    <3>1. CASE t \in Handlers /\ StartRequest(t)
      <4>1. PICK record, step : Begin(t, record, step) /\ step \in {"insert", "flush", "audit"}
        BY <3>1 DEF StartRequest, CreateIncident, UpdateStatus, AssignIncident, AddNote
      <4> QED
        BY <1>1, <4>1, BeginLocal DEF TypeInv
    <3>2. CASE t \in Consumers /\ ConsumeAlert(t)
      <4>1. UNCHANGED <<pc, sess>> \/ \E record : Begin(t, record, "count")
        BY <3>2 DEF ConsumeAlert
      <4>2. pc'[t] = pc[t] \/ pc'[t] = "count"
        BY <4>1, BeginLocal DEF TypeInv
      <4> QED
        BY <1>1, <2>3, <4>2 DEF Starts
    <3> QED
      BY <2>3, <3>1, <3>2 DEF Starts
  <2>4. CASE Moves(t) \/ Ends(t)
    BY <1>1, <2>2, <2>4 DEF Moves, Ends
  <2> QED
    BY <2>1, <2>3, <2>4, Life
<1>2. ASSUME Announcing(t)', NEW k \in DOMAIN events', Opened(k, sess[t].ref)'
      PROVE  FALSE
  <2>1. events'[k].type = "incident.opened" /\ events'[k].ref = sess[t].ref
    BY <1>2, Announces DEF Opened
  <2>2. ASSUME NEW j \in DOMAIN events, Opened(j, sess[t].ref)
        PROVE  FALSE
    <3>1. CASE Announcing(t)
      BY <2>2, <3>1 DEF FactInv, AnnouncementOK
    <3>2. CASE CommitCreate(t)
      BY <2>2, <3>2, NewIncident DEF FactInv, EventsAreFacts, Opened
    <3> QED
      BY <1>2, <3>1, <3>2, Announces
  <2>3. CASE UNCHANGED events
    BY <1>2, <2>1, <2>2, <2>3 DEF Opened
  <2>4. ASSUME NEW s \in Sessions, PublishIncidentEvent(s), events' = Append(events, EventOf(s))
        PROVE  FALSE
    <3>1. events \in Seq(Event)
      BY DEF TypeInv, TypeOK
    <3>2. \/ k \in DOMAIN events /\ events'[k] = events[k]
          \/ events'[k] = EventOf(s)
      BY <1>2, <2>4, <3>1
    <3>3. events'[k] = EventOf(s)
      BY <2>1, <2>2, <3>2 DEF Opened
    <3>4. sess[s].op = "create" /\ sess[s].ref = sess[t].ref /\ pc[s] = "publish"
      BY <2>1, <2>4, <3>3 DEF EventOf, PublishIncidentEvent
    <3>5. pc'[s] = "idle"
      BY <2>4, FinishLocal DEF PublishIncidentEvent, TypeInv
    <3>6. s # t
      BY <1>2, <3>5 DEF Announcing
    <3>7. Announcing(t)
      <4>1. ~CommitCreate(t)
        <5>1. pc'[s] = pc[s] \/ ~CommitCreate(t)
          BY <3>6, NewIncident
        <5> QED
          BY <3>4, <3>5, <5>1
      <4> QED
        BY <1>2, <4>1, Announces
    <3> QED
      BY <3>4, <3>6, <3>7 DEF FactInv, OneAnnouncer, Announcing
  <2> QED
    BY <2>3, <2>4, EventCases
<1> QED
  BY <1>1, <1>2 DEF AnnouncementOK

LEMMA EventsStep ==
    ASSUME TypeInv, GapInv, FactInv, [Next]_vars
    PROVE  EventsAreFacts'
<1>1. \A k \in DOMAIN events : IsFact(events[k])'
  <2> TAKE k \in DOMAIN events
  <2>1. PICK e : e = events[k]
    OBVIOUS
  <2>2. IsFact(e)
    BY <2>1 DEF FactInv, EventsAreFacts, IsFact
  <2>3. PICK f : f = events'[k]
    OBVIOUS
  <2>4. IsFact(e)'
    BY <2>2, FactsStay
  <2>5. CASE UNCHANGED events
    BY <2>1, <2>4, <2>5 DEF IsFact
  <2>6. ASSUME NEW s \in Sessions, events' = Append(events, EventOf(s))
        PROVE  events'[k] = e
    BY <2>1, <2>6 DEF TypeInv, TypeOK
  <2> QED
    BY <2>4, <2>5, <2>6, EventCases DEF IsFact
<1>2. CASE UNCHANGED events
  BY <1>1, <1>2 DEF FactInv, EventsAreFacts, IsFact
<1>3. ASSUME NEW s \in Sessions, PublishIncidentEvent(s), events' = Append(events, EventOf(s))
      PROVE  EventsAreFacts'
  <2>1. events \in Seq(Event)
    BY DEF TypeInv, TypeOK
  <2>2. /\ DOMAIN events' = 1..(Len(events) + 1) /\ Len(events) \in Nat /\ DOMAIN events = 1..Len(events)
        /\ \A k \in DOMAIN events : events'[k] = events[k]
        /\ events'[Len(events) + 1] = EventOf(s)
    BY <1>3, <2>1
  <2>3. pc[s] = "publish" /\ UNCHANGED incidents
    BY <1>3 DEF PublishIncidentEvent, dbVars
  <2>4. IsFact([ref |-> sess[s].ref, status |-> sess[s].row.status])
    BY <2>3 DEF FactInv, AnnouncementOK
  <2>5. EventOf(s).ref = sess[s].ref /\ EventOf(s).status = sess[s].row.status
    BY DEF EventOf
  <2>6. IsFact(EventOf(s))
    BY <2>4, <2>5 DEF IsFact
  <2>7. \A k \in DOMAIN events' : events'[k].ref \in DOMAIN incidents' /\
             (events'[k].status \in Stamps => events'[k].status \in incidents'[events'[k].ref].stamped)
    BY <1>1, <2>2, <2>3, <2>6 DEF IsFact
  <2>8. ASSUME NEW j \in DOMAIN events, Opened(j, sess[s].ref), EventOf(s).type = "incident.opened"
        PROVE  FALSE
    <3>1. Announcing(s)
      BY <2>3, <2>8 DEF Announcing, EventOf
    <3> QED
      BY <2>8, <3>1 DEF FactInv, AnnouncementOK
  <2>9. ASSUME NEW j \in DOMAIN events', NEW k \in DOMAIN events',
               events'[j].type = "incident.opened" /\ events'[k].type = "incident.opened",
               events'[j].ref = events'[k].ref
        PROVE  j = k
    <3>1. CASE j \in DOMAIN events /\ k \in DOMAIN events
      BY <2>2, <2>9, <3>1 DEF FactInv, EventsAreFacts
    <3>2. CASE j \in DOMAIN events /\ k = Len(events) + 1
      BY <2>2, <2>5, <2>8, <2>9, <3>2 DEF Opened
    <3>3. CASE k \in DOMAIN events /\ j = Len(events) + 1
      BY <2>2, <2>5, <2>8, <2>9, <3>3 DEF Opened
    <3> QED
      BY <2>2, <2>9, <3>1, <3>2, <3>3
  <2> QED
    BY <2>7, <2>9 DEF EventsAreFacts
<1> QED
  BY <1>2, <1>3, EventCases

------------------------------------------------------------------------------
(* The chain of the audit log, when incidents are only created.            *)

OpensOnly == \A s \in Sessions : sess[s].op \in {"create", "none"}

LEMMA OpensOnlyStep ==
    ASSUME HttpOps \subseteq {"create"}, TypeInv, OpensOnly, [Next]_vars
    PROVE  OpensOnly'
<1> SUFFICES ASSUME NEW t \in Sessions PROVE sess'[t].op \in {"create", "none"}
  BY DEF OpensOnly
<1>1. CASE Stays(t)
  BY <1>1 DEF Stays, OpensOnly
<1>2. CASE Ends(t)
  BY <1>2, NoSessionType DEF Ends
<1>3. CASE Moves(t)
  BY <1>3 DEF Moves, OpensOnly
<1>4. CASE t \in Handlers /\ StartRequest(t)
  <2>1. CreateIncident(t)
    BY <1>4 DEF StartRequest, UpdateStatus, AssignIncident, AddNote, Request
  <2>2. PICK v \in Severities, n \in BOOLEAN :
          Begin(t, [NoSession EXCEPT
                      !.op = "create", !.ref = NextReference, !.at = clock,
                      !.row = NewRow(v, n, NoAlert)], "insert")
    BY <2>1 DEF CreateIncident
  <2> DEFINE record == [NoSession EXCEPT
                      !.op = "create", !.ref = NextReference, !.at = clock,
                      !.row = NewRow(v, n, NoAlert)]
  <2>3. sess'[t] = record
    BY <2>2, BeginLocal DEF TypeInv
  <2> QED
    BY <2>3, NoSessionType DEF Session
<1>5. CASE t \in Consumers /\ ConsumeAlert(t)
  <2>1. CASE UNCHANGED <<pc, sess>>
    BY <2>1 DEF OpensOnly
  <2> QED
    BY <1>5, <2>1, ConsumedRow
<1> QED
  BY <1>1, <1>2, <1>3, <1>4, <1>5, Life DEF Starts

\* The row a session chains to is the newest until it commits; the row it
\* inserts is newer.
NewestRow(n) == /\ n \in {0} \cup {a.id : a \in audit}
                /\ \A a \in audit : a.id <= n

ChainOK(s) ==
    /\ pc[s] \in {"auditInsert", "commit"} => NewestRow(sess[s].prev)
    /\ pc[s] = "commit" => /\ 0 < sess[s].aid /\ sess[s].aid <= auditSeq
                           /\ \A a \in audit : a.id < sess[s].aid

ChainInv ==
    /\ AuditChainVerifies
    /\ \A a \in audit : 0 < a.id /\ a.id <= auditSeq
    /\ \A s \in Sessions : ChainOK(s)

LEMMA ChainStep ==
    ASSUME TypeInv, GapInv, OpensOnly, ChainInv, [Next]_vars
    PROVE  ChainInv'
<1>0. /\ TypeOK /\ auditSeq \in Nat /\ audit \subseteq AuditRow
      /\ sess \in [Sessions -> Session] /\ pc \in [Sessions -> Steps]
  BY DEF TypeInv, TypeOK
<1>1. CASE AuditFrame
  <2>1. UNCHANGED <<audit, auditSeq>> /\ \A t \in Sessions : AuditKept(t)
    BY <1>1 DEF AuditFrame
  <2>2. AuditChainVerifies'
    BY <2>1 DEF ChainInv, AuditChainVerifies
  <2>3. \A t \in Sessions : ChainOK(t)'
    BY <2>1 DEF ChainInv, ChainOK, AuditKept, NewestRow
  <2> QED
    BY <2>1, <2>2, <2>3 DEF ChainInv
<1>2. ASSUME NEW s \in Sessions, SelectLastAudit(s)
      PROVE  ChainInv'
  <2>1. PICK n \in 0..auditSeq : IsLastAuditId(n) /\ sess' = [sess EXCEPT ![s].prev = n]
    BY <1>2 DEF SelectLastAudit
  <2>2. Advance(s, "auditInsert") /\ UNCHANGED <<audit, auditSeq>>
    BY <1>2 DEF SelectLastAudit, dbVars
  <2>3. pc'[s] = "auditInsert" /\ sess'[s].prev = n
    BY <1>0, <2>1, <2>2 DEF Advance, Session
  <2>4. \A t \in Sessions \ {s} : pc'[t] = pc[t] /\ sess'[t] = sess[t]
    BY <1>0, <2>1, <2>2 DEF Advance
  <2>5. ChainOK(s)'
    BY <2>1, <2>2, <2>3 DEF ChainOK, NewestRow, IsLastAuditId
  <2>6. AuditChainVerifies'
    BY <2>2 DEF ChainInv, AuditChainVerifies
  <2>7. ASSUME NEW t \in Sessions, t # s
        PROVE  ChainOK(t)'
    BY <2>2, <2>4, <2>7 DEF ChainInv, ChainOK, NewestRow
  <2> QED
    BY <2>2, <2>5, <2>6, <2>7 DEF ChainInv
<1>3. ASSUME NEW s \in Sessions, InsertAudit(s)
      PROVE  ChainInv'
  <2>1. /\ pc[s] = "auditInsert" /\ Advance(s, "commit") /\ UNCHANGED audit
        /\ auditSeq' = auditSeq + 1
        /\ sess' = [sess EXCEPT ![s].aid = auditSeq + 1]
    BY <1>3 DEF InsertAudit
  <2>2. pc'[s] = "commit" /\ sess'[s].prev = sess[s].prev /\ sess'[s].aid = auditSeq + 1
    BY <1>0, <2>1 DEF Advance, Session
  <2>3. \A t \in Sessions \ {s} : pc'[t] = pc[t] /\ sess'[t] = sess[t]
    BY <1>0, <2>1 DEF Advance
  <2>4. \A a \in audit : a.id \in Nat /\ 0 < a.id /\ a.id <= auditSeq /\ a.id < auditSeq + 1
    BY <1>0 DEF ChainInv, AuditRow
  <2>5. ChainOK(s)'
    BY <1>0, <2>1, <2>2, <2>4 DEF ChainInv, ChainOK, NewestRow
  <2>6. AuditChainVerifies'
    BY <2>1 DEF ChainInv, AuditChainVerifies
  <2>7. ASSUME NEW t \in Sessions, t # s
        PROVE  ChainOK(t)'
    <3>1. ChainOK(t) /\ sess[t].aid \in Nat
      BY <1>0 DEF ChainInv, Session
    <3>2. sess[t].aid <= auditSeq => sess[t].aid <= auditSeq + 1
      BY <1>0, <3>1
    <3> QED
      BY <2>1, <2>3, <2>7, <3>1, <3>2 DEF ChainOK, NewestRow
  <2> QED
    BY <1>0, <2>1, <2>4, <2>5, <2>6, <2>7 DEF ChainInv
<1>4. ASSUME NEW s \in Sessions, CommitTimelineAndAudit(s), pc'[s] # "commit", \A t \in Sessions : AuditKept(t)
      PROVE  ChainInv'
  <2>a. PICK n, p : n = sess[s].aid /\ p = sess[s].prev
    OBVIOUS
  <2>b. PICK new : new = [id |-> n, prev |-> p]
    OBVIOUS
  <2>1. pc[s] = "commit" /\ audit' = audit \cup {new} /\ UNCHANGED auditSeq
    BY <1>4, <2>a, <2>b DEF CommitTimelineAndAudit
  <2>2. /\ NewestRow(p) /\ 0 < n /\ n <= auditSeq /\ \A a \in audit : a.id < n
        /\ n \in Nat /\ p \in Nat
    BY <1>0, <2>1, <2>a DEF ChainInv, ChainOK, Session
  <2>3. \A a \in audit : a.id \in Nat /\ 0 < a.id /\ a.id <= auditSeq
    BY <1>0 DEF ChainInv, AuditRow
  <2>4. new.id = n /\ new.prev = p
    BY <2>b
  <2>5. ASSUME NEW t \in Sessions
        PROVE  ChainOK(t)'
    <3>1. CASE pc'[t] \in {"auditInsert", "commit"}
      <4>1. pc'[t] = pc[t] /\ sess'[t] = sess[t]
        BY <1>4, <3>1 DEF AuditKept
      <4>2. \A u \in Sessions : pc[u] \in {"auditInsert", "commit"} => Inserting(u)
        BY DEF OpensOnly, TypeInv, SessionInv, SessionOK, Inserting, InTransaction
      <4>3. t = s
        BY <2>1, <3>1, <4>1, <4>2 DEF GapInv, OneInserter
      <4> QED
        BY <1>4, <2>1, <4>1, <4>3
    <3> QED
      BY <3>1 DEF ChainOK
  <2>6. {b.id : b \in {c \in audit' : c.id < n}} = {b.id : b \in audit}
    BY <2>1, <2>2, <2>4
  <2>7. ASSUME NEW a \in audit
        PROVE  {b.id : b \in {c \in audit' : c.id < a.id}} = {b.id : b \in {c \in audit : c.id < a.id}}
    <3>1. ~(n < a.id)
      BY <2>2, <2>3
    <3> QED
      BY <2>1, <2>4, <3>1
  <2>8. IF {b.id : b \in audit} = {} THEN p = 0
        ELSE p \in {b.id : b \in audit} /\ \A i \in {b.id : b \in audit} : i <= p
    <3>1. ASSUME NEW a \in audit
          PROVE  p # 0
      BY <2>2, <2>3 DEF NewestRow
    <3> QED
      BY <2>2, <3>1 DEF NewestRow
  <2>9. AuditChainVerifies'
    <3> SUFFICES ASSUME NEW a \in audit'
                 PROVE  LET older == {b.id : b \in {c \in audit' : c.id < a.id}} IN
                        IF older = {} THEN a.prev = 0
                        ELSE a.prev \in older /\ \A i \in older : i <= a.prev
      BY DEF AuditChainVerifies
    <3>1. CASE a = new
      BY <2>4, <2>6, <2>8, <3>1
    <3>2. CASE a \in audit
      BY <2>7, <3>2 DEF ChainInv, AuditChainVerifies
    <3> QED
      BY <2>1, <3>1, <3>2
  <2> QED
    BY <2>1, <2>2, <2>3, <2>4, <2>5, <2>9 DEF ChainInv
<1> QED
  BY <1>1, <1>2, <1>3, <1>4, AuditCases

------------------------------------------------------------------------------
(* What a session holds as it starts.                                      *)

LEMMA StartedStatus ==
    ASSUME TypeInv, NEW h \in Handlers, UpdateStatus(h)
    PROVE  \E r \in DOMAIN incidents, target \in Statuses :
              /\ MayTransition(incidents[r], target)
              /\ sess'[h].op = "status" /\ sess'[h].ref = r
              /\ sess'[h].from = incidents[r].status /\ sess'[h].row.status = target
<1>1. PICK r \in DOMAIN incidents, target \in Statuses :
        /\ MayTransition(incidents[r], target)
        /\ Begin(h, [NoSession EXCEPT
               !.op = "status", !.ref = r, !.at = clock, !.from = incidents[r].status,
               !.row = [incidents[r] EXCEPT
                  !.status = target,
                  !.stamped = StampStatusTimestamps(incidents[r].stamped, target)]],
               "flush")
  BY DEF UpdateStatus
<1> DEFINE row == [incidents[r] EXCEPT
                  !.status = target,
                  !.stamped = StampStatusTimestamps(incidents[r].stamped, target)]
           record == [NoSession EXCEPT
               !.op = "status", !.ref = r, !.at = clock, !.from = incidents[r].status,
               !.row = row]
<1>2. sess'[h] = record
  BY <1>1, BeginLocal DEF TypeInv, Sessions
<1>3. row.status = target
  BY DEF TypeInv, TypeOK, Row
<1>4. /\ sess'[h].op = "status" /\ sess'[h].ref = r
      /\ sess'[h].from = incidents[r].status /\ sess'[h].row = row
  BY <1>2, NoSessionType DEF Session
<1> QED
  BY <1>1, <1>3, <1>4

LEMMA StartedOther ==
    ASSUME TypeInv, NEW h \in Handlers, AssignIncident(h) \/ AddNote(h)
    PROVE  sess'[h].op \in {"assign", "note"}
<1>1. CASE AssignIncident(h)
  <2>1. PICK r \in DOMAIN incidents, analyst \in Analysts :
          Begin(h, [NoSession EXCEPT
                 !.op = "assign", !.ref = r, !.at = clock,
                 !.row = [incidents[r] EXCEPT !.assignee = analyst]], "flush")
    BY <1>1 DEF AssignIncident
  <2> DEFINE record == [NoSession EXCEPT
                 !.op = "assign", !.ref = r, !.at = clock,
                 !.row = [incidents[r] EXCEPT !.assignee = analyst]]
  <2>2. sess'[h] = record
    BY <2>1, BeginLocal DEF TypeInv, Sessions
  <2> QED
    BY <2>2, NoSessionType DEF Session
<1>2. CASE AddNote(h)
  <2>1. PICK r \in DOMAIN incidents :
          Begin(h, [NoSession EXCEPT !.op = "note", !.ref = r, !.at = clock], "audit")
    BY <1>2 DEF AddNote
  <2> DEFINE record == [NoSession EXCEPT !.op = "note", !.ref = r, !.at = clock]
  <2>2. sess'[h] = record
    BY <2>1, BeginLocal DEF TypeInv, Sessions
  <2> QED
    BY <2>2, NoSessionType DEF Session
<1> QED
  BY <1>1, <1>2

------------------------------------------------------------------------------
(* Alerts, when the consumer alone opens incidents and does not die.       *)

\* What the consumer has in hand is not lost: the number it counts is free
\* until it inserts, and what it announces is committed.
ConsumerOK(c) ==
    /\ pc[c] # "idle" => sess[c].op = "create"
    /\ pc[c] = "insert" => sess[c].ref = Count + 1
    /\ pc[c] \in {"refresh", "publish"} => FindBySourceRef(sess[c].row.source) # {}

DropInv ==
    /\ NoAlertDropped
    /\ position <= Len(alertLog)
    /\ \A h \in Handlers : sess[h].op # "create"
    /\ \A c \in Consumers : ConsumerOK(c)

OneReliableConsumer ==
    /\ \E c \in Consumers : Consumers = {c}
    /\ "create" \notin HttpOps /\ MaxCrashes = 0

LEMMA HandlersCreateNothing ==
    ASSUME OneReliableConsumer, TypeInv, [Next]_vars, NEW h \in Handlers, sess[h].op # "create"
    PROVE  sess'[h].op # "create"
<1>0. h \in Sessions /\ h \notin Consumers
  BY SessionAssumption DEF Sessions
<1>1. CASE StartRequest(h)
  <2>1. ~CreateIncident(h)
    BY DEF OneReliableConsumer, CreateIncident, Request
  <2>2. CASE UpdateStatus(h)
    BY <2>2, StartedStatus
  <2>3. CASE AssignIncident(h) \/ AddNote(h)
    BY <2>3, StartedOther
  <2> QED
    BY <1>1, <2>1, <2>2, <2>3 DEF StartRequest
<1>2. CASE Stays(h) \/ Ends(h) \/ Moves(h)
  BY <1>2, NoSessionType DEF Stays, Ends, Moves
<1> QED
  BY <1>0, <1>1, <1>2, Life DEF Starts

\* Nobody else opens an incident.
LEMMA OnlyTheConsumer ==
    ASSUME DropInv, NEW s \in Sessions, CommitCreate(s)
    PROVE  s \in Consumers
BY DEF DropInv, CommitCreate, Sessions

LEMMA ConsumerStep ==
    ASSUME OneReliableConsumer, TypeInv, GapInv, DropInv, [Next]_vars, NEW c \in Consumers
    PROVE  ConsumerOK(c)'
<1>0. c \in Sessions /\ c \notin Handlers /\ \A s \in Sessions : CommitCreate(s) => s = c
  BY SessionAssumption, OnlyTheConsumer DEF Sessions, OneReliableConsumer
<1>a. ConsumerOK(c)
  BY DEF DropInv
<1>1. ASSUME NEW a, FindBySourceRef(a) # {}
      PROVE  FindBySourceRef(a)' # {}
  BY <1>1, IncidentsGrow DEF FindBySourceRef
<1>2. ASSUME ~CommitCreate(c)
      PROVE  Count' = Count
  <2>1. DOMAIN incidents' = DOMAIN incidents
    BY <1>0, <1>2, IncidentsStep
  <2> QED
    BY <2>1 DEF Count
<1>3. CASE Stays(c)
  <2>1. ~CommitCreate(c) \/ pc[c] = "commit"
    BY DEF CommitCreate, CommitTimelineAndAudit
  <2> QED
    BY <1>a, <1>1, <1>2, <1>3, <2>1 DEF Stays, ConsumerOK
<1>4. CASE Ends(c)
  BY <1>4 DEF Ends, ConsumerOK
<1>5. CASE Starts(c)
  <2>1. ConsumeAlert(c) /\ pc[c] = "idle"
    BY <1>0, <1>5 DEF Starts
  <2>2. UNCHANGED <<pc, sess>> \/ pc'[c] = "count"
    BY <1>0, <2>1, BeginLocal DEF ConsumeAlert, TypeInv
  <2>3. pc'[c] = "idle" \/ (pc'[c] = "count" /\ sess'[c].op = "create")
    BY <2>1, <2>2, ConsumedRow
  <2> QED
    BY <2>3 DEF ConsumerOK
<1>6. CASE Moves(c)
  <2>1. sess'[c].op = "create" /\ sess[c].op = "create"
    BY <1>a, <1>6 DEF Moves, ConsumerOK
  <2>2. CASE pc'[c] = "insert" /\ CountIncidents(c)
    <3>1. sess'[c].ref = Count + 1 /\ ~CommitCreate(c)
      BY <1>0, <2>2 DEF CountIncidents, TypeInv, TypeOK, Session, NextReference, CommitCreate,
                        CommitTimelineAndAudit
    <3> QED
      BY <1>2, <2>1, <2>2, <3>1 DEF ConsumerOK
  <2>3. CASE pc'[c] = "refresh" /\ (CommitCreate(c) \/ CommitStatus(c))
    <3>1. CommitCreate(c)
      BY <2>1, <2>3 DEF CommitStatus
    <3>2. /\ sess[c].ref \in DOMAIN incidents' /\ incidents'[sess[c].ref] = sess[c].row
          /\ UNCHANGED sess
      BY <1>0, <3>1, NewIncident
    <3>3. FindBySourceRef(sess[c].row.source)' # {}
      BY <3>2 DEF FindBySourceRef
    <3> QED
      BY <2>1, <2>3, <3>2, <3>3 DEF ConsumerOK
  <2>4. CASE pc'[c] = "publish" /\ Refresh(c)
    <3>1. /\ pc[c] = "refresh" /\ UNCHANGED incidents
          /\ sess' = [sess EXCEPT ![c].row = incidents[sess[c].ref]]
      BY <2>4 DEF Refresh, dbVars
    <3>2. sess'[c].row = incidents[sess[c].ref] /\ sess[c].ref \in DOMAIN incidents
      BY <1>0, <3>1 DEF TypeInv, TypeOK, Session, SessionInv, SessionOK
    <3>3. sess[c].ref \in DOMAIN incidents' /\ incidents'[sess[c].ref].source = sess'[c].row.source
      BY <3>1, <3>2
    <3>4. FindBySourceRef(sess[c].row.source)' # {}
      BY <3>3 DEF FindBySourceRef
    <3> QED
      BY <2>1, <2>4, <3>4 DEF ConsumerOK
  <2>5. CASE pc'[c] \in {"audit", "auditInsert", "commit"}
    BY <2>1, <2>5 DEF ConsumerOK
  <2> QED
    BY <1>6, <2>2, <2>3, <2>4, <2>5 DEF Moves
<1> QED
  BY <1>0, <1>3, <1>4, <1>5, <1>6, Life

\* The consumer never drops the alert in hand.
LEMMA HandledStays ==
    ASSUME OneReliableConsumer, TypeInv, GapInv, DropInv, [Next]_vars,
           NEW c \in Consumers, NEW a, Handling(c, a)
    PROVE  Handling(c, a)' \/ FindBySourceRef(a)' # {}
<1>0. c \in Sessions /\ ConsumerOK(c)
  BY DEF Sessions, DropInv
<1>1. ASSUME FindBySourceRef(a) # {}
      PROVE  FindBySourceRef(a)' # {}
  BY <1>1, IncidentsGrow DEF FindBySourceRef
<1>2. CASE Stays(c)
  BY <1>2 DEF Stays, Handling
<1>3. CASE Moves(c)
  <2>1. CASE Refresh(c)
    BY <1>0, <1>1, <2>1 DEF Refresh, ConsumerOK, Handling
  <2> QED
    BY <1>3, <2>1 DEF Moves, Handling
<1>4. CASE Ends(c)
  <2>1. CASE InsertIncident(c) /\ sess[c].ref \in DOMAIN incidents
    <3>1. sess[c].ref = Count + 1 /\ DOMAIN incidents = 1..Count /\ Count \in Nat
      BY <1>0, <2>1, ReferenceType DEF InsertIncident, ConsumerOK, GapInv, ReferencesGapFree, TypeInv
    <3> QED
      BY <2>1, <3>1
  <2>2. ~CommitAssign(c) /\ ~CommitNote(c)
    BY DEF CommitAssign, CommitNote, Handling
  <2>3. ~Crash(c)
    BY DEF Crash, OneReliableConsumer, TypeInv, TypeOK
  <2>4. CASE PublishIncidentEvent(c)
    BY <1>0, <1>1, <2>4 DEF PublishIncidentEvent, ConsumerOK, Handling
  <2> QED
    BY <1>4, <2>1, <2>2, <2>3, <2>4 DEF Ends
<1>5. ~Starts(c)
  BY SMTT(30) DEF Starts, Handling
<1> QED
  BY <1>0, <1>2, <1>3, <1>4, <1>5, Life

\* What moves the consumer's position and the topic.
LEMMA PositionCases ==
    ASSUME OneReliableConsumer, TypeInv, [Next]_vars
    PROVE  \/ UNCHANGED <<position, alertLog>>
           \/ AlertPublished
           \/ \E c \in Consumers : ConsumeAlert(c)
<1>1. \A c \in Consumers : ~Rebalance(c)
  BY DEF Rebalance, OneReliableConsumer, TypeInv, TypeOK
<1>2. \A s : ~Crash(s)
  BY DEF Crash, OneReliableConsumer, TypeInv, TypeOK
<1> QED
  BY <1>1, <1>2 DEF Next, vars, busVars, StartRequest, CreateIncident, UpdateStatus, AssignIncident,
         AddNote, Request, CountIncidents, AutoCommit, Quiescent, Step, InsertIncident,
         FlushUpdate, SelectLastAudit, InsertAudit, CommitCreate, CommitStatus, CommitAssign,
         CommitNote, CommitTimelineAndAudit, Refresh, PublishIncidentEvent

LEMMA DropStep ==
    ASSUME OneReliableConsumer, TypeInv, GapInv, DropInv, [Next]_vars
    PROVE  DropInv'
<1> DEFINE Covered(a) == FindBySourceRef(a) # {} \/ \E c \in Consumers : Handling(c, a)
<1>1. ASSUME NEW a, Covered(a)
      PROVE  Covered(a)'
  BY <1>1, HandledStays, IncidentsGrow DEF FindBySourceRef
<1>2. ASSUME NEW k \in 1..position, Qualifies(alertLog[k]), NEW a, a = alertLog[k].alert
      PROVE  Covered(a)'
  BY <1>1, <1>2 DEF DropInv, NoAlertDropped
<1>3. alertLog \in Seq(Message) /\ position \in Nat /\ Len(alertLog) \in Nat /\ position <= Len(alertLog)
  BY DEF TypeInv, TypeOK, DropInv
<1>4. NoAlertDropped' /\ (position <= Len(alertLog))'
  <2>1. CASE UNCHANGED <<position, alertLog>>
    BY <1>2, <1>3, <2>1 DEF NoAlertDropped, Qualifies
  <2>2. CASE AlertPublished
    <3>1. PICK m \in Message : alertLog' = Append(alertLog, m) /\ position' = position
      BY <2>2 DEF AlertPublished, Message
    <3>2. /\ Len(alertLog') = Len(alertLog) + 1
          /\ \A k \in 1..position : alertLog'[k] = alertLog[k]
      BY <1>3, <3>1
    <3> QED
      BY <1>2, <1>3, <3>1, <3>2 DEF NoAlertDropped, Qualifies
  <2>3. ASSUME NEW c \in Consumers, ConsumeAlert(c)
        PROVE  NoAlertDropped' /\ (position <= Len(alertLog))'
    <3>1. /\ position < Len(alertLog) /\ position' = position + 1 /\ UNCHANGED <<alertLog, incidents>>
      BY <2>3 DEF ConsumeAlert, dbVars
    <3>2. PICK m : m = alertLog[position + 1]
      OBVIOUS
    <3>3. ASSUME Qualifies(m)
          PROVE  Covered(m.alert)'
      <4>1. CASE IsDuplicate(m.alert)
        BY <1>1, <4>1 DEF IsDuplicate
      <4>2. CASE ~IsDuplicate(m.alert)
        <5>1. PICK r : r = [NoSession EXCEPT !.op = "create", !.at = clock,
                                             !.row = NewRow(m.severity, FALSE, m.alert)]
          OBVIOUS
        <5>2. Begin(c, r, "count")
          BY <2>3, <3>2, <3>3, <4>2, <5>1 DEF ConsumeAlert, MeetsAutoOpenThreshold, Qualifies
        <5>3. r.op = "create" /\ r.row.source = m.alert
          BY <5>1, NoSessionType DEF Session, NewRow
        <5>4. pc'[c] = "count" /\ sess'[c] = r
          BY <5>2, BeginLocal DEF TypeInv, Sessions
        <5> QED
          BY <5>3, <5>4 DEF Handling
      <4> QED
        BY <4>1, <4>2
    <3> QED
      BY <1>2, <1>3, <3>1, <3>2, <3>3 DEF NoAlertDropped, Qualifies
  <2> QED
    BY <2>1, <2>2, <2>3, PositionCases
<1> QED
  BY <1>4, ConsumerStep, HandlersCreateNothing DEF DropInv

------------------------------------------------------------------------------
(* The timeline as the history of the status, when one handler at a time   *)
(* changes incidents while consumers open them.                            *)

OneHandler == \A h1, h2 \in Handlers : h1 = h2

IsNewest(e, es) == e \in es /\ \A f \in es : f # e => f.at < e.at

Older(es, e) == {f \in es : f.at < e.at}

\* Each entry starts where the one before it led, and the last leads to st.
WellLinked(es) ==
    \A e \in es :
        IF e.kind = "created" THEN Older(es, e) = {}
        ELSE \E f \in Older(es, e) : IsNewest(f, Older(es, e)) /\ e.from = f.to
LeadsTo(es, st) == \E e \in es : IsNewest(e, es) /\ e.to = st

\* The one that Newest chooses.
LEMMA NewestIs ==
    ASSUME NEW es, es \subseteq TimelineEntry, NEW e, IsNewest(e, es)
    PROVE  Newest(es) = e
<1>1. e \in es /\ \A f \in es : f.at <= e.at
  BY DEF IsNewest, TimelineEntry
<1>2. \A x \in es : (\A f \in es : f.at <= x.at) => x = e
  BY DEF IsNewest, TimelineEntry
<1>3. Newest(es) \in es /\ \A f \in es : f.at <= Newest(es).at
  BY <1>1 DEF Newest
<1> QED
  BY <1>2, <1>3

\* A newer entry that starts where the history led continues it.
LEMMA Continued ==
    ASSUME NEW es, es \subseteq TimelineEntry, NEW n \in TimelineEntry, NEW st,
           WellLinked(es), LeadsTo(es, st), \A e \in es : e.at < n.at,
           n.kind # "created", n.from = st
    PROVE  WellLinked(es \cup {n}) /\ LeadsTo(es \cup {n}, n.to)
<1>1. n \notin es
  BY DEF TimelineEntry
<1>2. Older(es \cup {n}, n) = es
  BY DEF Older, TimelineEntry
<1>3. ASSUME NEW e \in es
      PROVE  Older(es \cup {n}, e) = Older(es, e)
  <2>1. ~(n.at < e.at)
    BY DEF TimelineEntry
  <2> QED
    BY <2>1 DEF Older
<1>4. IsNewest(n, es \cup {n})
  BY <1>1 DEF IsNewest
<1>5. ASSUME NEW e \in es \cup {n}
      PROVE  IF e.kind = "created" THEN Older(es \cup {n}, e) = {}
             ELSE \E f \in Older(es \cup {n}, e) : IsNewest(f, Older(es \cup {n}, e)) /\ e.from = f.to
  <2>1. CASE e \in es
    BY <1>3, <2>1 DEF WellLinked
  <2>2. CASE e = n
    BY <1>2, <2>2 DEF LeadsTo
  <2> QED
    BY <2>1, <2>2
<1> QED
  BY <1>4, <1>5 DEF WellLinked, LeadsTo

LEMMA Begun ==
    ASSUME NEW n \in TimelineEntry, n.kind = "created"
    PROVE  WellLinked({n}) /\ LeadsTo({n}, n.to)
<1>1. Older({n}, n) = {}
  BY DEF Older, TimelineEntry
<1>2. IsNewest(n, {n})
  BY DEF IsNewest
<1> QED
  BY <1>1, <1>2 DEF WellLinked, LeadsTo

HistoryOK(r) == WellLinked(StatusEntries(r)) /\ LeadsTo(StatusEntries(r), incidents[r].status)

LEMMA HistoryMeans ==
    ASSUME TypeOK, \A r \in DOMAIN incidents : HistoryOK(r)
    PROVE  TimelineIsHistory
<1> SUFFICES ASSUME NEW r \in DOMAIN incidents
             PROVE  /\ incidents[r].status = Newest(StatusEntries(r)).to
                    /\ \A e \in StatusEntries(r) :
                          IF e.kind = "created" THEN Before(r, e) = {}
                          ELSE Before(r, e) # {} /\ e.from = Newest(Before(r, e)).to
  BY DEF TimelineIsHistory
<1>1. StatusEntries(r) \subseteq TimelineEntry /\ HistoryOK(r)
  BY DEF TypeOK, StatusEntries
<1>2. incidents[r].status = Newest(StatusEntries(r)).to
  BY <1>1, NewestIs DEF HistoryOK, LeadsTo
<1>3. ASSUME NEW e \in StatusEntries(r), e.kind # "created"
      PROVE  Before(r, e) # {} /\ e.from = Newest(Before(r, e)).to
  <2>1. Before(r, e) = Older(StatusEntries(r), e) /\ Before(r, e) \subseteq TimelineEntry
    BY <1>1 DEF Before, Older
  <2>2. PICK f : IsNewest(f, Before(r, e)) /\ e.from = f.to
    BY <1>1, <1>3, <2>1 DEF HistoryOK, WellLinked
  <2> QED
    BY <2>1, <2>2, NewestIs DEF IsNewest
<1>4. ASSUME NEW e \in StatusEntries(r), e.kind = "created"
      PROVE  Before(r, e) = {}
  BY <1>1, <1>4 DEF HistoryOK, WellLinked, Before, Older
<1> QED
  BY <1>2, <1>3, <1>4

\* A status change in progress starts from the status the row still has, later
\* than every entry of the row; a new incident is open; consumers only open.
ChangeOK(s) ==
    /\ pc[s] # "idle" => sess[s].at < clock
    /\ pc[s] \in PreCommit /\ sess[s].op = "status" =>
          /\ sess[s].from = incidents[sess[s].ref].status
          /\ CanTransition(sess[s].from, sess[s].row.status)
          /\ \A e \in StatusEntries(sess[s].ref) : e.at < sess[s].at
    /\ pc[s] \in PreCommit /\ sess[s].op = "create" => sess[s].row.status = "open"
    /\ sess[s].op \notin {"create", "none"} => s \in Handlers

HistoryInv ==
    /\ \A e \in timeline : e.ref \in DOMAIN incidents /\ e.at < clock
    /\ \A r \in DOMAIN incidents : HistoryOK(r)
    /\ \A s \in Sessions : ChangeOK(s)

\* The entries a commit adds.
LEMMA EntriesOf ==
    ASSUME TypeInv, NEW s \in Sessions,
           CommitCreate(s) \/ CommitStatus(s) \/ CommitAssign(s) \/ CommitNote(s)
    PROVE  /\ timeline' = timeline \cup Entries(s)
           /\ \A e \in Entries(s) : e \in TimelineEntry /\ e.ref = sess[s].ref /\ e.at = sess[s].at
           /\ pc[s] = "commit" /\ sess[s].op # "none" /\ UNCHANGED clock
<1>1. /\ CommitTimelineAndAudit(s) /\ sess[s].op # "none"
  BY DEF CommitCreate, CommitStatus, CommitAssign, CommitNote
<1>2. Entries(s) \subseteq TimelineEntry
  BY <1>1, EntriesType DEF TypeInv
<1>3. \A e \in Entries(s) : e.ref = sess[s].ref /\ e.at = sess[s].at
  BY DEF Entries, StatusEntry, Entry
<1> QED
  BY <1>1, <1>2, <1>3 DEF CommitTimelineAndAudit

\* The status entries of an incident change when it is opened and when its
\* status is changed.
LEMMA EntriesCreated ==
    ASSUME TypeInv, GapInv, HistoryInv, NEW s \in Sessions, CommitCreate(s)
    PROVE  /\ \A r \in DOMAIN incidents : StatusEntries(r)' = StatusEntries(r)
           /\ StatusEntries(sess[s].ref)' = {Entry(s, "created", "none", "open")}
<1>a. PICK n, c : n = sess[s].ref /\ c = Entry(s, "created", "none", "open")
  OBVIOUS
<1>1. n \notin DOMAIN incidents /\ UNCHANGED sess /\ sess[s].op = "create"
  BY <1>a, NewIncident
<1>2. timeline' = timeline \cup Entries(s) /\ \A e \in Entries(s) : e.ref = n
  BY <1>a, EntriesOf
<1>3. {e \in Entries(s) : e.kind \in {"created", "status_change"}} = {c}
  <2>1. PICK D : D = DraftsFor(sess[s].row.severity, sess[s].row.ndpa)
    OBVIOUS
  <2>2. D \subseteq {"CBN", "NDPC"}
    BY <2>1, DraftsType
  <2>3. Entries(s) = {c} \cup {Entry(s, g, "none", "none") : g \in D}
    BY <1>1, <1>a, <2>1 DEF Entries
  <2>4. c.kind = "created" /\ \A g \in D : Entry(s, g, "none", "none").kind = g
    BY <1>a DEF Entry
  <2> QED
    BY <2>2, <2>3, <2>4
<1>4. \A e \in timeline : e.ref \in DOMAIN incidents
  BY DEF HistoryInv
<1>5. \A r \in DOMAIN incidents : StatusEntries(r)' = StatusEntries(r)
  BY <1>1, <1>2 DEF StatusEntries
<1>6. StatusEntries(n)' = {c}
  BY <1>1, <1>2, <1>3, <1>4, <1>a DEF StatusEntries
<1> QED
  BY <1>1, <1>5, <1>6, <1>a

LEMMA EntriesChanged ==
    ASSUME TypeInv, NEW s \in Sessions, CommitStatus(s), NEW r
    PROVE  StatusEntries(r)' = IF r = sess[s].ref THEN StatusEntries(r) \cup {StatusEntry(s)}
                               ELSE StatusEntries(r)
<1>1. sess[s].op = "status" /\ Entries(s) = {StatusEntry(s)}
  BY DEF CommitStatus, Entries
<1>2. timeline' = timeline \cup {StatusEntry(s)}
  BY <1>1, EntriesOf
<1>3. StatusEntry(s).ref = sess[s].ref /\ StatusEntry(s).kind = "status_change"
  BY DEF StatusEntry, Entry
<1> QED
  BY <1>2, <1>3 DEF StatusEntries

LEMMA EntriesUnchanged ==
    ASSUME TypeInv, NEW s \in Sessions, CommitAssign(s) \/ CommitNote(s), NEW r
    PROVE  StatusEntries(r)' = StatusEntries(r)
<1>1. sess[s].op \in {"assign", "note"} /\ Entries(s) = {Entry(s, sess[s].op, "none", "none")}
  BY DEF CommitAssign, CommitNote, Entries
<1>2. timeline' = timeline \cup {Entry(s, sess[s].op, "none", "none")}
  BY <1>1, EntriesOf
<1>3. Entry(s, sess[s].op, "none", "none").kind \notin {"created", "status_change"}
  BY <1>1 DEF Entry
<1> QED
  BY <1>2, <1>3 DEF StatusEntries

\* How long a session has been at work.
LEMMA BegunBefore ==
    ASSUME TypeInv, [Next]_vars, NEW t \in Sessions, pc[t] # "idle" => sess[t].at < clock
    PROVE  /\ pc'[t] # "idle" => sess'[t].at < clock'
           /\ clock' >= clock
<1>1. clock \in Nat /\ clock' \in {clock, clock + 1}
  <2>1. clock \in Nat
    BY SMTT(30) DEF TypeInv, TypeOK
  <2>2. clock' = clock \/ clock' = clock + 1
    BY DEF Next, vars, StartRequest, CreateIncident, UpdateStatus, AssignIncident, AddNote,
           Begin, ConsumeAlert, CountIncidents, Rebalance, AlertPublished,
           AutoCommit, Quiescent, Step, Crash, InsertIncident, FlushUpdate, SelectLastAudit,
           InsertAudit, CommitCreate, CommitStatus, CommitAssign, CommitNote,
           CommitTimelineAndAudit, Refresh, PublishIncidentEvent
  <2> QED
    BY <2>1, <2>2
<1>2. sess[t].at \in Nat
  BY DEF TypeInv, TypeOK, Session
<1>3. CASE Stays(t)
  BY <1>1, <1>2, <1>3 DEF Stays
<1>4. CASE Moves(t)
  BY <1>1, <1>2, <1>4 DEF Moves
<1>5. CASE Starts(t)
  BY <1>1, <1>5 DEF Starts
<1>6. CASE Ends(t)
  BY <1>1, <1>6 DEF Ends
<1> QED
  BY <1>3, <1>4, <1>5, <1>6, Life

\* Somebody else's step leaves a status change in progress as it is: with one
\* handler, only new incidents come in between.
LEMMA OthersOpen ==
    ASSUME OneHandler, TypeInv, GapInv, HistoryInv, [Next]_vars,
           NEW t \in Sessions, sess[t].op = "status",
           ~CommitStatus(t) /\ ~CommitAssign(t) /\ ~CommitNote(t)
    PROVE  \A r \in DOMAIN incidents : /\ incidents'[r].status = incidents[r].status
                                       /\ StatusEntries(r)' = StatusEntries(r)
<1>1. ASSUME NEW s \in Sessions, CommitStatus(s) \/ CommitAssign(s) \/ CommitNote(s)
      PROVE  FALSE
  <2>1. sess[s].op \in {"status", "assign", "note"}
    BY <1>1 DEF CommitStatus, CommitAssign, CommitNote
  <2>2. s \in Handlers /\ t \in Handlers
    BY <2>1 DEF HistoryInv, ChangeOK
  <2>3. s = t
    BY <2>2 DEF OneHandler
  <2> QED
    BY <1>1, <2>3
<1>2. CASE UNCHANGED <<incidents, timeline>>
  BY <1>2 DEF StatusEntries
<1>3. ASSUME NEW s \in Sessions, CommitCreate(s)
      PROVE  \A r \in DOMAIN incidents : /\ incidents'[r].status = incidents[r].status
                                         /\ StatusEntries(r)' = StatusEntries(r)
  BY <1>3, NewIncident, EntriesCreated
<1> QED
  BY <1>1, <1>2, <1>3, HistoryCases

LEMMA ChangeStep ==
    ASSUME OneHandler, TypeInv, GapInv, HistoryInv, [Next]_vars, NEW t \in Sessions
    PROVE  ChangeOK(t)'
<1>0. ChangeOK(t) /\ TypeOK
  BY DEF HistoryInv, TypeInv
<1>1. pc'[t] # "idle" => sess'[t].at < clock'
  BY <1>0, BegunBefore DEF ChangeOK
<1>2. ASSUME NEW r \in DOMAIN incidents, NEW n \in Nat, \A e \in StatusEntries(r) : e.at < n,
             StatusEntries(r)' = StatusEntries(r)
      PROVE  \A e \in StatusEntries(r)' : e.at < n
  BY <1>2
<1>3. CASE Stays(t) \/ Moves(t)
  <2>1. sess'[t].op = sess[t].op
    BY <1>3 DEF Stays, Moves
  <2>2. sess'[t].op \notin {"create", "none"} => t \in Handlers
    BY <1>0, <2>1 DEF ChangeOK
  <2>3. ASSUME pc'[t] \in PreCommit
        PROVE  /\ sess'[t].row = sess[t].row /\ sess'[t].from = sess[t].from
               /\ sess'[t].at = sess[t].at /\ pc[t] \in PreCommit
               /\ sess'[t].op = "status" => sess'[t].ref = sess[t].ref
               /\ ~CommitStatus(t) /\ ~CommitAssign(t) /\ ~CommitNote(t)
    <3>0. ASSUME CommitStatus(t) \/ CommitAssign(t) \/ CommitNote(t)
          PROVE  FALSE
      <4>1. pc'[t] \in {"refresh", "idle"}
        BY <3>0, <1>0, AdvanceLocal, FinishLocal DEF CommitStatus, CommitAssign, CommitNote
      <4> QED
        BY <2>3, <4>1 DEF PreCommit, InTransaction
    <3>1. CASE Stays(t)
      BY <2>3, <3>0, <3>1 DEF Stays
    <3>2. CASE Moves(t)
      <4>1. ~Refresh(t)
        <5>1. Refresh(t) => pc'[t] = "publish"
          BY <1>0 DEF Refresh, Advance, TypeOK
        <5> QED
          BY <2>3, <5>1 DEF PreCommit, InTransaction
      <4>2. CountIncidents(t) => sess[t].op = "create"
        BY DEF CountIncidents, TypeInv, SessionInv, SessionOK
      <4>3. pc[t] \in PreCommit
        BY <2>3, <3>2 DEF Moves, CountIncidents, InsertIncident, FlushUpdate, SelectLastAudit,
                          InsertAudit, PreCommit, InTransaction
      <4> QED
        BY <2>1, <3>0, <3>2, <4>1, <4>2, <4>3 DEF Moves
    <3> QED
      BY <1>3, <3>1, <3>2
  <2>4. ASSUME pc'[t] \in PreCommit, sess'[t].op = "status"
        PROVE  /\ sess'[t].from = incidents'[sess'[t].ref].status
               /\ CanTransition(sess'[t].from, sess'[t].row.status)
               /\ \A e \in StatusEntries(sess[t].ref)' : e.at < sess'[t].at
    <3>a. PICK r : r = sess[t].ref
      OBVIOUS
    <3>1. /\ sess[t].op = "status" /\ pc[t] \in PreCommit /\ sess'[t].ref = r
          /\ sess'[t].row = sess[t].row /\ sess'[t].from = sess[t].from
          /\ sess'[t].at = sess[t].at /\ r \in DOMAIN incidents
      BY <2>1, <2>3, <2>4, <3>a DEF TypeInv, SessionInv, SessionOK, PreCommit, InTransaction
    <3>2. incidents'[r].status = incidents[r].status /\ StatusEntries(r)' = StatusEntries(r)
      BY <2>3, <2>4, <3>1, OthersOpen
    <3>3. /\ sess[t].from = incidents[r].status
          /\ CanTransition(sess[t].from, sess[t].row.status)
          /\ \A e \in StatusEntries(r) : e.at < sess[t].at
      BY <1>0, <3>1, <3>a DEF ChangeOK
    <3>4. \A e \in StatusEntries(sess[t].ref)' : e.at < sess'[t].at
      BY <3>1, <3>2, <3>3
    <3> QED
      BY <3>1, <3>2, <3>3, <3>4
  <2>5. ASSUME pc'[t] \in PreCommit, sess'[t].op = "create"
        PROVE  sess'[t].row.status = "open"
    BY <1>0, <2>1, <2>3, <2>5 DEF ChangeOK
  <2> QED
    BY <1>1, <2>2, <2>4, <2>5 DEF ChangeOK
<1>4. CASE Ends(t)
  BY <1>4, NoSessionType DEF Ends, ChangeOK, PreCommit, InTransaction
<1>5. CASE Starts(t) /\ t \in Handlers /\ StartRequest(t)
  <2>1. UNCHANGED <<incidents, timeline>> /\ sess'[t].at = clock
    BY <1>5 DEF Starts, dbVars
  <2>2. CASE UpdateStatus(t)
    <3>1. PICK r \in DOMAIN incidents, target \in Statuses :
            /\ MayTransition(incidents[r], target)
            /\ sess'[t].op = "status" /\ sess'[t].ref = r
            /\ sess'[t].from = incidents[r].status /\ sess'[t].row.status = target
      BY <1>5, <2>2, StartedStatus
    <3>2. \A e \in StatusEntries(r) : e.at < clock
      BY DEF HistoryInv, StatusEntries
    <3>3. StatusEntries(r)' = StatusEntries(r)
      BY <2>1 DEF StatusEntries
    <3>4. \A e \in StatusEntries(sess[t].ref)' : e.at < sess'[t].at
      BY <2>1, <3>1, <3>2, <3>3
    <3> QED
      BY <1>1, <1>5, <2>1, <3>1, <3>4 DEF ChangeOK, MayTransition
  <2>3. CASE AssignIncident(t) \/ AddNote(t)
    <3>1. sess'[t].op \in {"assign", "note"}
      BY <1>5, <2>3, StartedOther
    <3> QED
      BY <1>1, <1>5, <3>1 DEF ChangeOK
  <2>4. CASE CreateIncident(t)
    <3>1. sess'[t].op = "create" /\ sess'[t].row.status = "open"
      <4>1. PICK v \in Severities, n \in BOOLEAN :
              Begin(t, [NoSession EXCEPT
                          !.op = "create", !.ref = NextReference, !.at = clock,
                          !.row = NewRow(v, n, NoAlert)], "insert")
        BY <2>4 DEF CreateIncident
      <4> DEFINE record == [NoSession EXCEPT
                          !.op = "create", !.ref = NextReference, !.at = clock,
                          !.row = NewRow(v, n, NoAlert)]
      <4>2. sess'[t] = record
        BY <1>0, <4>1, BeginLocal
      <4> QED
        BY <4>2, NoSessionType DEF Session, NewRow
    <3> QED
      BY <1>1, <3>1 DEF ChangeOK
  <2> QED
    BY <1>5, <2>2, <2>3, <2>4 DEF StartRequest
<1>6. CASE Starts(t) /\ t \in Consumers /\ ConsumeAlert(t)
  <2>1. CASE UNCHANGED <<pc, sess>>
    BY <1>3, <2>1 DEF Stays
  <2>2. CASE ~UNCHANGED <<pc, sess>>
    <3>1. PICK v, a : sess'[t].op = "create" /\ sess'[t].row = NewRow(v, FALSE, a)
      BY <1>6, <2>2, ConsumedRow
    <3>2. sess'[t].row.status = "open"
      BY <3>1 DEF NewRow
    <3> QED
      BY <1>1, <3>1, <3>2 DEF ChangeOK
  <2> QED
    BY <2>1, <2>2
<1> QED
  BY <1>3, <1>4, <1>5, <1>6, Life DEF Starts

LEMMA HistoryStep ==
    ASSUME OneHandler, TypeInv, GapInv, HistoryInv, [Next]_vars
    PROVE  HistoryInv'
<1>0. TypeOK /\ TypeInv'
  BY TypeInvStep DEF TypeInv
<1>1. \A s \in Sessions : ChangeOK(s)'
  BY ChangeStep
<1>2. clock \in Nat /\ clock' \in Nat /\ clock' >= clock
  <2>1. PICK s : s \in Sessions
    BY SessionAssumption DEF Sessions
  <2>2. clock' >= clock
    BY <2>1, BegunBefore DEF HistoryInv, ChangeOK
  <2> QED
    BY <1>0, <2>2 DEF TypeInv, TypeOK
<1>3. \A e \in timeline' : e.ref \in DOMAIN incidents' /\ e.at < clock'
  <2>1. \A e \in timeline : e.ref \in DOMAIN incidents' /\ e.at < clock'
    <3> TAKE e \in timeline
    <3>1. e.ref \in DOMAIN incidents /\ e.at < clock /\ e.at \in Nat
      BY <1>0 DEF HistoryInv, TypeOK, TimelineEntry
    <3> QED
      BY <1>2, <3>1, IncidentsGrow
  <2>2. ASSUME NEW s \in Sessions,
               CommitCreate(s) \/ CommitStatus(s) \/ CommitAssign(s) \/ CommitNote(s)
        PROVE  \A e \in timeline' : e.ref \in DOMAIN incidents' /\ e.at < clock'
    <3>1. /\ timeline' = timeline \cup Entries(s) /\ pc[s] = "commit" /\ UNCHANGED clock
          /\ \A e \in Entries(s) : e.ref = sess[s].ref /\ e.at = sess[s].at
          /\ sess[s].op # "none"
      BY <2>2, EntriesOf
    <3>2. sess[s].at < clock
      BY <3>1 DEF HistoryInv, ChangeOK
    <3>3. sess[s].ref \in DOMAIN incidents'
      <4>1. CASE CommitCreate(s)
        BY <4>1, NewIncident
      <4>2. CASE ~CommitCreate(s)
        <5>1. sess[s].op \in {"status", "assign", "note"}
          BY <2>2, <4>2 DEF CommitStatus, CommitAssign, CommitNote
        <5>2. sess[s].ref \in DOMAIN incidents
          BY <3>1, <5>1 DEF TypeInv, SessionInv, SessionOK
        <5> QED
          BY <5>2, IncidentsGrow
      <4> QED
        BY <4>1, <4>2
    <3> QED
      BY <2>1, <3>1, <3>2, <3>3
  <2> QED
    BY <2>1, <2>2, HistoryCases
<1>4. ASSUME NEW r \in DOMAIN incidents'
      PROVE  HistoryOK(r)'
  <2>1. CASE UNCHANGED <<incidents, timeline>>
    BY <1>4, <2>1 DEF HistoryInv, HistoryOK, StatusEntries
  <2>2. ASSUME NEW s \in Sessions, CommitCreate(s)
        PROVE  HistoryOK(r)'
    <3>a. PICK n, c : n = sess[s].ref /\ c = Entry(s, "created", "none", "open")
      OBVIOUS
    <3>1. /\ DOMAIN incidents' = DOMAIN incidents \cup {n} /\ incidents'[n] = sess[s].row
          /\ \A q \in DOMAIN incidents : incidents'[q] = incidents[q]
          /\ pc[s] = "commit" /\ sess[s].op = "create" /\ UNCHANGED sess
      BY <2>2, <3>a, NewIncident
    <3>2. /\ \A q \in DOMAIN incidents : StatusEntries(q)' = StatusEntries(q)
          /\ StatusEntries(n)' = {c}
      BY <2>2, <3>1, <3>a, EntriesCreated
    <3>3. CASE r \in DOMAIN incidents
      BY <3>1, <3>2, <3>3 DEF HistoryInv, HistoryOK
    <3>4. CASE r = n
      <4>1. c \in TimelineEntry
        <5>1. c \in Entries(s)
          BY <3>1, <3>a DEF Entries
        <5> QED
          BY <2>2, <5>1, EntriesOf
      <4>2. c.kind = "created" /\ c.to = "open"
        BY <3>a DEF Entry
      <4>3. sess[s].row.status = "open"
        BY <3>1 DEF HistoryInv, ChangeOK, PreCommit, InTransaction
      <4>4. WellLinked({c}) /\ LeadsTo({c}, "open")
        BY <4>1, <4>2, Begun
      <4> QED
        BY <3>1, <3>2, <3>4, <4>3, <4>4 DEF HistoryOK
    <3> QED
      BY <1>4, <3>1, <3>3, <3>4
  <2>3. ASSUME NEW s \in Sessions, CommitStatus(s)
        PROVE  HistoryOK(r)'
    <3>a. PICK n : n = StatusEntry(s)
      OBVIOUS
    <3>1. /\ pc[s] = "commit" /\ sess[s].op = "status"
          /\ DOMAIN incidents' = DOMAIN incidents
      BY <2>3 DEF CommitStatus, CommitTimelineAndAudit
    <3>2. /\ StatusEntries(r)' = IF r = sess[s].ref THEN StatusEntries(r) \cup {n} ELSE StatusEntries(r)
          /\ incidents'[r].status = IF r = sess[s].ref THEN sess[s].row.status ELSE incidents[r].status
      BY <1>4, <2>3, <3>1, <3>a, EntriesChanged, UpdatedIncident
    <3>3. HistoryOK(r)
      BY <1>4, <3>1 DEF HistoryInv
    <3>4. CASE r = sess[s].ref
      <4>1. n \in TimelineEntry /\ n.at = sess[s].at
        <5>1. n \in Entries(s)
          BY <3>1, <3>a DEF Entries
        <5> QED
          BY <2>3, <5>1, EntriesOf
      <4>2. n.kind = "status_change" /\ n.from = sess[s].from /\ n.to = sess[s].row.status
        BY <3>a DEF StatusEntry, Entry
      <4>3. /\ sess[s].from = incidents[r].status
            /\ \A e \in StatusEntries(r) : e.at < sess[s].at
        BY <3>1, <3>4 DEF HistoryInv, ChangeOK, PreCommit, InTransaction
      <4>4. StatusEntries(r) \subseteq TimelineEntry
        BY <1>0 DEF TypeOK, StatusEntries
      <4>5. WellLinked(StatusEntries(r) \cup {n}) /\ LeadsTo(StatusEntries(r) \cup {n}, n.to)
        BY <3>3, <4>1, <4>2, <4>3, <4>4, Continued DEF HistoryOK
      <4> QED
        BY <3>2, <3>4, <4>2, <4>5 DEF HistoryOK
    <3>5. CASE r # sess[s].ref
      BY <3>2, <3>3, <3>5 DEF HistoryOK
    <3> QED
      BY <3>4, <3>5
  <2>4. ASSUME NEW s \in Sessions, CommitAssign(s) \/ CommitNote(s)
        PROVE  HistoryOK(r)'
    <3>1. DOMAIN incidents' = DOMAIN incidents /\ ~CommitStatus(s)
      BY <2>4 DEF CommitAssign, CommitNote, CommitStatus
    <3>2. incidents'[r].status = incidents[r].status
      <4>1. CASE CommitNote(s)
        BY <4>1 DEF CommitNote
      <4>2. CASE CommitAssign(s)
        BY <1>4, <3>1, <4>2, UpdatedIncident
      <4> QED
        BY <2>4, <4>1, <4>2
    <3>3. StatusEntries(r)' = StatusEntries(r)
      BY <2>4, EntriesUnchanged
    <3> QED
      BY <1>4, <3>1, <3>2, <3>3 DEF HistoryInv, HistoryOK
  <2> QED
    BY <2>1, <2>2, <2>3, <2>4, HistoryCases
<1> QED
  BY <1>1, <1>3, <1>4 DEF HistoryInv

------------------------------------------------------------------------------
(* The theorems.                                                           *)

\* Each incident has exactly the drafts its severity and the personal-data flag
\* call for, and the timeline records each of them, however creations collide,
\* alerts are redelivered and sessions die.
THEOREM DraftsAreComplete == Spec => []DraftsMatchTimeline
<1>1. Init => DraftsMatchTimeline
  BY DEF Init, DraftsMatchTimeline
<1>2. TypeInv /\ GapInv /\ DraftsMatchTimeline /\ [Next]_vars => DraftsMatchTimeline'
  BY DraftsStep
<1> QED
  BY <1>1, <1>2, AlwaysTypeInv, AlwaysGapInv, PTL DEF Spec

\* What is announced is committed and stays true: an event names an incident
\* that exists and a status it has had, and no incident is opened twice.
THEOREM AnnouncedFacts == Spec => []EventsAreFacts
<1>1. Init => FactInv
  <2> SUFFICES ASSUME Init PROVE FactInv
    OBVIOUS
  <2>1. events = <<>> /\ \A s \in Sessions : pc[s] = "idle"
    BY DEF Init
  <2> QED
    BY <2>1 DEF FactInv, EventsAreFacts, OneAnnouncer, AnnouncementOK, Announcing
<1>2. TypeInv /\ GapInv /\ StampInv /\ FactInv /\ [Next]_vars => FactInv'
  BY EventsStep, OneAnnouncerStep, AnnouncementStep DEF FactInv
<1>3. FactInv => EventsAreFacts
  BY DEF FactInv
<1> QED
  BY <1>1, <1>2, <1>3, AlwaysTypeInv, AlwaysGapInv, AlwaysStampInv, PTL DEF Spec

\* While incidents are only created, by any number of requests and consumers,
\* the audit chain verifies: the unique index lets one creation at a time past,
\* so that its SELECT and INSERT of audit rows are alone.
THEOREM CreationsChain ==
    ASSUME HttpOps \subseteq {"create"}
    PROVE  Spec => []AuditChainVerifies
<1>1. Init => OpensOnly /\ ChainInv
  <2> SUFFICES ASSUME Init PROVE OpensOnly /\ ChainInv
    OBVIOUS
  <2>1. /\ audit = {} /\ auditSeq = 0
        /\ \A s \in Sessions : pc[s] = "idle" /\ sess[s] = NoSession
    BY DEF Init
  <2>2. OpensOnly
    BY <2>1, NoSessionType DEF OpensOnly
  <2>3. ChainInv
    BY <2>1 DEF ChainInv, ChainOK, AuditChainVerifies
  <2> QED
    BY <2>2, <2>3
<1>2. TypeInv /\ GapInv /\ OpensOnly /\ ChainInv /\ [Next]_vars => OpensOnly' /\ ChainInv'
  BY OpensOnlyStep, ChainStep
<1>3. ChainInv => AuditChainVerifies
  BY DEF ChainInv
<1> QED
  BY <1>1, <1>2, <1>3, AlwaysTypeInv, AlwaysGapInv, PTL DEF Spec

\* With one consumer that does not die and no creations over HTTP, no
\* qualifying alert the consumer has fetched is left without an incident.
THEOREM AlertsAreKept ==
    ASSUME OneReliableConsumer
    PROVE  Spec => []NoAlertDropped
<1>1. Init => DropInv
  <2> SUFFICES ASSUME Init PROVE DropInv
    OBVIOUS
  <2>1. /\ position = 0 /\ alertLog = <<>>
        /\ \A s \in Sessions : pc[s] = "idle" /\ sess[s] = NoSession
    BY DEF Init
  <2>2. \A h \in Handlers : sess[h].op # "create"
    BY <2>1, NoSessionType DEF Sessions
  <2>3. \A c \in Consumers : ConsumerOK(c)
    BY <2>1 DEF ConsumerOK, Sessions
  <2>4. NoAlertDropped /\ position <= Len(alertLog)
    BY <2>1 DEF NoAlertDropped
  <2> QED
    BY <2>2, <2>3, <2>4 DEF DropInv
<1>2. TypeInv /\ GapInv /\ DropInv /\ [Next]_vars => DropInv'
  BY DropStep
<1>3. DropInv => NoAlertDropped
  BY DEF DropInv
<1> QED
  BY <1>1, <1>2, <1>3, AlwaysTypeInv, AlwaysGapInv, PTL DEF Spec

LEMMA AlwaysHistoryInv ==
    ASSUME OneHandler
    PROVE  Spec => []HistoryInv
<1>1. Init => HistoryInv
  <2> SUFFICES ASSUME Init PROVE HistoryInv
    OBVIOUS
  <2>1. /\ timeline = {} /\ DOMAIN incidents = {}
        /\ \A s \in Sessions : pc[s] = "idle" /\ sess[s] = NoSession
    BY DEF Init
  <2>2. \A s \in Sessions : ChangeOK(s)
    BY <2>1, NoSessionType DEF ChangeOK, PreCommit, InTransaction
  <2> QED
    BY <2>1, <2>2 DEF HistoryInv
<1>2. TypeInv /\ GapInv /\ HistoryInv /\ [Next]_vars => HistoryInv'
  BY HistoryStep
<1> QED
  BY <1>1, <1>2, AlwaysTypeInv, AlwaysGapInv, PTL DEF Spec

\* With one handler at a time, and any number of consumers that open incidents
\* meanwhile, the timeline of an incident read by time is the history of its
\* status, and ends with the status it has.
THEOREM TimelineTellsHistory ==
    ASSUME OneHandler
    PROVE  Spec => []TimelineIsHistory
<1>1. TypeInv /\ HistoryInv => TimelineIsHistory
  BY HistoryMeans DEF TypeInv, HistoryInv
<1> QED
  BY <1>1, AlwaysTypeInv, AlwaysHistoryInv, PTL

------------------------------------------------------------------------------
(* The refinement of IncidentRegister.                                     *)

Listed == [n \in 1..Count |-> [source |-> incidents[n].source, status |-> incidents[n].status]]
ListEntry == [source : Alerts \cup {NoAlert}, status : Statuses]

LEMMA ListedType ==
    ASSUME TypeInv, GapInv
    PROVE  /\ Count \in Nat /\ DOMAIN incidents = 1..Count
           /\ Listed \in Seq(ListEntry) /\ Len(Listed) = Count
<1>1. Count \in Nat /\ DOMAIN incidents = 1..Count
  BY ReferenceType DEF TypeInv, GapInv, ReferencesGapFree
<1>2. \A n \in 1..Count : incidents[n] \in Row
  BY <1>1 DEF TypeInv, TypeOK
<1>3. \A n \in 1..Count :
          [source |-> incidents[n].source, status |-> incidents[n].status] \in ListEntry
  BY <1>2 DEF Row, ListEntry
<1> QED
  BY <1>1, <1>3 DEF Listed

LEMMA OpensStep ==
    ASSUME TypeInv, GapInv, HistoryInv, AlertInv, NEW s \in Sessions, CommitCreate(s), TypeInv', GapInv'
    PROVE  \E source \in Alerts \cup {NoAlert} : Register!Open(source)
<1>a. PICK new, row : new = sess[s].ref /\ row = sess[s].row
  OBVIOUS
<1>1. /\ new \notin DOMAIN incidents /\ DOMAIN incidents' = DOMAIN incidents \cup {new}
      /\ incidents'[new] = row /\ \A r \in DOMAIN incidents : incidents'[r] = incidents[r]
      /\ pc[s] = "commit" /\ sess[s].op = "create"
  BY <1>a, NewIncident
<1>2. /\ Count \in Nat /\ DOMAIN incidents = 1..Count
      /\ Listed \in Seq(ListEntry) /\ Len(Listed) = Count
  BY ListedType
<1>3. new = Count + 1
  BY <1>1, <1>a DEF GapInv, ReferenceOK, Inserting, InTransaction
<1>4. DOMAIN incidents' = 1..Count' /\ Count' = Count + 1
  <2>1. DOMAIN incidents' = 1..(Count + 1)
    BY <1>1, <1>2, <1>3
  <2> QED
    BY <1>2, <2>1, FS_Interval DEF Count
<1>5. row \in Row /\ row.status = "open"
  <2>1. row.status = "open"
    BY <1>1, <1>a DEF HistoryInv, ChangeOK, PreCommit, InTransaction
  <2> QED
    BY <1>a, <2>1 DEF TypeInv, TypeOK, Session
<1>6. row.source \in Alerts => \A n \in 1..Count : incidents[n].source # row.source
  BY <1>1, <1>2, <1>a DEF AlertInv, OpensFirst, FindBySourceRef, PreCommit, InTransaction
<1>7. Listed' = Append(Listed, [source |-> row.source, status |-> "open"])
  <2>1. PICK x : x = [source |-> row.source, status |-> "open"]
    OBVIOUS
  <2>2. Listed' = [n \in 1..(Count + 1) |-> [source |-> incidents'[n].source, status |-> incidents'[n].status]]
    BY <1>4 DEF Listed
  <2>3. \A n \in 1..Count : /\ Listed[n] = [source |-> incidents'[n].source, status |-> incidents'[n].status]
    BY <1>1, <1>2 DEF Listed
  <2>4. x = [source |-> incidents'[Count + 1].source, status |-> incidents'[Count + 1].status]
    BY <1>1, <1>3, <1>5, <2>1
  <2>5. PICK q : q = Append(Listed, x)
    OBVIOUS
  <2>6. x \in ListEntry
    BY <1>5, <2>1 DEF Row, ListEntry
  <2>7. /\ q \in Seq(ListEntry) /\ Len(q) = Count + 1 /\ q[Count + 1] = x
        /\ \A n \in 1..Count : q[n] = Listed[n]
    BY <1>2, <2>5, <2>6, AppendProperties
  <2>8. q = [n \in 1..(Count + 1) |-> q[n]]
    BY <2>7
  <2>9. \A n \in 1..(Count + 1) : n = Count + 1 \/ n \in 1..Count
    BY <1>2
  <2>10. \A n \in 1..(Count + 1) :
            q[n] = [source |-> incidents'[n].source, status |-> incidents'[n].status]
    BY <2>3, <2>4, <2>7, <2>9
  <2> QED
    BY <2>1, <2>2, <2>5, <2>8, <2>10
<1>8. \A n \in 1..Len(Listed) : Listed[n].source = incidents[n].source
  BY <1>2 DEF Listed
<1>9. Register!Open(row.source)
  BY <1>2, <1>6, <1>7, <1>8 DEF Register!Open, Listed
<1> QED
  BY <1>5, <1>9 DEF Row

LEMMA MovesStep ==
    ASSUME TypeInv, GapInv, HistoryInv, NEW s \in Sessions, CommitStatus(s)
    PROVE  \E n \in 1..Len(Listed) : \E target \in Statuses : Register!Move(n, target)
<1>a. PICK n, target : n = sess[s].ref /\ target = sess[s].row.status
  OBVIOUS
<1>1. /\ Count \in Nat /\ DOMAIN incidents = 1..Count
      /\ Listed \in Seq(ListEntry) /\ Len(Listed) = Count
  BY ListedType
<1>2. pc[s] = "commit" /\ sess[s].op = "status" /\ DOMAIN incidents' = DOMAIN incidents
  BY DEF CommitStatus, CommitTimelineAndAudit
<1>3. n \in 1..Count /\ target \in Statuses
  BY <1>1, <1>2, <1>a DEF TypeInv, TypeOK, SessionInv, SessionOK, Session, Row
<1>4. CanTransition(incidents[n].status, target)
  BY <1>2, <1>a DEF HistoryInv, ChangeOK, PreCommit, InTransaction
<1>5. Count' = Count
  BY <1>2 DEF Count
<1>6. \A i \in 1..Count : /\ incidents'[i].source = incidents[i].source
                          /\ incidents'[i].status = IF i = n THEN target ELSE incidents[i].status
  BY <1>1, <1>a, UpdatedIncident
<1>7. Listed' = [i \in 1..Count |-> [source |-> incidents[i].source,
                                     status |-> IF i = n THEN target ELSE incidents[i].status]]
  BY <1>5, <1>6 DEF Listed
<1>8. [Listed EXCEPT ![n].status = target]
         = [i \in 1..Count |-> [source |-> incidents[i].source,
                                status |-> IF i = n THEN target ELSE incidents[i].status]]
  <2>1. PICK q : q = Listed
    OBVIOUS
  <2>2. q = [i \in 1..Count |-> [source |-> incidents[i].source, status |-> incidents[i].status]]
    BY <2>1 DEF Listed
  <2>3. PICK x : x = [q[n] EXCEPT !.status = target]
    OBVIOUS
  <2>4. q[n] = [source |-> incidents[n].source, status |-> incidents[n].status]
    BY <2>2, <1>3
  <2>5. x = [source |-> incidents[n].source, status |-> target]
    BY <2>3, <2>4
  <2>6. [q EXCEPT ![n] = x]
           = [i \in 1..Count |-> [source |-> incidents[i].source,
                                  status |-> IF i = n THEN target ELSE incidents[i].status]]
    BY <2>2, <2>5, <1>3
  <2>7. [q EXCEPT ![n].status = target] = [q EXCEPT ![n] = x]
    BY <2>3
  <2> QED
    BY <2>1, <2>6, <2>7
<1>9. Listed[n].status = incidents[n].status
  BY <1>3 DEF Listed
<1>10. Register!Move(n, target)
  BY <1>4, <1>7, <1>8, <1>9 DEF Register!Move, Listed, Register!CanTransition, CanTransition,
     Register!Transitions, Transitions
<1> QED
  BY <1>1, <1>3, <1>10

LEMMA StaysListed ==
    ASSUME TypeInv, GapInv, UNCHANGED incidents \/ \E s \in Sessions : CommitAssign(s)
    PROVE  UNCHANGED Listed
<1>1. Count \in Nat /\ DOMAIN incidents = 1..Count
  BY ListedType
<1>2. CASE UNCHANGED incidents
  BY <1>2 DEF Listed, Count
<1>3. ASSUME NEW s \in Sessions, CommitAssign(s)
      PROVE  UNCHANGED Listed
  <2>1. DOMAIN incidents' = DOMAIN incidents /\ ~CommitStatus(s)
    BY <1>3 DEF CommitAssign, CommitStatus
  <2>2. \A i \in 1..Count : /\ incidents'[i].source = incidents[i].source
                            /\ incidents'[i].status = incidents[i].status
    BY <1>1, <1>3, <2>1, UpdatedIncident
  <2>3. Count' = Count
    BY <2>1 DEF Count
  <2> QED
    BY <2>2, <2>3 DEF Listed
<1> QED
  BY <1>2, <1>3

LEMMA RefinementStep ==
    ASSUME TypeInv, GapInv, HistoryInv, AlertInv, [Next]_vars, TypeInv', GapInv'
    PROVE  [Register!Next]_Listed
<1>1. ASSUME NEW s \in Sessions, CommitCreate(s)
      PROVE  Register!Next
  BY <1>1, OpensStep DEF Register!Next
<1>2. ASSUME NEW s \in Sessions, CommitStatus(s)
      PROVE  Register!Next
  BY <1>2, MovesStep DEF Register!Next, Listed, Register!Statuses, Statuses
<1> QED
  BY <1>1, <1>2, StaysListed, IncidentCases

\* With one consumer and one handler at a time, the service is the abstract
\* register: an incident is appended for an alert that has none, and a status
\* moves along the lifecycle, whatever dies, is redelivered or collides.
THEOREM RefinesRegister ==
    ASSUME OneHandler, NEW c0, Consumers = {c0}
    PROVE  Spec => ImplementsRegister
<1>1. Init => Register!Init
  <2> SUFFICES ASSUME Init PROVE Register!Init
    OBVIOUS
  <2>1. Count = 0
    BY FS_EmptySet DEF Init, Count
  <2>2. Listed = <<>>
    BY <2>1 DEF Listed
  <2> QED
    BY <2>2 DEF Register!Init, Listed
<1>2. TypeInv /\ GapInv /\ HistoryInv /\ AlertInv /\ [Next]_vars /\ TypeInv' /\ GapInv'
         => [Register!Next]_Listed
  BY RefinementStep
<1>3. Spec => []AlertInv
  BY OneConsumerKeepsAlertInv
<1>4. Spec => []HistoryInv
  BY AlwaysHistoryInv
<1> QED
  BY <1>1, <1>2, <1>3, <1>4, AlwaysTypeInv, AlwaysGapInv, PTL
     DEF Spec, ImplementsRegister, Register!Spec, Listed
==============================================================================
