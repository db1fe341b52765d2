--------------------------- MODULE IncidentProofs ---------------------------
(***************************************************************************)
(* Proofs about IncidentService, for any number of handlers, consumers,    *)
(* alerts and messages: its types, and the safety invariants that hold     *)
(* however sessions interleave, collide and die.                           *)
(***************************************************************************)
EXTENDS IncidentProperties, FiniteSetTheorems, SequenceTheorems, TLAPS

\* The work of a session between its first statement and its commit or end.
Working(s) == pc[s] \in Steps \ {"idle", "count"}

\* What the step a session is at says of its operation and its incident.
SessionOK(s) ==
    /\ pc[s] \in {"count", "insert"} => sess[s].op = "create"
    /\ pc[s] = "flush" => sess[s].op \in {"status", "assign"}
    /\ pc[s] \in InTransaction => sess[s].op # "none"
    /\ pc[s] \in {"refresh", "publish"} =>
          sess[s].op \in {"create", "status"} /\ sess[s].ref \in DOMAIN incidents
    /\ pc[s] # "idle" /\ sess[s].op \in {"status", "assign", "note"} =>
          sess[s].ref \in DOMAIN incidents
    /\ Working(s) => sess[s].ref # 0

SessionInv == \A s \in Sessions : SessionOK(s)

TypeInv == TypeOK /\ SessionInv /\ IsFiniteSet(DOMAIN incidents)

------------------------------------------------------------------------------
(* Type correctness.                                                       *)

\* The rows, session records and entries the actions build are well typed.
LEMMA NewRowType ==
    ASSUME NEW v \in SeverityRanks, NEW n \in BOOLEAN, NEW a \in Alerts \cup {NoAlert}
    PROVE  NewRow(v, n, a) \in Row
BY DEF NewRow, Row, Statuses

LEMMA NoSessionType == NoSession \in Session /\ NoSession.op = "none"
<1>1. BlankRow \in Row
  <2>1. 0 \in SeverityRanks
    BY DEF SeverityRanks
  <2> QED
    BY <2>1, NewRowType DEF BlankRow
<1> QED
  BY <1>1 DEF NoSession, Session, AllHttpOps, Statuses

LEMMA StampsType ==
    ASSUME NEW st \in SUBSET Stamps, NEW target \in Statuses
    PROVE  StampStatusTimestamps(st, target) \in SUBSET Stamps
BY DEF StampStatusTimestamps, Stamps, Statuses

LEMMA DraftsType ==
    ASSUME NEW v, NEW n
    PROVE  DraftsFor(v, n) \subseteq {"CBN", "NDPC"}
BY DEF DraftsFor

LEMMA ReferenceType ==
    ASSUME IsFiniteSet(DOMAIN incidents)
    PROVE  Count \in Nat /\ NextReference \in Nat \ {0}
BY FS_CardinalityType DEF Count, NextReference

\* The initial states satisfy the type invariant and the session invariant.
LEMMA TypeInit == Init => TypeInv
<1> SUFFICES ASSUME Init PROVE TypeInv
  OBVIOUS
<1>1. TypeOK
  BY NoSessionType DEF Init, TypeOK, Steps
<1>2. SessionInv
  BY DEF Init, SessionInv, SessionOK, Working, InTransaction, Steps
<1>3. IsFiniteSet(DOMAIN incidents)
  BY FS_EmptySet DEF Init
<1> QED
  BY <1>1, <1>2, <1>3 DEF TypeInv

\* A session that starts, moves on or ends keeps pc and sess well typed.
LEMMA AdvanceType ==
    ASSUME TypeOK, NEW s \in Sessions, NEW step \in Steps, Advance(s, step)
    PROVE  pc' \in [Sessions -> Steps]
BY DEF TypeOK, Advance

LEMMA FinishType ==
    ASSUME TypeOK, NEW s \in Sessions, Finish(s)
    PROVE  pc' \in [Sessions -> Steps] /\ sess' \in [Sessions -> Session]
BY NoSessionType DEF TypeOK, Finish, Advance, Steps

LEMMA BeginType ==
    ASSUME TypeOK, NEW s \in Sessions, NEW step \in Steps,
           NEW record \in Session, Begin(s, record, step)
    PROVE  /\ pc' \in [Sessions -> Steps] /\ sess' \in [Sessions -> Session]
           /\ clock' \in Nat
BY DEF TypeOK, Begin

LEMMA RequestType ==
    ASSUME TypeInv, NEW h \in Handlers, StartRequest(h)
    PROVE  TypeOK'
<1> USE DEF TypeInv
<1>0. h \in Sessions
  BY DEF Sessions
<1>1. ASSUME NEW op, Request(h, op)
      PROVE  /\ UNCHANGED <<dbVars, events, busVars, crashes, rebalances>>
             /\ requests' \in Nat
  BY <1>1 DEF TypeOK, Request
<1>2. CASE CreateIncident(h)
  <2>1. PICK v \in Severities, n \in BOOLEAN :
          Begin(h, [NoSession EXCEPT
                        !.op = "create", !.ref = NextReference, !.at = clock,
                        !.row = NewRow(v, n, NoAlert)], "insert")
    BY <1>2 DEF CreateIncident
  <2>2. NewRow(v, n, NoAlert) \in Row
    BY NewRowType, SeverityAssumption
  <2>3. [NoSession EXCEPT !.op = "create", !.ref = NextReference, !.at = clock,
                          !.row = NewRow(v, n, NoAlert)] \in Session
    BY <2>2, NoSessionType, ReferenceType DEF Session, AllHttpOps, TypeOK
  <2>4. "insert" \in Steps
    BY DEF Steps
  <2> QED
    BY <1>0, <1>1, <1>2, <2>1, <2>3, <2>4, BeginType
       DEF CreateIncident, TypeOK, dbVars, busVars
<1>3. CASE UpdateStatus(h)
  <2>1. PICK r \in DOMAIN incidents, target \in Statuses :
          Begin(h, [NoSession EXCEPT
                 !.op = "status", !.ref = r, !.at = clock, !.from = incidents[r].status,
                 !.row = [incidents[r] EXCEPT
                    !.status = target,
                    !.stamped = StampStatusTimestamps(incidents[r].stamped, target)]],
                 "flush")
    BY <1>3 DEF UpdateStatus
  <2>2. incidents[r] \in Row /\ r \in Nat
    BY DEF TypeOK
  <2>3. StampStatusTimestamps(incidents[r].stamped, target) \in SUBSET Stamps
    BY <2>2, StampsType DEF Row
  <2>4. [incidents[r] EXCEPT !.status = target,
            !.stamped = StampStatusTimestamps(incidents[r].stamped, target)] \in Row
    BY <2>2, <2>3 DEF Row
  <2>5. [NoSession EXCEPT
                 !.op = "status", !.ref = r, !.at = clock, !.from = incidents[r].status,
                 !.row = [incidents[r] EXCEPT
                    !.status = target,
                    !.stamped = StampStatusTimestamps(incidents[r].stamped, target)]]
          \in Session
    <3>1. incidents[r].status \in Statuses
      BY <2>2 DEF Row
    <3> QED
      BY <2>2, <2>4, <3>1, NoSessionType DEF Session, AllHttpOps, TypeOK
  <2>6. "flush" \in Steps
    BY DEF Steps
  <2> QED
    BY <1>0, <1>1, <1>3, <2>1, <2>5, <2>6, BeginType
       DEF UpdateStatus, TypeOK, dbVars, busVars
<1>4. CASE AssignIncident(h)
  <2>1. PICK r \in DOMAIN incidents, analyst \in Analysts :
          Begin(h, [NoSession EXCEPT
                 !.op = "assign", !.ref = r, !.at = clock,
                 !.row = [incidents[r] EXCEPT !.assignee = analyst]], "flush")
    BY <1>4 DEF AssignIncident
  <2>2. incidents[r] \in Row /\ r \in Nat
    BY DEF TypeOK
  <2>3. [incidents[r] EXCEPT !.assignee = analyst] \in Row
    BY <2>2 DEF Row
  <2>4. [NoSession EXCEPT !.op = "assign", !.ref = r, !.at = clock,
                 !.row = [incidents[r] EXCEPT !.assignee = analyst]] \in Session
    BY <2>2, <2>3, NoSessionType DEF Session, AllHttpOps, TypeOK
  <2>5. "flush" \in Steps
    BY DEF Steps
  <2> QED
    BY <1>0, <1>1, <1>4, <2>1, <2>4, <2>5, BeginType
       DEF AssignIncident, TypeOK, dbVars, busVars
<1>5. CASE AddNote(h)
  <2>1. PICK r \in DOMAIN incidents :
          Begin(h, [NoSession EXCEPT !.op = "note", !.ref = r, !.at = clock], "audit")
    BY <1>5 DEF AddNote
  <2>2. [NoSession EXCEPT !.op = "note", !.ref = r, !.at = clock] \in Session
    BY NoSessionType DEF Session, AllHttpOps, TypeOK
  <2>3. "audit" \in Steps
    BY DEF Steps
  <2> QED
    BY <1>0, <1>1, <1>5, <2>1, <2>2, <2>3, BeginType
       DEF AddNote, TypeOK, dbVars, busVars
<1> QED
  BY <1>2, <1>3, <1>4, <1>5 DEF StartRequest

LEMMA ConsumerType ==
    ASSUME TypeInv, NEW c \in Consumers, ConsumeAlert(c) \/ CountIncidents(c)
    PROVE  TypeOK'
<1> USE DEF TypeInv
<1>0. c \in Sessions
  BY DEF Sessions
<1>1. CASE ConsumeAlert(c)
  <2> DEFINE msg == alertLog[position + 1]
             record == [NoSession EXCEPT !.op = "create", !.at = clock,
                                         !.row = NewRow(msg.severity, FALSE, msg.alert)]
  <2>1. msg \in Message
    <3>1. /\ alertLog \in Seq(Message)
          /\ position \in Nat /\ position < Len(alertLog)
      BY <1>1 DEF ConsumeAlert, TypeOK
    <3>2. position + 1 \in 1..Len(alertLog)
      BY <3>1
    <3> QED
      BY <3>1, <3>2, ElementOfSeq
  <2>2. NewRow(msg.severity, FALSE, msg.alert) \in Row
    BY <2>1, NewRowType, SeverityAssumption DEF Message
  <2>3. record \in Session
    BY <2>2, NoSessionType DEF Session, AllHttpOps, TypeOK
  <2>4. Begin(c, record, "count") \/ UNCHANGED <<pc, sess, clock>>
    BY <1>1 DEF ConsumeAlert
  <2>5. "count" \in Steps
    BY DEF Steps
  <2>6. pc' \in [Sessions -> Steps] /\ sess' \in [Sessions -> Session] /\ clock' \in Nat
    BY <1>0, <2>3, <2>4, <2>5, BeginType DEF TypeOK
  <2>7. position' \in Nat /\ UNCHANGED <<dbVars, events, alertLog, committed, owner, boundVars>>
    BY <1>1 DEF ConsumeAlert, TypeOK
  <2> QED
    BY <2>6, <2>7 DEF TypeOK, dbVars, boundVars
<1>2. CASE CountIncidents(c)
  <2>1. pc' \in [Sessions -> Steps]
    BY <1>0, <1>2 DEF CountIncidents, TypeOK, Steps
  <2>2. [sess[c] EXCEPT !.ref = NextReference] \in Session
    BY <1>0, ReferenceType DEF TypeOK, Session
  <2>3. sess' \in [Sessions -> Session]
    BY <1>0, <1>2, <2>2 DEF CountIncidents, TypeOK
  <2> QED
    BY <1>2, <2>1, <2>3 DEF CountIncidents, TypeOK, dbVars, busVars, boundVars
<1> QED
  BY <1>1, <1>2

LEMMA BusType ==
    ASSUME TypeInv, \/ AlertPublished \/ AutoCommit
                    \/ \E c \in Consumers : Rebalance(c)
    PROVE  TypeOK'
<1> USE DEF TypeInv, TypeOK
<1>1. CASE AlertPublished
  <2>1. PICK m \in Message : alertLog' = Append(alertLog, m)
    BY <1>1 DEF AlertPublished, Message
  <2>2. alertLog' \in Seq(Message)
    BY <2>1, AppendProperties
  <2> QED
    BY <1>1, <2>2 DEF AlertPublished, dbVars, boundVars
<1>2. CASE AutoCommit
  BY <1>2 DEF AutoCommit, dbVars, boundVars
<1>3. CASE \E c \in Consumers : Rebalance(c)
  BY <1>3 DEF Rebalance, dbVars
<1> QED
  BY <1>1, <1>2, <1>3

LEMMA EntriesType ==
    ASSUME TypeOK, NEW s \in Sessions, sess[s].op # "none"
    PROVE  Entries(s) \subseteq TimelineEntry
<1>1. sess[s] \in Session /\ sess[s].row \in Row
  BY DEF TypeOK, Session
<1> QED
  BY <1>1, DraftsType DEF Entries, Entry, StatusEntry, TimelineEntry, Session, Row, AllHttpOps, Statuses

LEMMA CommitType ==
    ASSUME TypeInv, NEW s \in Sessions,
           CommitCreate(s) \/ CommitStatus(s) \/ CommitAssign(s) \/ CommitNote(s)
    PROVE  TypeOK'
<1> USE DEF TypeInv
<1>1. sess[s] \in Session /\ sess[s].row \in Row
  BY DEF TypeOK, Session
<1>2. CommitTimelineAndAudit(s)
  BY DEF CommitCreate, CommitStatus, CommitAssign, CommitNote
<1>3. sess[s].op # "none" /\ sess[s].ref \in Nat \ {0}
  BY <1>1, <1>2 DEF CommitTimelineAndAudit, SessionInv, SessionOK, InTransaction,
                    Working, Steps, Session
<1>4. /\ (timeline \subseteq TimelineEntry)'
      /\ (audit \subseteq AuditRow)'
      /\ UNCHANGED <<auditSeq, events, busVars, clock, boundVars>>
  <2>1. timeline' = timeline \cup Entries(s)
    BY <1>2 DEF CommitTimelineAndAudit
  <2>2. /\ audit' = audit \cup {[id |-> sess[s].aid, prev |-> sess[s].prev]}
        /\ UNCHANGED <<auditSeq, events, busVars, clock, boundVars>>
    BY <1>2 DEF CommitTimelineAndAudit
  <2>3. sess[s].aid \in Nat /\ sess[s].prev \in Nat
    BY <1>1 DEF Session
  <2>4. (audit \subseteq AuditRow)'
    BY <2>2, <2>3 DEF TypeOK, AuditRow
  <2> QED
    BY <1>3, <2>1, <2>2, <2>4, EntriesType DEF TypeOK
<1>5. pc' \in [Sessions -> Steps] /\ sess' \in [Sessions -> Session]
  <2>1. \/ Finish(s)
        \/ Advance(s, "refresh") /\ UNCHANGED sess
    BY DEF CommitCreate, CommitStatus, CommitAssign, CommitNote
  <2>2. "refresh" \in Steps
    BY DEF Steps
  <2> QED
    BY <2>1, <2>2, FinishType, AdvanceType DEF TypeOK
<1>6. /\ (DOMAIN incidents \subseteq Nat \ {0})'
      /\ (incidents \in [DOMAIN incidents -> Row])'
      /\ (notifications \subseteq (Nat \X {"CBN", "NDPC"}))'
  <2>1. CASE CommitCreate(s)
    BY <1>1, <1>3, <2>1, DraftsType DEF CommitCreate, TypeOK
  <2>2. CASE CommitStatus(s)
    BY ZenonT(40), <1>1, <2>2 DEF CommitStatus, TypeOK, Row
  <2>3. CASE CommitAssign(s)
    BY <1>1, <2>3 DEF CommitAssign, TypeOK, Row
  <2>4. CASE CommitNote(s)
    BY <2>4 DEF CommitNote, TypeOK
  <2> QED
    BY <2>1, <2>2, <2>3, <2>4
<1> QED
  BY <1>4, <1>5, <1>6 DEF TypeOK, busVars, boundVars

LEMMA StepType ==
    ASSUME TypeInv, NEW s \in Sessions, Step(s) \/ Crash(s)
    PROVE  TypeOK'
<1> USE DEF TypeInv
<1>0. /\ "audit" \in Steps /\ "auditInsert" \in Steps
      /\ "commit" \in Steps /\ "publish" \in Steps
  BY DEF Steps
<1>1. CASE InsertIncident(s)
  <2>1. pc' \in [Sessions -> Steps] /\ sess' \in [Sessions -> Session]
    BY <1>0, <1>1, FinishType, AdvanceType DEF InsertIncident, TypeOK
  <2> QED
    BY <1>1, <2>1 DEF InsertIncident, TypeOK, dbVars, busVars, boundVars
<1>2. CASE FlushUpdate(s)
  <2>1. pc' \in [Sessions -> Steps]
    BY <1>0, <1>2, AdvanceType DEF FlushUpdate
  <2> QED
    BY <1>2, <2>1 DEF FlushUpdate, TypeOK, dbVars, busVars, boundVars
<1>3. CASE SelectLastAudit(s)
  <2>1. pc' \in [Sessions -> Steps]
    BY <1>0, <1>3, AdvanceType DEF SelectLastAudit
  <2>2. sess' \in [Sessions -> Session]
    <3>1. PICK n \in 0..auditSeq : sess' = [sess EXCEPT ![s].prev = n]
      BY <1>3 DEF SelectLastAudit
    <3>2. n \in Nat /\ sess[s] \in Session
      BY DEF TypeOK
    <3>3. [sess[s] EXCEPT !.prev = n] \in Session
      BY <3>2 DEF Session
    <3> QED
      BY <3>1, <3>3 DEF TypeOK
  <2> QED
    BY <1>3, <2>1, <2>2 DEF SelectLastAudit, TypeOK, dbVars, busVars, boundVars
<1>4. CASE InsertAudit(s)
  <2>1. pc' \in [Sessions -> Steps]
    BY <1>0, <1>4, AdvanceType DEF InsertAudit
  <2>2. sess' \in [Sessions -> Session] /\ auditSeq' \in Nat
    <3>1. auditSeq + 1 \in Nat /\ sess[s] \in Session
      BY DEF TypeOK
    <3>2. [sess[s] EXCEPT !.aid = auditSeq + 1] \in Session
      BY <3>1 DEF Session
    <3> QED
      BY <1>4, <3>1, <3>2 DEF InsertAudit, TypeOK
  <2> QED
    BY <1>4, <2>1, <2>2 DEF InsertAudit, TypeOK, busVars, boundVars
<1>5. CASE Refresh(s)
  <2>1. pc' \in [Sessions -> Steps]
    BY <1>0, <1>5, AdvanceType DEF Refresh
  <2>2. incidents[sess[s].ref] \in Row
    BY <1>5 DEF Refresh, SessionInv, SessionOK, TypeOK
  <2>3. sess' \in [Sessions -> Session]
    BY <1>5, <2>2 DEF Refresh, TypeOK, Session
  <2> QED
    BY <1>5, <2>1, <2>3 DEF Refresh, TypeOK, dbVars, busVars, boundVars
<1>6. CASE PublishIncidentEvent(s)
  <2>1. sess[s] \in Session /\ sess[s].row.status \in Statuses
    BY DEF TypeOK, Session, Row
  <2>2. EventOf(s) \in Event
    BY <2>1 DEF EventOf, Session, Event
  <2>3. (events \in Seq(Event))'
    <3>1. events' = Append(events, EventOf(s)) \/ events' = events
      BY <1>6 DEF PublishIncidentEvent
    <3>2. events \in Seq(Event)
      BY DEF TypeOK
    <3> QED
      BY <2>2, <3>1, <3>2, AppendProperties
  <2> QED
    BY <1>6, <2>3, FinishType DEF PublishIncidentEvent, TypeOK, dbVars, busVars, boundVars
<1>7. CASE Crash(s)
  BY <1>7, FinishType DEF Crash, TypeOK, dbVars
<1> QED
  BY <1>1, <1>2, <1>3, <1>4, <1>5, <1>6, <1>7, CommitType DEF Step

\* Every step keeps the variables well typed.
LEMMA TypeStep == TypeInv /\ [Next]_vars => TypeOK'
<1> SUFFICES ASSUME TypeInv, [Next]_vars PROVE TypeOK'
  OBVIOUS
<1>1. CASE UNCHANGED vars
  BY <1>1 DEF TypeInv, TypeOK, vars, dbVars, busVars, boundVars
<1>2. CASE Next
  BY <1>1, <1>2, RequestType, ConsumerType, BusType, StepType DEF Next, Quiescent
<1> QED
  BY <1>1, <1>2

------------------------------------------------------------------------------
(* The session invariant.                                                  *)

\* A session that does not move stays consistent as long as no incident
\* disappears.
LEMMA SessionFrame ==
    ASSUME NEW t \in Sessions, SessionOK(t), pc'[t] = pc[t], sess'[t] = sess[t],
           DOMAIN incidents \subseteq DOMAIN incidents'
    PROVE  SessionOK(t)'
BY DEF SessionOK, Working

\* A session that ends is consistent.
LEMMA SessionFinish ==
    ASSUME TypeOK, NEW s \in Sessions, Finish(s)
    PROVE  SessionOK(s)'
<1>1. pc'[s] = "idle" /\ sess'[s] = NoSession
  BY DEF Finish, Advance, TypeOK
<1> QED
  BY <1>1, NoSessionType DEF SessionOK, Working, InTransaction

\* No step removes an incident, and each adds at most the one it creates.
LEMMA IncidentsStep ==
    ASSUME TypeInv, [Next]_vars
    PROVE  \/ DOMAIN incidents' = DOMAIN incidents
           \/ \E s \in Sessions : CommitCreate(s)
<1> USE DEF TypeInv
<1>1. ASSUME NEW h \in Handlers, StartRequest(h)
      PROVE  UNCHANGED incidents
  BY <1>1 DEF StartRequest, CreateIncident, UpdateStatus, AssignIncident, AddNote,
              Request, dbVars
<1>2. ASSUME NEW c \in Consumers, ConsumeAlert(c) \/ CountIncidents(c) \/ Rebalance(c)
      PROVE  UNCHANGED incidents
  BY <1>2 DEF ConsumeAlert, CountIncidents, Rebalance, dbVars
<1>3. ASSUME NEW s \in Sessions, Step(s) \/ Crash(s), ~CommitCreate(s)
      PROVE  DOMAIN incidents' = DOMAIN incidents
  BY <1>3 DEF Step, Crash, InsertIncident, FlushUpdate, SelectLastAudit, InsertAudit,
              CommitStatus, CommitAssign, CommitNote, Refresh, PublishIncidentEvent, dbVars
<1>4. ASSUME AlertPublished \/ AutoCommit \/ Quiescent \/ UNCHANGED vars
      PROVE  UNCHANGED incidents
  BY <1>4 DEF AlertPublished, AutoCommit, Quiescent, vars, dbVars
<1> QED
  BY <1>1, <1>2, <1>3, <1>4 DEF Next

\* When one session moves and is consistent afterwards, all are.
LEMMA SessionMove ==
    ASSUME SessionInv, NEW s \in Sessions, SessionOK(s)',
           \A t \in Sessions \ {s} : pc'[t] = pc[t] /\ sess'[t] = sess[t],
           DOMAIN incidents \subseteq DOMAIN incidents'
    PROVE  SessionInv'
BY SessionFrame DEF SessionInv

\* Of a step of session s, the other sessions see nothing.
LEMMA BeginLocal ==
    ASSUME TypeOK, NEW s \in Sessions, NEW record, NEW step, Begin(s, record, step)
    PROVE  /\ pc'[s] = step /\ sess'[s] = record
           /\ \A t \in Sessions \ {s} : pc'[t] = pc[t] /\ sess'[t] = sess[t]
BY DEF Begin, TypeOK

LEMMA FinishLocal ==
    ASSUME TypeOK, NEW s \in Sessions, Finish(s)
    PROVE  /\ pc'[s] = "idle" /\ sess'[s] = NoSession
           /\ \A t \in Sessions \ {s} : pc'[t] = pc[t] /\ sess'[t] = sess[t]
BY DEF Finish, Advance, TypeOK

LEMMA AdvanceLocal ==
    ASSUME TypeOK, NEW s \in Sessions, NEW step, Advance(s, step),
           UNCHANGED sess \/ \E record : sess' = [sess EXCEPT ![s] = record]
    PROVE  /\ pc'[s] = step
           /\ \A t \in Sessions \ {s} : pc'[t] = pc[t] /\ sess'[t] = sess[t]
BY DEF Advance, TypeOK

\* A write that starts is consistent.
LEMMA SessionRequest ==
    ASSUME TypeInv, NEW h \in Handlers, StartRequest(h)
    PROVE  SessionInv'
<1> USE DEF TypeInv
<1>0. h \in Sessions
  BY DEF Sessions
<1>1. UNCHANGED incidents
  BY DEF StartRequest, CreateIncident, UpdateStatus, AssignIncident, AddNote, Request, dbVars
<1>2. /\ SessionOK(h)'
      /\ \A t \in Sessions \ {h} : pc'[t] = pc[t] /\ sess'[t] = sess[t]
  <2>1. CASE CreateIncident(h)
    <3>1. PICK v \in Severities, n \in BOOLEAN :
            Begin(h, [NoSession EXCEPT
                        !.op = "create", !.ref = NextReference, !.at = clock,
                        !.row = NewRow(v, n, NoAlert)], "insert")
      BY <2>1 DEF CreateIncident
    <3> DEFINE record == [NoSession EXCEPT
                        !.op = "create", !.ref = NextReference, !.at = clock,
                        !.row = NewRow(v, n, NoAlert)]
    <3>0. pc'[h] = "insert" /\ sess'[h] = record
      BY <1>0, <3>1, BeginLocal
    <3>2. pc'[h] = "insert" /\ sess'[h].op = "create" /\ sess'[h].ref = NextReference
      BY <3>0, NoSessionType DEF Session
    <3>3. SessionOK(h)'
      BY <3>2, ReferenceType DEF SessionOK, InTransaction, Working
    <3> QED
      BY <1>0, <3>1, <3>3, BeginLocal
  <2>2. CASE UpdateStatus(h)
    <3>1. PICK r \in DOMAIN incidents, target \in Statuses :
            Begin(h, [NoSession EXCEPT
                 !.op = "status", !.ref = r, !.at = clock, !.from = incidents[r].status,
                 !.row = [incidents[r] EXCEPT
                    !.status = target,
                    !.stamped = StampStatusTimestamps(incidents[r].stamped, target)]],
                 "flush")
      BY <2>2 DEF UpdateStatus
    <3> DEFINE record == [NoSession EXCEPT
                 !.op = "status", !.ref = r, !.at = clock, !.from = incidents[r].status,
                 !.row = [incidents[r] EXCEPT
                    !.status = target,
                    !.stamped = StampStatusTimestamps(incidents[r].stamped, target)]]
    <3>0. pc'[h] = "flush" /\ sess'[h] = record
      BY <1>0, <3>1, BeginLocal
    <3>2. pc'[h] = "flush" /\ sess'[h].op = "status" /\ sess'[h].ref = r
      BY <3>0, NoSessionType DEF Session
    <3>3. SessionOK(h)'
      BY <1>1, <3>2 DEF SessionOK, InTransaction, Working, TypeOK
    <3> QED
      BY <1>0, <3>1, <3>3, BeginLocal
  <2>3. CASE AssignIncident(h)
    <3>1. PICK r \in DOMAIN incidents, analyst \in Analysts :
            Begin(h, [NoSession EXCEPT
                 !.op = "assign", !.ref = r, !.at = clock,
                 !.row = [incidents[r] EXCEPT !.assignee = analyst]], "flush")
      BY <2>3 DEF AssignIncident
    <3> DEFINE record == [NoSession EXCEPT
                 !.op = "assign", !.ref = r, !.at = clock,
                 !.row = [incidents[r] EXCEPT !.assignee = analyst]]
    <3>0. pc'[h] = "flush" /\ sess'[h] = record
      BY <1>0, <3>1, BeginLocal
    <3>2. pc'[h] = "flush" /\ sess'[h].op = "assign" /\ sess'[h].ref = r
      BY <3>0, NoSessionType DEF Session
    <3>3. SessionOK(h)'
      BY <1>1, <3>2 DEF SessionOK, InTransaction, Working, TypeOK
    <3> QED
      BY <1>0, <3>1, <3>3, BeginLocal
  <2>4. CASE AddNote(h)
    <3>1. PICK r \in DOMAIN incidents :
            Begin(h, [NoSession EXCEPT !.op = "note", !.ref = r, !.at = clock], "audit")
      BY <2>4 DEF AddNote
    <3> DEFINE record == [NoSession EXCEPT !.op = "note", !.ref = r, !.at = clock]
    <3>0. pc'[h] = "audit" /\ sess'[h] = record
      BY <1>0, <3>1, BeginLocal
    <3>2. pc'[h] = "audit" /\ sess'[h].op = "note" /\ sess'[h].ref = r
      BY <3>0, NoSessionType DEF Session
    <3>3. SessionOK(h)'
      BY <1>1, <3>2 DEF SessionOK, InTransaction, Working, TypeOK
    <3> QED
      BY <1>0, <3>1, <3>3, BeginLocal
  <2> QED
    BY <2>1, <2>2, <2>3, <2>4 DEF StartRequest
<1> QED
  BY <1>0, <1>1, <1>2, SessionMove

LEMMA SessionConsumer ==
    ASSUME TypeInv, NEW c \in Consumers, ConsumeAlert(c) \/ CountIncidents(c)
    PROVE  SessionInv'
<1> USE DEF TypeInv
<1>0. c \in Sessions
  BY DEF Sessions
<1>1. UNCHANGED incidents
  BY DEF ConsumeAlert, CountIncidents, dbVars
<1>2. CASE ConsumeAlert(c) /\ UNCHANGED <<pc, sess>>
  BY <1>1, <1>2, SessionFrame DEF SessionInv
<1>3. CASE ConsumeAlert(c) /\ ~UNCHANGED <<pc, sess>>
  <2> DEFINE msg == alertLog[position + 1]
             record == [NoSession EXCEPT !.op = "create", !.at = clock,
                                         !.row = NewRow(msg.severity, FALSE, msg.alert)]
  <2>1. Begin(c, record, "count")
    BY <1>3 DEF ConsumeAlert
  <2>2. pc'[c] = "count" /\ sess'[c] = record
    BY <1>0, <2>1, BeginLocal
  <2>3. sess'[c].op = "create"
    BY <2>2, NoSessionType DEF Session
  <2>4. SessionOK(c)'
    BY <2>2, <2>3 DEF SessionOK, InTransaction, Working
  <2> QED
    BY <1>0, <1>1, <2>1, <2>4, BeginLocal, SessionMove
<1>4. CASE CountIncidents(c)
  <2>1. pc'[c] = "insert" /\ sess'[c].op = sess[c].op /\ sess'[c].ref = NextReference
    BY <1>0, <1>4 DEF CountIncidents, TypeOK, Session
  <2>2. \A t \in Sessions \ {c} : pc'[t] = pc[t] /\ sess'[t] = sess[t]
    BY <1>0, <1>4 DEF CountIncidents, TypeOK
  <2>3. sess[c].op = "create"
    BY <1>0, <1>4 DEF CountIncidents, SessionInv, SessionOK
  <2>4. SessionOK(c)'
    BY <2>1, <2>3, ReferenceType DEF SessionOK, InTransaction, Working
  <2> QED
    BY <1>0, <1>1, <2>2, <2>4, SessionMove
<1> QED
  BY <1>2, <1>3, <1>4

\* A statement of a session leaves it consistent.
LEMMA SessionStep ==
    ASSUME TypeInv, NEW s \in Sessions, Step(s) \/ Crash(s)
    PROVE  SessionInv'
<1> USE DEF TypeInv
<1>0. SessionOK(s) /\ sess[s] \in Session /\ pc[s] \in Steps
  BY DEF SessionInv, TypeOK
<1>1. ASSUME Finish(s), DOMAIN incidents \subseteq DOMAIN incidents'
      PROVE  SessionInv'
  BY <1>1, FinishLocal, SessionFinish, SessionMove
<1>2. CASE InsertIncident(s)
  <2>1. CASE Finish(s)
    BY <1>1, <1>2, <2>1 DEF InsertIncident, dbVars
  <2>2. CASE Advance(s, "audit") /\ UNCHANGED sess
    <3>1. pc[s] = "insert" /\ pc'[s] = "audit" /\ UNCHANGED <<incidents, sess>>
      BY <1>2, <2>2, AdvanceLocal DEF InsertIncident, dbVars
    <3>2. SessionOK(s)'
      BY <1>0, <3>1 DEF SessionOK, InTransaction, Working, Steps
    <3> QED
      BY <2>2, <3>1, <3>2, AdvanceLocal, SessionMove
  <2> QED
    BY <1>2, <2>1, <2>2 DEF InsertIncident
<1>3. CASE FlushUpdate(s)
  <2>1. /\ pc[s] = "flush" /\ Advance(s, "audit") /\ UNCHANGED <<incidents, sess>>
    BY <1>3 DEF FlushUpdate, dbVars
  <2>2. SessionOK(s)'
    BY <1>0, <2>1, AdvanceLocal DEF SessionOK, InTransaction, Working, Steps
  <2> QED
    BY <2>1, <2>2, AdvanceLocal, SessionMove
<1>4. CASE SelectLastAudit(s)
  <2>1. PICK n \in 0..auditSeq : sess' = [sess EXCEPT ![s].prev = n]
    BY <1>4 DEF SelectLastAudit
  <2>2. /\ pc[s] = "audit" /\ Advance(s, "auditInsert") /\ UNCHANGED incidents
    BY <1>4 DEF SelectLastAudit, dbVars
  <2>3. sess'[s].op = sess[s].op /\ sess'[s].ref = sess[s].ref
    BY <1>0, <2>1 DEF TypeOK, Session
  <2>4. SessionOK(s)'
    <3>1. pc'[s] = "auditInsert"
      BY <2>2 DEF Advance, TypeOK
    <3> QED
      BY <1>0, <2>2, <2>3, <3>1 DEF SessionOK, InTransaction, Working, Steps
  <2>5. \A t \in Sessions \ {s} : pc'[t] = pc[t] /\ sess'[t] = sess[t]
    BY <2>1, <2>2 DEF Advance, TypeOK
  <2> QED
    BY <2>2, <2>4, <2>5, SessionMove
<1>5. CASE InsertAudit(s)
  <2>1. sess' = [sess EXCEPT ![s].aid = auditSeq + 1]
    BY <1>5 DEF InsertAudit
  <2>2. /\ pc[s] = "auditInsert" /\ Advance(s, "commit") /\ UNCHANGED incidents
    BY <1>5 DEF InsertAudit
  <2>3. sess'[s].op = sess[s].op /\ sess'[s].ref = sess[s].ref
    BY <1>0, <2>1 DEF TypeOK, Session
  <2>4. SessionOK(s)'
    <3>1. pc'[s] = "commit"
      BY <2>2 DEF Advance, TypeOK
    <3> QED
      BY <1>0, <2>2, <2>3, <3>1 DEF SessionOK, InTransaction, Working, Steps
  <2>5. \A t \in Sessions \ {s} : pc'[t] = pc[t] /\ sess'[t] = sess[t]
    BY <2>1, <2>2 DEF Advance, TypeOK
  <2> QED
    BY <2>2, <2>4, <2>5, SessionMove
<1>6. CASE CommitCreate(s)
  <2>1. /\ pc[s] = "commit" /\ sess[s].op = "create"
        /\ Advance(s, "refresh") /\ UNCHANGED sess
        /\ DOMAIN incidents' = DOMAIN incidents \cup {sess[s].ref}
    BY <1>6 DEF CommitCreate, CommitTimelineAndAudit
  <2>2. SessionOK(s)'
    BY <1>0, <2>1, AdvanceLocal DEF SessionOK, InTransaction, Working, Steps
  <2> QED
    BY <2>1, <2>2, AdvanceLocal, SessionMove
<1>7. CASE CommitStatus(s)
  <2>1. /\ pc[s] = "commit" /\ sess[s].op = "status"
        /\ Advance(s, "refresh") /\ UNCHANGED sess
        /\ DOMAIN incidents' = DOMAIN incidents
    BY <1>7 DEF CommitStatus, CommitTimelineAndAudit
  <2>2. SessionOK(s)'
    BY <1>0, <2>1, AdvanceLocal DEF SessionOK, InTransaction, Working, Steps
  <2> QED
    BY <2>1, <2>2, AdvanceLocal, SessionMove
<1>8. CASE CommitAssign(s) \/ CommitNote(s)
  BY <1>1, <1>8 DEF CommitAssign, CommitNote
<1>9. CASE Refresh(s)
  <2>1. /\ pc[s] = "refresh" /\ Advance(s, "publish") /\ UNCHANGED incidents
        /\ sess' = [sess EXCEPT ![s].row = incidents[sess[s].ref]]
    BY <1>9 DEF Refresh, dbVars
  <2>2. sess'[s].op = sess[s].op /\ sess'[s].ref = sess[s].ref
    BY <1>0, <2>1 DEF TypeOK, Session
  <2>3. SessionOK(s)'
    <3>1. pc'[s] = "publish"
      BY <2>1 DEF Advance, TypeOK
    <3> QED
      BY <1>0, <2>1, <2>2, <3>1 DEF SessionOK, InTransaction, Working, Steps
  <2>4. \A t \in Sessions \ {s} : pc'[t] = pc[t] /\ sess'[t] = sess[t]
    BY <2>1 DEF Advance, TypeOK
  <2> QED
    BY <2>1, <2>3, <2>4, SessionMove
<1>10. CASE PublishIncidentEvent(s)
  BY <1>1, <1>10 DEF PublishIncidentEvent, dbVars
<1>11. CASE Crash(s)
  BY <1>1, <1>11 DEF Crash, dbVars
<1> QED
  BY <1>2, <1>3, <1>4, <1>5, <1>6, <1>7, <1>8, <1>9, <1>10, <1>11 DEF Step

\* The inductive invariant.
LEMMA TypeInvStep == TypeInv /\ [Next]_vars => TypeInv'
<1> SUFFICES ASSUME TypeInv, [Next]_vars PROVE TypeInv'
  OBVIOUS
<1>1. SessionInv'
  <2>1. ASSUME UNCHANGED <<incidents, pc, sess>>
        PROVE  SessionInv'
    BY <2>1, SessionFrame DEF SessionInv, TypeInv
  <2>2. CASE UNCHANGED vars \/ Quiescent \/ AlertPublished \/ AutoCommit
    BY <2>1, <2>2 DEF vars, dbVars, Quiescent, AlertPublished, AutoCommit
  <2>3. CASE \E c \in Consumers : Rebalance(c)
    BY <2>1, <2>3 DEF Rebalance, dbVars
  <2> QED
    BY <2>2, <2>3, SessionRequest, SessionConsumer, SessionStep DEF Next
<1>2. IsFiniteSet(DOMAIN incidents')
  <2>1. IsFiniteSet(DOMAIN incidents)
    BY DEF TypeInv
  <2>2. ASSUME NEW s \in Sessions, CommitCreate(s)
        PROVE  IsFiniteSet(DOMAIN incidents')
    <3>1. DOMAIN incidents' = DOMAIN incidents \cup {sess[s].ref}
      BY <2>2 DEF CommitCreate
    <3> QED
      BY <2>1, <3>1, FS_AddElement
  <2> QED
    BY <2>1, <2>2, IncidentsStep
<1> QED
  BY <1>1, <1>2, TypeStep DEF TypeInv

LEMMA AlwaysTypeInv == Spec => []TypeInv
BY TypeInit, TypeInvStep, PTL DEF Spec

\* Every variable keeps its type, in every execution and for any number of
\* sessions, alerts and messages.
THEOREM TypeCorrect == Spec => []TypeOK
<1>1. TypeInv => TypeOK
  BY DEF TypeInv
<1> QED
  BY <1>1, AlwaysTypeInv, PTL

------------------------------------------------------------------------------
(* References without gaps.                                                *)

\* A session about to insert holds a number that is taken or the next one; one
\* that has inserted holds the next one, and the unique index admits one such
\* session: the others that hold the number wait.
ReferenceOK(s) ==
    /\ pc[s] = "insert" => sess[s].ref \in 1..(Count + 1)
    /\ Inserting(s) => sess[s].ref = Count + 1

OneInserter == \A s, t \in Sessions : Inserting(s) /\ Inserting(t) => s = t

GapInv == ReferencesGapFree /\ (\A s \in Sessions : ReferenceOK(s)) /\ OneInserter

\* Nobody inserts, and nobody commits an insert.
QuietFor(t) ==
    /\ Inserting(t)' => Inserting(t) /\ sess'[t].ref = sess[t].ref
    /\ pc'[t] = "insert" => \/ pc[t] = "insert" /\ sess'[t].ref = sess[t].ref
                            \/ sess'[t].ref = Count + 1

QuietStep == DOMAIN incidents' = DOMAIN incidents /\ \A t \in Sessions : QuietFor(t)

LEMMA QuietFrame ==
    ASSUME NEW t \in Sessions, pc'[t] = pc[t], sess'[t] = sess[t]
    PROVE  QuietFor(t)
BY DEF QuietFor, Inserting

LEMMA QuietIdle ==
    ASSUME NEW t \in Sessions, pc'[t] \in {"idle", "count", "flush", "refresh", "publish"}
    PROVE  QuietFor(t)
BY DEF QuietFor, Inserting, InTransaction

LEMMA QuietFinish ==
    ASSUME TypeOK, NEW s \in Sessions, Finish(s)
    PROVE  \A t \in Sessions : QuietFor(t)
BY FinishLocal, QuietFrame, QuietIdle

LEMMA QuietStart ==
    ASSUME TypeInv, NEW h \in Handlers, StartRequest(h)
    PROVE  QuietStep
<1> USE DEF TypeInv
<1>0. h \in Sessions
  BY DEF Sessions
<1>1. DOMAIN incidents' = DOMAIN incidents
  BY DEF StartRequest, CreateIncident, UpdateStatus, AssignIncident, AddNote, Request, dbVars
<1>2. CASE CreateIncident(h)
  <2>1. PICK v \in Severities, n \in BOOLEAN :
          Begin(h, [NoSession EXCEPT
                      !.op = "create", !.ref = NextReference, !.at = clock,
                      !.row = NewRow(v, n, NoAlert)], "insert")
    BY <1>2 DEF CreateIncident
  <2> DEFINE record == [NoSession EXCEPT
                      !.op = "create", !.ref = NextReference, !.at = clock,
                      !.row = NewRow(v, n, NoAlert)]
  <2>2. pc'[h] = "insert" /\ sess'[h] = record
    BY <1>0, <2>1, BeginLocal
  <2>3. sess'[h].ref = Count + 1
    BY <2>2, NoSessionType DEF Session, NextReference
  <2>4. QuietFor(h)
    BY <2>2, <2>3 DEF QuietFor, Inserting, InTransaction
  <2>5. \A t \in Sessions \ {h} : pc'[t] = pc[t] /\ sess'[t] = sess[t]
    BY <1>0, <2>1, BeginLocal
  <2> QED
    BY <1>1, <2>4, <2>5, QuietFrame DEF QuietStep
<1>3. CASE UpdateStatus(h) \/ AssignIncident(h)
  <2>1. PICK record : Begin(h, record, "flush")
    BY <1>3 DEF UpdateStatus, AssignIncident
  <2>2. /\ pc'[h] = "flush"
        /\ \A t \in Sessions \ {h} : pc'[t] = pc[t] /\ sess'[t] = sess[t]
    BY <1>0, <2>1, BeginLocal
  <2> QED
    BY <1>1, <2>2, QuietFrame, QuietIdle DEF QuietStep
<1>4. CASE AddNote(h)
  <2>1. PICK r \in DOMAIN incidents :
          Begin(h, [NoSession EXCEPT !.op = "note", !.ref = r, !.at = clock], "audit")
    BY <1>4 DEF AddNote
  <2> DEFINE record == [NoSession EXCEPT !.op = "note", !.ref = r, !.at = clock]
  <2>2. pc'[h] = "audit" /\ sess'[h] = record
    BY <1>0, <2>1, BeginLocal
  <2>3. sess'[h].op = "note"
    BY <2>2, NoSessionType DEF Session
  <2>4. QuietFor(h)
    BY <2>2, <2>3 DEF QuietFor, Inserting
  <2>5. \A t \in Sessions \ {h} : pc'[t] = pc[t] /\ sess'[t] = sess[t]
    BY <1>0, <2>1, BeginLocal
  <2> QED
    BY <1>1, <2>4, <2>5, QuietFrame DEF QuietStep
<1> QED
  BY <1>2, <1>3, <1>4 DEF StartRequest

LEMMA QuietConsume ==
    ASSUME TypeInv, NEW c \in Consumers, ConsumeAlert(c) \/ CountIncidents(c)
    PROVE  QuietStep
<1> USE DEF TypeInv
<1>0. c \in Sessions
  BY DEF Sessions
<1>1. DOMAIN incidents' = DOMAIN incidents
  BY DEF ConsumeAlert, CountIncidents, dbVars
<1>2. CASE ConsumeAlert(c)
  <2>1. UNCHANGED <<pc, sess>> \/ \E record : Begin(c, record, "count")
    BY <1>2 DEF ConsumeAlert
  <2>2. CASE \E record : Begin(c, record, "count")
    BY <1>0, <1>1, <2>2, BeginLocal, QuietFrame, QuietIdle DEF QuietStep
  <2> QED
    BY <1>1, <2>1, <2>2, QuietFrame DEF QuietStep
<1>3. CASE CountIncidents(c)
  <2>1. pc'[c] = "insert" /\ sess'[c].ref = Count + 1
    BY <1>0, <1>3 DEF CountIncidents, TypeOK, Session, NextReference
  <2>2. \A t \in Sessions \ {c} : pc'[t] = pc[t] /\ sess'[t] = sess[t]
    BY <1>0, <1>3 DEF CountIncidents, TypeOK
  <2>3. QuietFor(c)
    BY <2>1 DEF QuietFor, Inserting, InTransaction
  <2> QED
    BY <1>1, <2>2, <2>3, QuietFrame DEF QuietStep
<1> QED
  BY <1>2, <1>3

\* The insert that goes through.
Inserts(s) == InsertIncident(s) /\ sess[s].ref \notin DOMAIN incidents

LEMMA QuietSession ==
    ASSUME TypeInv, NEW s \in Sessions, Step(s) \/ Crash(s), ~CommitCreate(s), ~Inserts(s)
    PROVE  QuietStep
<1> USE DEF TypeInv
<1>1. DOMAIN incidents' = DOMAIN incidents
  BY DEF Step, Crash, InsertIncident, FlushUpdate, SelectLastAudit, InsertAudit,
         CommitStatus, CommitAssign, CommitNote, Refresh, PublishIncidentEvent, dbVars
<1>2. CASE Finish(s)
  BY <1>1, <1>2, QuietFinish DEF QuietStep
<1>3. ASSUME NEW step, Advance(s, step), UNCHANGED sess \/ \E record : sess' = [sess EXCEPT ![s] = record],
             QuietFor(s)
      PROVE  QuietStep
  BY <1>1, <1>3, AdvanceLocal, QuietFrame DEF QuietStep
<1>4. CASE FlushUpdate(s)
  <2>1. pc[s] = "flush" /\ Advance(s, "audit") /\ UNCHANGED sess
    BY <1>4 DEF FlushUpdate
  <2>2. sess[s].op # "create"
    BY <2>1 DEF SessionInv, SessionOK
  <2>3. pc'[s] = "audit" /\ sess'[s] = sess[s]
    BY <2>1, AdvanceLocal
  <2>4. QuietFor(s)
    BY <2>2, <2>3 DEF QuietFor, Inserting
  <2> QED
    BY <1>3, <2>1, <2>4
<1>5. CASE SelectLastAudit(s)
  <2>1. PICK n \in 0..auditSeq : sess' = [sess EXCEPT ![s].prev = n]
    BY <1>5 DEF SelectLastAudit
  <2>2. pc[s] = "audit" /\ Advance(s, "auditInsert")
    BY <1>5 DEF SelectLastAudit
  <2>3. sess'[s].op = sess[s].op /\ sess'[s].ref = sess[s].ref
    BY <2>1 DEF TypeOK, Session
  <2>4. pc'[s] = "auditInsert" /\ \A t \in Sessions \ {s} : pc'[t] = pc[t] /\ sess'[t] = sess[t]
    BY <2>1, <2>2 DEF Advance, TypeOK
  <2>5. QuietFor(s)
    BY <2>2, <2>3, <2>4 DEF QuietFor, Inserting, InTransaction
  <2> QED
    BY <1>1, <2>4, <2>5, QuietFrame DEF QuietStep
<1>6. CASE InsertAudit(s)
  <2>1. sess' = [sess EXCEPT ![s].aid = auditSeq + 1]
    BY <1>6 DEF InsertAudit
  <2>2. pc[s] = "auditInsert" /\ Advance(s, "commit")
    BY <1>6 DEF InsertAudit
  <2>3. sess'[s].op = sess[s].op /\ sess'[s].ref = sess[s].ref
    BY <2>1 DEF TypeOK, Session
  <2>4. pc'[s] = "commit" /\ \A t \in Sessions \ {s} : pc'[t] = pc[t] /\ sess'[t] = sess[t]
    BY <2>1, <2>2 DEF Advance, TypeOK
  <2>5. QuietFor(s)
    BY <2>2, <2>3, <2>4 DEF QuietFor, Inserting, InTransaction
  <2> QED
    BY <1>1, <2>4, <2>5, QuietFrame DEF QuietStep
<1>7. CASE CommitStatus(s)
  <2>1. Advance(s, "refresh") /\ UNCHANGED sess
    BY <1>7 DEF CommitStatus
  <2> QED
    BY <1>3, <2>1, AdvanceLocal, QuietIdle
<1>8. CASE Refresh(s)
  <2>1. /\ Advance(s, "publish")
        /\ sess' = [sess EXCEPT ![s].row = incidents[sess[s].ref]]
    BY <1>8 DEF Refresh
  <2>2. pc'[s] = "publish" /\ \A t \in Sessions \ {s} : pc'[t] = pc[t] /\ sess'[t] = sess[t]
    BY <2>1 DEF Advance, TypeOK
  <2> QED
    BY <1>1, <2>2, QuietFrame, QuietIdle DEF QuietStep
<1>9. CASE InsertIncident(s)
  BY <1>2, <1>9 DEF InsertIncident, Inserts
<1> QED
  BY <1>2, <1>4, <1>5, <1>6, <1>7, <1>8, <1>9
     DEF Step, Crash, CommitAssign, CommitNote, PublishIncidentEvent

\* The whole step, in three cases.
LEMMA StepCases ==
    ASSUME TypeInv, [Next]_vars
    PROVE  QuietStep \/ \E s \in Sessions : CommitCreate(s) \/ Inserts(s)
<1>1. ASSUME UNCHANGED <<pc, sess, incidents>>
      PROVE  QuietStep
  BY <1>1, QuietFrame DEF QuietStep
<1>2. CASE UNCHANGED vars \/ Quiescent \/ AlertPublished \/ AutoCommit
  BY <1>1, <1>2 DEF vars, dbVars, Quiescent, AlertPublished, AutoCommit
<1>3. CASE \E c \in Consumers : Rebalance(c)
  BY <1>1, <1>3 DEF Rebalance, dbVars
<1> QED
  BY <1>2, <1>3, QuietStart, QuietConsume, QuietSession DEF Next

LEMMA GapStep == TypeInv /\ GapInv /\ [Next]_vars => GapInv'
<1> SUFFICES ASSUME TypeInv, GapInv, [Next]_vars PROVE GapInv'
  OBVIOUS
<1>0. /\ Count \in Nat /\ DOMAIN incidents = 1..Count
      /\ sess \in [Sessions -> Session] /\ pc \in [Sessions -> Steps]
  BY ReferenceType DEF TypeInv, TypeOK, GapInv, ReferencesGapFree
<1>1. CASE QuietStep
  <2>1. Count' = Count /\ ReferencesGapFree'
    BY <1>0, <1>1 DEF QuietStep, Count, ReferencesGapFree
  <2>2. ASSUME NEW t \in Sessions
        PROVE  ReferenceOK(t)'
    <3>1. QuietFor(t) /\ ReferenceOK(t)
      BY <1>1 DEF QuietStep, GapInv
    <3>2. pc'[t] = "insert" => sess'[t].ref \in 1..(Count + 1)
      BY <1>0, <3>1 DEF QuietFor, ReferenceOK
    <3>3. Inserting(t)' => sess'[t].ref = Count + 1
      BY <3>1 DEF QuietFor, ReferenceOK
    <3> QED
      BY <2>1, <3>2, <3>3 DEF ReferenceOK
  <2>3. OneInserter'
    BY <1>1 DEF QuietStep, QuietFor, GapInv, OneInserter
  <2> QED
    BY <2>1, <2>2, <2>3 DEF GapInv
<1>2. ASSUME NEW s \in Sessions, Inserts(s)
      PROVE  GapInv'
  <2>1. /\ pc[s] = "insert" /\ sess[s].ref \notin DOMAIN incidents
        /\ \A t \in Sessions \ {s} : ~(Inserting(t) /\ sess[t].ref = sess[s].ref)
        /\ Advance(s, "audit") /\ UNCHANGED <<incidents, sess>>
    BY <1>2 DEF Inserts, InsertIncident, dbVars
  <2>2. sess[s].ref = Count + 1
    BY <1>0, <2>1 DEF GapInv, ReferenceOK
  <2>3. \A t \in Sessions : ~Inserting(t)
    BY <2>1, <2>2 DEF GapInv, ReferenceOK, Inserting, InTransaction
  <2>4. pc'[s] = "audit" /\ \A t \in Sessions \ {s} : pc'[t] = pc[t]
    BY <2>1, AdvanceLocal DEF TypeInv
  <2>5. \A t \in Sessions \ {s} : ~Inserting(t)'
    BY <2>1, <2>3, <2>4 DEF Inserting
  <2>6. Count' = Count /\ ReferencesGapFree'
    BY <1>0, <2>1 DEF Count, ReferencesGapFree
  <2>7. \A t \in Sessions : ReferenceOK(t)'
    BY <2>1, <2>2, <2>4, <2>5, <2>6 DEF GapInv, ReferenceOK
  <2> QED
    BY <2>5, <2>6, <2>7 DEF GapInv, OneInserter
<1>3. ASSUME NEW s \in Sessions, CommitCreate(s)
      PROVE  GapInv'
  <2>1. /\ pc[s] = "commit" /\ sess[s].op = "create"
        /\ DOMAIN incidents' = DOMAIN incidents \cup {sess[s].ref}
        /\ Advance(s, "refresh") /\ UNCHANGED sess
    BY <1>3 DEF CommitCreate, CommitTimelineAndAudit
  <2>2. Inserting(s) /\ sess[s].ref = Count + 1
    BY <2>1 DEF GapInv, ReferenceOK, Inserting, InTransaction
  <2>3. DOMAIN incidents' = 1..(Count + 1)
    BY <1>0, <2>1, <2>2
  <2>4. Count' = Count + 1
    BY <1>0, <2>3, FS_Interval DEF Count
  <2>5. ReferencesGapFree'
    BY <2>3, <2>4 DEF ReferencesGapFree
  <2>6. pc'[s] = "refresh" /\ \A t \in Sessions \ {s} : pc'[t] = pc[t]
    BY <2>1, AdvanceLocal DEF TypeInv
  <2>7. \A t \in Sessions : ~Inserting(t)'
    BY <2>1, <2>2, <2>6 DEF GapInv, OneInserter, Inserting, InTransaction
  <2>8. ASSUME NEW t \in Sessions, pc'[t] = "insert"
        PROVE  sess'[t].ref \in 1..(Count' + 1)
    <3>1. pc[t] = "insert"
      BY <2>6, <2>8
    <3>2. sess[t].ref \in 1..(Count + 1)
      BY <3>1 DEF GapInv, ReferenceOK
    <3> QED
      BY <1>0, <2>1, <2>4, <3>2
  <2> QED
    BY <2>5, <2>7, <2>8 DEF GapInv, ReferenceOK, OneInserter
<1> QED
  BY <1>1, <1>2, <1>3, StepCases

LEMMA AlwaysGapInv == Spec => []GapInv
<1>1. Init => GapInv
  <2> SUFFICES ASSUME Init PROVE GapInv
    OBVIOUS
  <2>1. Count = 0
    BY FS_EmptySet DEF Init, Count
  <2>2. ReferencesGapFree
    BY <2>1 DEF Init, ReferencesGapFree
  <2>3. \A s \in Sessions : pc[s] = "idle"
    BY DEF Init
  <2> QED
    BY <2>2, <2>3 DEF GapInv, ReferenceOK, OneInserter, Inserting, InTransaction
<1> QED
  BY <1>1, AlwaysTypeInv, GapStep, PTL DEF Spec

\* References stay 1, 2, ..., n: no creation skips a number or takes one twice,
\* whatever the interleaving, the collisions and the crashes.
THEOREM GapFree == Spec => []ReferencesGapFree
<1>1. GapInv => ReferencesGapFree
  BY DEF GapInv
<1> QED
  BY <1>1, AlwaysGapInv, PTL

------------------------------------------------------------------------------
(* Rows in memory, and rows committed.                                     *)

\* The steps at which a session holds a row it has not committed.
PreCommit == {"count", "insert", "flush"} \cup InTransaction

RowKept(t) ==
    pc'[t] \in PreCommit =>
        pc[t] \in PreCommit /\ sess'[t].op = sess[t].op /\ sess'[t].row = sess[t].row

LEMMA RowFrame ==
    ASSUME NEW t \in Sessions, pc'[t] = pc[t], sess'[t] = sess[t]
    PROVE  RowKept(t)
BY DEF RowKept

LEMMA RowEnd ==
    ASSUME NEW t \in Sessions, pc'[t] \in {"idle", "refresh", "publish"}
    PROVE  RowKept(t)
BY DEF RowKept, PreCommit, InTransaction

\* A row in memory changes only when a session starts or is past its commit.
LEMMA RowStep ==
    ASSUME TypeInv, NEW s \in Sessions, Step(s) \/ Crash(s)
    PROVE  \A t \in Sessions : RowKept(t)
<1> USE DEF TypeInv
<1>1. ASSUME Finish(s)
      PROVE  \A t \in Sessions : RowKept(t)
  BY <1>1, FinishLocal, RowFrame, RowEnd
<1>2. ASSUME pc[s] \in PreCommit, NEW step, Advance(s, step), UNCHANGED sess
      PROVE  \A t \in Sessions : RowKept(t)
  <2>1. RowKept(s)
    BY <1>2 DEF RowKept
  <2> QED
    BY <1>2, <2>1, AdvanceLocal, RowFrame
<1>3. CASE InsertIncident(s)
  BY <1>1, <1>2, <1>3 DEF InsertIncident, PreCommit
<1>4. CASE FlushUpdate(s)
  BY <1>2, <1>4 DEF FlushUpdate, PreCommit
<1>5. CASE SelectLastAudit(s)
  <2>1. PICK n \in 0..auditSeq : sess' = [sess EXCEPT ![s].prev = n]
    BY <1>5 DEF SelectLastAudit
  <2>2. pc[s] = "audit" /\ Advance(s, "auditInsert")
    BY <1>5 DEF SelectLastAudit
  <2>3. sess'[s].op = sess[s].op /\ sess'[s].row = sess[s].row
    BY <2>1 DEF TypeOK, Session
  <2>4. \A t \in Sessions \ {s} : pc'[t] = pc[t] /\ sess'[t] = sess[t]
    BY <2>1, <2>2 DEF Advance, TypeOK
  <2>5. RowKept(s)
    BY <2>2, <2>3 DEF RowKept, PreCommit, InTransaction
  <2> QED
    BY <2>4, <2>5, RowFrame
<1>6. CASE InsertAudit(s)
  <2>1. sess' = [sess EXCEPT ![s].aid = auditSeq + 1]
    BY <1>6 DEF InsertAudit
  <2>2. pc[s] = "auditInsert" /\ Advance(s, "commit")
    BY <1>6 DEF InsertAudit
  <2>3. sess'[s].op = sess[s].op /\ sess'[s].row = sess[s].row
    BY <2>1 DEF TypeOK, Session
  <2>4. \A t \in Sessions \ {s} : pc'[t] = pc[t] /\ sess'[t] = sess[t]
    BY <2>1, <2>2 DEF Advance, TypeOK
  <2>5. RowKept(s)
    BY <2>2, <2>3 DEF RowKept, PreCommit, InTransaction
  <2> QED
    BY <2>4, <2>5, RowFrame
<1>7. CASE CommitCreate(s) \/ CommitStatus(s)
  <2>1. Advance(s, "refresh") /\ UNCHANGED sess
    BY <1>7 DEF CommitCreate, CommitStatus
  <2> QED
    BY <2>1, AdvanceLocal, RowFrame, RowEnd
<1>8. CASE Refresh(s)
  <2>1. /\ Advance(s, "publish")
        /\ sess' = [sess EXCEPT ![s].row = incidents[sess[s].ref]]
    BY <1>8 DEF Refresh
  <2>2. pc'[s] = "publish" /\ \A t \in Sessions \ {s} : pc'[t] = pc[t] /\ sess'[t] = sess[t]
    BY <2>1 DEF Advance, TypeOK
  <2> QED
    BY <2>2, RowFrame, RowEnd
<1> QED
  BY <1>1, <1>3, <1>4, <1>5, <1>6, <1>7, <1>8
     DEF Step, Crash, CommitAssign, CommitNote, PublishIncidentEvent

LEMMA RowCases ==
    ASSUME TypeInv, [Next]_vars, NEW t \in Sessions
    PROVE  \/ RowKept(t)
           \/ t \in Handlers /\ StartRequest(t)
           \/ t \in Consumers /\ ConsumeAlert(t) /\ ~UNCHANGED <<pc, sess>>
<1> USE DEF TypeInv
<1>1. ASSUME UNCHANGED <<pc, sess>>
      PROVE  RowKept(t)
  BY <1>1, RowFrame
<1>2. CASE UNCHANGED vars \/ Quiescent \/ AlertPublished \/ AutoCommit
  BY <1>1, <1>2 DEF vars, dbVars, Quiescent, AlertPublished, AutoCommit
<1>3. CASE \E c \in Consumers : Rebalance(c)
  BY <1>1, <1>3 DEF Rebalance
<1>4. ASSUME NEW h \in Handlers, StartRequest(h), h # t
      PROVE  RowKept(t)
  <2>1. h \in Sessions
    BY DEF Sessions
  <2>2. PICK record, step : Begin(h, record, step)
    BY <1>4 DEF StartRequest, CreateIncident, UpdateStatus, AssignIncident, AddNote
  <2>3. pc'[t] = pc[t] /\ sess'[t] = sess[t]
    BY <1>4, <2>1, <2>2, BeginLocal
  <2> QED
    BY <2>3, RowFrame
<1>5. ASSUME NEW c \in Consumers, ConsumeAlert(c), c # t
      PROVE  RowKept(t)
  <2>1. c \in Sessions
    BY DEF Sessions
  <2>2. UNCHANGED <<pc, sess>> \/ \E record : Begin(c, record, "count")
    BY <1>5 DEF ConsumeAlert
  <2>3. pc'[t] = pc[t] /\ sess'[t] = sess[t]
    BY <1>5, <2>1, <2>2, BeginLocal
  <2> QED
    BY <2>3, RowFrame
<1>6. ASSUME NEW c \in Consumers, CountIncidents(c)
      PROVE  RowKept(t)
  <2>1. c \in Sessions
    BY DEF Sessions
  <2>2. pc[c] = "count" /\ sess'[c].op = sess[c].op /\ sess'[c].row = sess[c].row
    BY <1>6, <2>1 DEF CountIncidents, TypeOK, Session
  <2>3. t # c => pc'[t] = pc[t] /\ sess'[t] = sess[t]
    BY <1>6, <2>1 DEF CountIncidents, TypeOK
  <2> QED
    BY <2>2, <2>3, RowFrame DEF RowKept, PreCommit
<1> QED
  BY <1>1, <1>2, <1>3, <1>4, <1>5, <1>6, RowStep DEF Next

\* Committed rows change in a commit.
LEMMA IncidentCases ==
    ASSUME TypeInv, [Next]_vars
    PROVE  \/ UNCHANGED incidents
           \/ \E s \in Sessions : CommitCreate(s) \/ CommitStatus(s) \/ CommitAssign(s)
BY DEF Next, vars, dbVars, StartRequest, CreateIncident, UpdateStatus, AssignIncident,
       AddNote, Request, ConsumeAlert, CountIncidents, Rebalance, AlertPublished,
       AutoCommit, Quiescent, Step, Crash, InsertIncident, FlushUpdate, SelectLastAudit,
       InsertAudit, CommitNote, Refresh, PublishIncidentEvent

\* What a write that starts holds in memory.
LEMMA StartedRow ==
    ASSUME TypeInv, NEW h \in Handlers, StartRequest(h)
    PROVE  /\ UNCHANGED incidents
           /\ \/ /\ sess'[h].op = "create"
                 /\ \E v \in Severities, n \in BOOLEAN : sess'[h].row = NewRow(v, n, NoAlert)
              \/ /\ sess'[h].op = "status"
                 /\ \E r \in DOMAIN incidents, target \in Statuses :
                       /\ CanTransition(incidents[r].status, target)
                       /\ sess'[h].row = [incidents[r] EXCEPT
                             !.status = target,
                             !.stamped = StampStatusTimestamps(incidents[r].stamped, target)]
              \/ sess'[h].op \in {"assign", "note"}
<1> USE DEF TypeInv
<1>0. h \in Sessions
  BY DEF Sessions
<1>1. UNCHANGED incidents
  BY DEF StartRequest, CreateIncident, UpdateStatus, AssignIncident, AddNote, Request, dbVars
<1>2. CASE CreateIncident(h)
  <2>1. PICK v \in Severities, n \in BOOLEAN :
          Begin(h, [NoSession EXCEPT
                      !.op = "create", !.ref = NextReference, !.at = clock,
                      !.row = NewRow(v, n, NoAlert)], "insert")
    BY <1>2 DEF CreateIncident
  <2> DEFINE record == [NoSession EXCEPT
                      !.op = "create", !.ref = NextReference, !.at = clock,
                      !.row = NewRow(v, n, NoAlert)]
  <2>2. sess'[h] = record
    BY <1>0, <2>1, BeginLocal
  <2>3. sess'[h].op = "create" /\ sess'[h].row = NewRow(v, n, NoAlert)
    BY <2>2, NoSessionType DEF Session
  <2> QED
    BY <1>1, <2>3
<1>3. CASE UpdateStatus(h)
  <2>1. PICK r \in DOMAIN incidents, target \in Statuses :
          /\ MayTransition(incidents[r], target)
          /\ Begin(h, [NoSession EXCEPT
                 !.op = "status", !.ref = r, !.at = clock, !.from = incidents[r].status,
                 !.row = [incidents[r] EXCEPT
                    !.status = target,
                    !.stamped = StampStatusTimestamps(incidents[r].stamped, target)]],
                 "flush")
    BY <1>3 DEF UpdateStatus
  <2> DEFINE row == [incidents[r] EXCEPT
                    !.status = target,
                    !.stamped = StampStatusTimestamps(incidents[r].stamped, target)]
             record == [NoSession EXCEPT
                 !.op = "status", !.ref = r, !.at = clock, !.from = incidents[r].status,
                 !.row = row]
  <2>2. sess'[h] = record
    BY <1>0, <2>1, BeginLocal
  <2>3. sess'[h].op = "status" /\ sess'[h].row = row
    BY <2>2, NoSessionType DEF Session
  <2> QED
    BY <1>1, <2>1, <2>3 DEF MayTransition
<1>4. CASE AssignIncident(h)
  <2>1. PICK r \in DOMAIN incidents, analyst \in Analysts :
          Begin(h, [NoSession EXCEPT
                 !.op = "assign", !.ref = r, !.at = clock,
                 !.row = [incidents[r] EXCEPT !.assignee = analyst]], "flush")
    BY <1>4 DEF AssignIncident
  <2> DEFINE record == [NoSession EXCEPT
                 !.op = "assign", !.ref = r, !.at = clock,
                 !.row = [incidents[r] EXCEPT !.assignee = analyst]]
  <2>2. sess'[h] = record
    BY <1>0, <2>1, BeginLocal
  <2>3. sess'[h].op = "assign"
    BY <2>2, NoSessionType DEF Session
  <2> QED
    BY <1>1, <2>3
<1>5. CASE AddNote(h)
  <2>1. PICK r \in DOMAIN incidents :
          Begin(h, [NoSession EXCEPT !.op = "note", !.ref = r, !.at = clock], "audit")
    BY <1>5 DEF AddNote
  <2> DEFINE record == [NoSession EXCEPT !.op = "note", !.ref = r, !.at = clock]
  <2>2. sess'[h] = record
    BY <1>0, <2>1, BeginLocal
  <2>3. sess'[h].op = "note"
    BY <2>2, NoSessionType DEF Session
  <2> QED
    BY <1>1, <2>3
<1> QED
  BY <1>2, <1>3, <1>4, <1>5 DEF StartRequest

\* What the consumer holds when it starts to open an incident.
LEMMA ConsumedRow ==
    ASSUME TypeInv, NEW c \in Consumers, ConsumeAlert(c), ~UNCHANGED <<pc, sess>>
    PROVE  /\ UNCHANGED incidents
           /\ pc[c] = "idle" /\ sess'[c].op = "create"
           /\ \E v, a : /\ sess'[c].row = NewRow(v, FALSE, a)
                        /\ FindBySourceRef(a) = {}
<1> DEFINE msg == alertLog[position + 1]
           record == [NoSession EXCEPT !.op = "create", !.at = clock,
                                       !.row = NewRow(msg.severity, FALSE, msg.alert)]
<1>0. c \in Sessions
  BY DEF Sessions
<1>1. /\ UNCHANGED incidents /\ pc[c] = "idle"
      /\ Begin(c, record, "count") /\ ~IsDuplicate(msg.alert)
  BY DEF ConsumeAlert, dbVars
<1>2. sess'[c] = record
  BY <1>0, <1>1, BeginLocal DEF TypeInv
<1>3. sess'[c].op = "create" /\ sess'[c].row = NewRow(msg.severity, FALSE, msg.alert)
  BY <1>2, NoSessionType DEF Session
<1> QED
  BY <1>1, <1>3 DEF IsDuplicate

------------------------------------------------------------------------------
(* Timestamps and status.                                                  *)

StampsOK(row) ==
    /\ row.status \in Stamps => row.status \in row.stamped
    /\ "closed" \in row.stamped => "resolved" \in row.stamped
    /\ row.status = "open" => row.stamped = {}

\* A row in memory is as consistent as a committed one, and a status change
\* never leads to open: merging its stamps into whatever the row holds by then
\* keeps the row consistent.
HeldOK(s) ==
    pc[s] \in PreCommit =>
        /\ sess[s].op \in {"create", "status"} => StampsOK(sess[s].row)
        /\ sess[s].op = "status" => sess[s].row.status # "open"

StampInv == StampsMatchStatus /\ \A s \in Sessions : HeldOK(s)

LEMMA NewRowStamps == \A v, n, a : StampsOK(NewRow(v, n, a))
BY DEF StampsOK, NewRow, Stamps

LEMMA LegalStamps ==
    ASSUME NEW row \in Row, NEW target \in Statuses, StampsOK(row),
           CanTransition(row.status, target)
    PROVE  LET new == [row EXCEPT !.status = target,
                          !.stamped = StampStatusTimestamps(row.stamped, target)]
           IN  StampsOK(new) /\ new.status # "open"
<1> DEFINE st == StampStatusTimestamps(row.stamped, target)
           new == [row EXCEPT !.status = target, !.stamped = st]
<1>1. new.status = target /\ new.stamped = st
  BY DEF Row
<1>2. target # "open"
  BY DEF CanTransition, Transitions, Row, Statuses
<1>3. /\ target \in Stamps => target \in st
      /\ "closed" \in st => "resolved" \in st
  BY DEF StampsOK, StampStatusTimestamps, Stamps, Statuses
<1> QED
  BY <1>1, <1>2, <1>3 DEF StampsOK

LEMMA StampStep == TypeInv /\ StampInv /\ [Next]_vars => StampInv'
<1> SUFFICES ASSUME TypeInv, StampInv, [Next]_vars PROVE StampInv'
  OBVIOUS
<1>0. /\ \A r \in DOMAIN incidents : StampsOK(incidents[r])
      /\ TypeOK /\ TypeOK'
  BY TypeStep DEF StampInv, StampsMatchStatus, StampsOK, TypeInv
<1>1. ASSUME NEW t \in Sessions
      PROVE  HeldOK(t)'
  <2>1. CASE RowKept(t)
    BY <2>1 DEF RowKept, HeldOK, StampInv
  <2>2. CASE t \in Handlers /\ StartRequest(t)
    <3>1. CASE /\ sess'[t].op = "create"
               /\ \E v \in Severities, n \in BOOLEAN : sess'[t].row = NewRow(v, n, NoAlert)
      BY <3>1, NewRowStamps DEF HeldOK
    <3>2. CASE /\ sess'[t].op = "status"
               /\ \E r \in DOMAIN incidents, target \in Statuses :
                       /\ CanTransition(incidents[r].status, target)
                       /\ sess'[t].row = [incidents[r] EXCEPT
                             !.status = target,
                             !.stamped = StampStatusTimestamps(incidents[r].stamped, target)]
      <4>1. PICK r \in DOMAIN incidents, target \in Statuses :
              /\ CanTransition(incidents[r].status, target)
              /\ sess'[t].row = [incidents[r] EXCEPT
                    !.status = target,
                    !.stamped = StampStatusTimestamps(incidents[r].stamped, target)]
        BY <3>2
      <4>2. incidents[r] \in Row /\ StampsOK(incidents[r])
        BY <1>0 DEF TypeOK
      <4>3. StampsOK(sess'[t].row) /\ sess'[t].row.status # "open"
        BY <4>1, <4>2, LegalStamps
      <4> QED
        BY <3>2, <4>3 DEF HeldOK
    <3>3. CASE sess'[t].op \in {"assign", "note"}
      BY <3>3 DEF HeldOK
    <3> QED
      BY <2>2, <3>1, <3>2, <3>3, StartedRow
  <2>3. CASE t \in Consumers /\ ConsumeAlert(t) /\ ~UNCHANGED <<pc, sess>>
    <3>1. PICK v, a : sess'[t].row = NewRow(v, FALSE, a) /\ sess'[t].op = "create"
      BY <2>3, ConsumedRow
    <3>2. StampsOK(sess'[t].row)
      BY <3>1, NewRowStamps
    <3> QED
      BY <3>1, <3>2 DEF HeldOK
  <2> QED
    BY <2>1, <2>2, <2>3, RowCases
<1>2. StampsMatchStatus'
  <2>1. SUFFICES ASSUME NEW r \in DOMAIN incidents' PROVE StampsOK(incidents'[r])
    BY DEF StampsMatchStatus, StampsOK
  <2>2. ASSUME NEW s \in Sessions, CommitCreate(s)
        PROVE  StampsOK(incidents'[r])
    <3>1. pc[s] = "commit" /\ sess[s].op = "create"
      BY <2>2 DEF CommitCreate, CommitTimelineAndAudit
    <3>2. StampsOK(sess[s].row)
      BY <3>1 DEF StampInv, HeldOK, PreCommit, InTransaction
    <3>3. incidents' = [q \in DOMAIN incidents \cup {sess[s].ref} |->
                           IF q = sess[s].ref THEN sess[s].row ELSE incidents[q]]
      BY <2>2 DEF CommitCreate
    <3> QED
      BY <1>0, <3>2, <3>3
  <2>3. ASSUME NEW s \in Sessions, CommitStatus(s)
        PROVE  StampsOK(incidents'[r])
    <3>1. pc[s] = "commit" /\ sess[s].op = "status"
      BY <2>3 DEF CommitStatus, CommitTimelineAndAudit
    <3>2. StampsOK(sess[s].row) /\ sess[s].row.status # "open"
      BY <3>1 DEF StampInv, HeldOK, PreCommit, InTransaction
    <3>3. incidents' = [incidents EXCEPT
             ![sess[s].ref].status = sess[s].row.status,
             ![sess[s].ref].stamped = @ \cup sess[s].row.stamped]
      BY <2>3 DEF CommitStatus
    <3>4. r \in DOMAIN incidents /\ incidents[r] \in Row
      BY <1>0, <3>3 DEF TypeOK
    <3>5. CASE r = sess[s].ref
      <4>1. /\ incidents'[r].status = sess[s].row.status
            /\ incidents'[r].stamped = incidents[r].stamped \cup sess[s].row.stamped
        BY <3>3, <3>4, <3>5 DEF Row
      <4>2. StampsOK(incidents[r])
        BY <1>0, <3>4
      <4> QED
        BY <3>2, <4>1, <4>2 DEF StampsOK
    <3>6. CASE r # sess[s].ref
      BY <1>0, <3>3, <3>4, <3>6
    <3> QED
      BY <3>5, <3>6
  <2>4. ASSUME NEW s \in Sessions, CommitAssign(s)
        PROVE  StampsOK(incidents'[r])
    <3>1. incidents' = [incidents EXCEPT ![sess[s].ref].assignee = sess[s].row.assignee]
      BY <2>4 DEF CommitAssign
    <3>2. r \in DOMAIN incidents /\ incidents[r] \in Row
      BY <1>0, <3>1 DEF TypeOK
    <3>3. /\ incidents'[r].status = incidents[r].status
          /\ incidents'[r].stamped = incidents[r].stamped
      BY <3>1, <3>2 DEF Row
    <3> QED
      BY <1>0, <3>2, <3>3 DEF StampsOK
  <2> QED
    BY <1>0, <2>2, <2>3, <2>4, IncidentCases
<1> QED
  BY <1>1, <1>2 DEF StampInv

LEMMA AlwaysStampInv == Spec => []StampInv
<1>1. Init => StampInv
  <2> SUFFICES ASSUME Init PROVE StampInv
    OBVIOUS
  <2>1. StampsMatchStatus
    BY DEF Init, StampsMatchStatus
  <2>2. \A s \in Sessions : pc[s] = "idle"
    BY DEF Init
  <2> QED
    BY <2>1, <2>2 DEF StampInv, HeldOK, PreCommit, InTransaction
<1> QED
  BY <1>1, AlwaysTypeInv, StampStep, PTL DEF Spec

\* The timestamps of every incident agree with its status, even when handlers
\* that loaded the same row overwrite each other's status.
THEOREM StampsAgree == Spec => []StampsMatchStatus
<1>1. StampInv => StampsMatchStatus
  BY DEF StampInv
<1> QED
  BY <1>1, AlwaysStampInv, PTL

------------------------------------------------------------------------------
(* One incident per alert, with one consumer.                              *)

\* A session that opens an incident for an alert is a consumer, and the alert
\* has no incident yet.
OpensFirst(s) ==
    pc[s] \in PreCommit /\ sess[s].op = "create" /\ sess[s].row.source \in Alerts =>
        s \in Consumers /\ FindBySourceRef(sess[s].row.source) = {}

AlertInv == OneIncidentPerAlert /\ \A s \in Sessions : OpensFirst(s)

\* Where committed incidents come from never changes.
LEMMA SourceKept ==
    ASSUME TypeOK, NEW s \in Sessions, CommitStatus(s) \/ CommitAssign(s)
    PROVE  /\ DOMAIN incidents' = DOMAIN incidents
           /\ \A r \in DOMAIN incidents : incidents'[r].source = incidents[r].source
<1>1. \A r \in DOMAIN incidents : incidents[r] \in Row
  BY DEF TypeOK
<1>2. CASE CommitStatus(s)
  BY <1>1, <1>2 DEF CommitStatus, Row
<1>3. CASE CommitAssign(s)
  BY <1>1, <1>3 DEF CommitAssign, Row
<1> QED
  BY <1>2, <1>3

LEMMA AlertStep ==
    ASSUME NEW c0, Consumers = {c0}
    PROVE  TypeInv /\ AlertInv /\ [Next]_vars => AlertInv'
<1> SUFFICES ASSUME TypeInv, AlertInv, [Next]_vars PROVE AlertInv'
  OBVIOUS
<1>0. TypeOK
  BY DEF TypeInv
<1>1. ASSUME DOMAIN incidents' = DOMAIN incidents,
             \A r \in DOMAIN incidents : incidents'[r].source = incidents[r].source
      PROVE  AlertInv'
  <2>1. OneIncidentPerAlert'
    BY <1>1 DEF AlertInv, OneIncidentPerAlert
  <2>2. \A a : FindBySourceRef(a)' = FindBySourceRef(a)
    BY <1>1 DEF FindBySourceRef
  <2>3. ASSUME NEW t \in Sessions
        PROVE  OpensFirst(t)'
    <3>1. CASE RowKept(t)
      BY <2>2, <3>1 DEF RowKept, OpensFirst, AlertInv
    <3>2. CASE t \in Handlers /\ StartRequest(t)
      <4>1. \/ sess'[t].op # "create"
            \/ \E v, n : sess'[t].row = NewRow(v, n, NoAlert)
        BY <3>2, StartedRow
      <4>2. ASSUME NEW v, NEW n
            PROVE  NewRow(v, n, NoAlert).source = NoAlert
        BY DEF NewRow
      <4>3. sess'[t].op # "create" \/ sess'[t].row.source \notin Alerts
        BY <4>1, <4>2, SentinelAssumption
      <4> QED
        BY <4>3 DEF OpensFirst
    <3>3. CASE t \in Consumers /\ ConsumeAlert(t) /\ ~UNCHANGED <<pc, sess>>
      <4>1. PICK v, a : sess'[t].row = NewRow(v, FALSE, a) /\ FindBySourceRef(a) = {}
        BY <3>3, ConsumedRow
      <4>2. sess'[t].row.source = a
        BY <4>1 DEF NewRow
      <4> QED
        BY <2>2, <3>3, <4>1, <4>2 DEF OpensFirst
    <3> QED
      BY <3>1, <3>2, <3>3, RowCases
  <2> QED
    BY <2>1, <2>3 DEF AlertInv
<1>2. ASSUME NEW s \in Sessions, CommitCreate(s)
      PROVE  AlertInv'
  <2> DEFINE new == sess[s].ref
             source == sess[s].row.source
  <2>1. /\ pc[s] = "commit" /\ sess[s].op = "create"
        /\ Advance(s, "refresh") /\ UNCHANGED sess
        /\ incidents' = [r \in DOMAIN incidents \cup {new} |->
                            IF r = new THEN sess[s].row ELSE incidents[r]]
    BY <1>2 DEF CommitCreate, CommitTimelineAndAudit
  <2>2. source \in Alerts => s \in Consumers /\ FindBySourceRef(source) = {}
    BY <2>1 DEF AlertInv, OpensFirst, PreCommit, InTransaction
  <2>3. pc'[s] = "refresh" /\ \A t \in Sessions \ {s} : pc'[t] = pc[t]
    BY <1>0, <2>1, AdvanceLocal
  <2>4. OneIncidentPerAlert'
    <3> SUFFICES ASSUME NEW r1 \in DOMAIN incidents', NEW r2 \in DOMAIN incidents',
                        incidents'[r1].source \in Alerts,
                        incidents'[r1].source = incidents'[r2].source
                 PROVE  r1 = r2
      BY DEF OneIncidentPerAlert
    <3>1. ASSUME NEW r \in DOMAIN incidents, r # new
          PROVE  source \in Alerts => incidents[r].source # source
      BY <2>2 DEF FindBySourceRef
    <3>2. CASE r1 = new /\ r2 # new
      BY <2>1, <3>1, <3>2
    <3>3. CASE r1 # new /\ r2 = new
      BY <2>1, <3>1, <3>3
    <3>4. CASE r1 # new /\ r2 # new
      BY <2>1, <3>4 DEF AlertInv, OneIncidentPerAlert
    <3> QED
      BY <3>2, <3>3, <3>4
  <2>5. ASSUME NEW t \in Sessions
        PROVE  OpensFirst(t)'
    <3> SUFFICES ASSUME pc'[t] \in PreCommit, sess'[t].op = "create",
                        sess'[t].row.source \in Alerts
                 PROVE  /\ t \in Consumers
                        /\ \A r \in DOMAIN incidents' :
                               incidents'[r].source # sess'[t].row.source
      BY DEF OpensFirst, FindBySourceRef
    <3>1. t # s
      BY <2>3 DEF PreCommit, InTransaction
    <3>2. t \in Consumers /\ FindBySourceRef(sess[t].row.source) = {}
      BY <2>1, <2>3, <3>1 DEF AlertInv, OpensFirst
    <3>3. source \notin Alerts
      BY <2>2, <3>1, <3>2
    <3>4. sess'[t].row.source # source /\ sess'[t].row.source = sess[t].row.source
      BY <2>1, <3>3
    <3> QED
      BY <2>1, <3>2, <3>4 DEF FindBySourceRef
  <2> QED
    BY <2>4, <2>5 DEF AlertInv
<1> QED
  BY <1>0, <1>1, <1>2, SourceKept, IncidentCases

LEMMA OneConsumerKeepsAlertInv ==
    ASSUME NEW c0, Consumers = {c0}
    PROVE  Spec => []AlertInv
<1>1. Init => AlertInv
  <2> SUFFICES ASSUME Init PROVE AlertInv
    OBVIOUS
  <2>1. OneIncidentPerAlert
    BY DEF Init, OneIncidentPerAlert
  <2>2. \A s \in Sessions : pc[s] = "idle"
    BY DEF Init
  <2> QED
    BY <2>1, <2>2 DEF AlertInv, OpensFirst, PreCommit, InTransaction
<1>2. TypeInv /\ AlertInv /\ [Next]_vars => AlertInv'
  BY AlertStep
<1> QED
  BY <1>1, <1>2, AlwaysTypeInv, PTL DEF Spec

\* With one consumer, an alert that is delivered again, after a crash or a
\* late offset commit, never opens a second incident.
THEOREM OneConsumerOneIncident ==
    ASSUME NEW c0, Consumers = {c0}
    PROVE  Spec => []OneIncidentPerAlert
<1>1. AlertInv => OneIncidentPerAlert
  BY DEF AlertInv
<1> QED
  BY <1>1, OneConsumerKeepsAlertInv, PTL

------------------------------------------------------------------------------
(* The anchors of the audit log.                                           *)

\* The row a session read is still there, and older than the row it inserts.
AnchorOK(s) ==
    /\ pc[s] \in {"auditInsert", "commit"} =>
          sess[s].prev = 0 \/ \E b \in audit : b.id = sess[s].prev
    /\ pc[s] = "commit" => sess[s].prev < sess[s].aid /\ sess[s].aid <= auditSeq

AnchorInv ==
    /\ AuditRowsAnchored
    /\ \A a \in audit : a.id <= auditSeq
    /\ \A s \in Sessions : AnchorOK(s)

AuditKept(t) ==
    pc'[t] \in {"auditInsert", "commit"} => pc'[t] = pc[t] /\ sess'[t] = sess[t]

AuditFrame == /\ UNCHANGED <<audit, auditSeq>>
              /\ \A t \in Sessions : AuditKept(t)

LEMMA AuditBegin ==
    ASSUME TypeOK, NEW s \in Sessions, NEW record, NEW step, Begin(s, record, step),
           step \in {"insert", "flush", "audit", "count"}
    PROVE  \A t \in Sessions : AuditKept(t)
<1>1. \A t \in Sessions \ {s} : pc'[t] = pc[t] /\ sess'[t] = sess[t]
  BY BeginLocal
<1>2. pc'[s] = step
  BY BeginLocal
<1> QED
  BY <1>1, <1>2 DEF AuditKept

LEMMA AuditCases ==
    ASSUME TypeInv, [Next]_vars
    PROVE  \/ AuditFrame
           \/ \E s \in Sessions : \/ SelectLastAudit(s) \/ InsertAudit(s)
                                 \/ /\ CommitTimelineAndAudit(s) /\ pc'[s] # "commit"
                                    /\ \A t \in Sessions : AuditKept(t)
<1> USE DEF TypeInv
<1>1. CASE UNCHANGED vars \/ Quiescent \/ AlertPublished \/ AutoCommit
  BY <1>1 DEF vars, dbVars, Quiescent, AlertPublished, AutoCommit, AuditFrame, AuditKept
<1>2. CASE \E c \in Consumers : Rebalance(c)
  BY <1>2 DEF Rebalance, dbVars, AuditFrame, AuditKept
<1>3. ASSUME NEW h \in Handlers, StartRequest(h)
      PROVE  AuditFrame
  <2>1. h \in Sessions
    BY DEF Sessions
  <2>2. UNCHANGED <<audit, auditSeq>>
    BY <1>3 DEF StartRequest, CreateIncident, UpdateStatus, AssignIncident, AddNote,
                Request, dbVars
  <2>3. PICK record, step : Begin(h, record, step) /\ step \in {"insert", "flush", "audit", "count"}
    BY <1>3 DEF StartRequest, CreateIncident, UpdateStatus, AssignIncident, AddNote
  <2> QED
    BY <2>1, <2>2, <2>3, AuditBegin DEF AuditFrame
<1>4. ASSUME NEW c \in Consumers, ConsumeAlert(c)
      PROVE  AuditFrame
  <2>1. c \in Sessions /\ UNCHANGED <<audit, auditSeq>>
    BY <1>4 DEF Sessions, ConsumeAlert, dbVars
  <2>2. UNCHANGED <<pc, sess>> \/ \E record : Begin(c, record, "count")
    BY <1>4 DEF ConsumeAlert
  <2> QED
    BY <2>1, <2>2, AuditBegin DEF AuditFrame, AuditKept
<1>5. ASSUME NEW c \in Consumers, CountIncidents(c)
      PROVE  AuditFrame
  <2>1. c \in Sessions /\ UNCHANGED <<audit, auditSeq>>
    BY <1>5 DEF Sessions, CountIncidents, dbVars
  <2>2. pc'[c] = "insert" /\ \A t \in Sessions \ {c} : pc'[t] = pc[t] /\ sess'[t] = sess[t]
    BY <1>5, <2>1 DEF CountIncidents, TypeOK
  <2> QED
    BY <2>1, <2>2 DEF AuditFrame, AuditKept
<1>6. ASSUME NEW s \in Sessions, Advance(s, "audit") \/ Advance(s, "refresh"), UNCHANGED sess
      PROVE  \A t \in Sessions : AuditKept(t)
  BY <1>6, AdvanceLocal DEF AuditKept
<1>7. ASSUME NEW s \in Sessions, Finish(s)
      PROVE  \A t \in Sessions : AuditKept(t)
  BY <1>7, FinishLocal DEF AuditKept
<1>8. ASSUME NEW s \in Sessions, InsertIncident(s) \/ FlushUpdate(s)
      PROVE  AuditFrame
  BY <1>6, <1>7, <1>8 DEF InsertIncident, FlushUpdate, AuditFrame, dbVars
<1>9. ASSUME NEW s \in Sessions, PublishIncidentEvent(s) \/ Crash(s)
      PROVE  AuditFrame
  BY <1>7, <1>9 DEF PublishIncidentEvent, Crash, AuditFrame, dbVars
<1>10. ASSUME NEW s \in Sessions, Refresh(s)
       PROVE  AuditFrame
  <2>1. pc'[s] = "publish" /\ \A t \in Sessions \ {s} : pc'[t] = pc[t] /\ sess'[t] = sess[t]
    BY <1>10 DEF Refresh, Advance, TypeOK
  <2> QED
    BY <1>10, <2>1 DEF AuditFrame, AuditKept, Refresh, dbVars
<1>11. ASSUME NEW s \in Sessions,
              CommitCreate(s) \/ CommitStatus(s) \/ CommitAssign(s) \/ CommitNote(s)
       PROVE  /\ CommitTimelineAndAudit(s) /\ pc'[s] # "commit"
              /\ \A t \in Sessions : AuditKept(t)
  <2>1. pc'[s] \in {"refresh", "idle"}
    BY <1>11, AdvanceLocal, FinishLocal DEF CommitCreate, CommitStatus, CommitAssign, CommitNote
  <2> QED
    BY <1>6, <1>7, <1>11, <2>1 DEF CommitCreate, CommitStatus, CommitAssign, CommitNote
<1> QED
  BY <1>1, <1>2, <1>3, <1>4, <1>5, <1>8, <1>9, <1>10, <1>11 DEF Next, Step

LEMMA AnchorStep == TypeInv /\ AnchorInv /\ [Next]_vars => AnchorInv'
<1> SUFFICES ASSUME TypeInv, AnchorInv, [Next]_vars PROVE AnchorInv'
  OBVIOUS
<1>0. /\ TypeOK /\ auditSeq \in Nat /\ audit \subseteq AuditRow
      /\ sess \in [Sessions -> Session] /\ pc \in [Sessions -> Steps]
  BY DEF TypeInv, TypeOK
<1>1. CASE AuditFrame
  BY <1>1 DEF AuditFrame, AuditKept, AnchorInv, AnchorOK, AuditRowsAnchored
<1>2. ASSUME NEW s \in Sessions, SelectLastAudit(s)
      PROVE  AnchorInv'
  <2>1. PICK n \in 0..auditSeq : IsLastAuditId(n) /\ sess' = [sess EXCEPT ![s].prev = n]
    BY <1>2 DEF SelectLastAudit
  <2>2. Advance(s, "auditInsert") /\ UNCHANGED <<audit, auditSeq>>
    BY <1>2 DEF SelectLastAudit, dbVars
  <2>3. pc'[s] = "auditInsert" /\ sess'[s].prev = n
    BY <1>0, <2>1, <2>2 DEF Advance, Session
  <2>4. \A t \in Sessions \ {s} : pc'[t] = pc[t] /\ sess'[t] = sess[t]
    BY <1>0, <2>1, <2>2 DEF Advance
  <2>5. AnchorOK(s)'
    BY <2>1, <2>2, <2>3 DEF AnchorOK, IsLastAuditId
  <2> QED
    BY <2>2, <2>4, <2>5 DEF AnchorInv, AnchorOK, AuditRowsAnchored
<1>3. ASSUME NEW s \in Sessions, InsertAudit(s)
      PROVE  AnchorInv'
  <2>1. /\ pc[s] = "auditInsert" /\ Advance(s, "commit") /\ UNCHANGED audit
        /\ auditSeq' = auditSeq + 1
        /\ sess' = [sess EXCEPT ![s].aid = auditSeq + 1]
    BY <1>3 DEF InsertAudit
  <2>2. pc'[s] = "commit" /\ sess'[s].prev = sess[s].prev /\ sess'[s].aid = auditSeq + 1
    BY <1>0, <2>1 DEF Advance, Session
  <2>3. \A t \in Sessions \ {s} : pc'[t] = pc[t] /\ sess'[t] = sess[t]
    BY <1>0, <2>1 DEF Advance
  <2>4. sess[s].prev <= auditSeq
    <3>1. sess[s].prev = 0 \/ \E b \in audit : b.id = sess[s].prev
      BY <2>1 DEF AnchorInv, AnchorOK
    <3> QED
      BY <1>0, <3>1 DEF AnchorInv
  <2>5. AnchorOK(s)'
    <3>1. sess[s].prev \in Nat
      BY <1>0 DEF Session
    <3> QED
      BY <1>0, <2>1, <2>2, <2>4, <3>1 DEF AnchorInv, AnchorOK
  <2>6. ASSUME NEW t \in Sessions, t # s
        PROVE  AnchorOK(t)'
    <3>1. AnchorOK(t) /\ sess[t].aid \in Nat
      BY <1>0 DEF AnchorInv, Session
    <3> QED
      BY <1>0, <2>1, <2>3, <2>6, <3>1 DEF AnchorOK
  <2>7. \A a \in audit' : a.id <= auditSeq'
    BY <1>0, <2>1 DEF AnchorInv, AuditRow
  <2> QED
    BY <2>1, <2>5, <2>6, <2>7 DEF AnchorInv, AuditRowsAnchored
<1>4. ASSUME NEW s \in Sessions, CommitTimelineAndAudit(s), \A t \in Sessions : AuditKept(t)
      PROVE  AnchorInv'
  <2> DEFINE new == [id |-> sess[s].aid, prev |-> sess[s].prev]
  <2>1. pc[s] = "commit" /\ audit' = audit \cup {new} /\ UNCHANGED auditSeq
    BY <1>4 DEF CommitTimelineAndAudit
  <2>2. /\ new.prev = 0 \/ \E b \in audit : b.id = new.prev
        /\ new.prev < new.id /\ new.id <= auditSeq
    BY <2>1 DEF AnchorInv, AnchorOK
  <2>3. AuditRowsAnchored'
    BY <2>1, <2>2 DEF AnchorInv, AuditRowsAnchored
  <2>4. \A t \in Sessions : AnchorOK(t)'
    BY <1>4, <2>1 DEF AnchorInv, AnchorOK, AuditKept
  <2> QED
    BY <2>1, <2>2, <2>3, <2>4 DEF AnchorInv
<1> QED
  BY <1>1, <1>2, <1>3, <1>4, AuditCases

\* No audit row chains to one that was rolled back or that is newer.
THEOREM AuditAnchored == Spec => []AuditRowsAnchored
<1>1. Init => AnchorInv
  <2> SUFFICES ASSUME Init PROVE AnchorInv
    OBVIOUS
  <2>1. audit = {} /\ \A s \in Sessions : pc[s] = "idle"
    BY DEF Init
  <2> QED
    BY <2>1 DEF AnchorInv, AnchorOK, AuditRowsAnchored
<1>2. AnchorInv => AuditRowsAnchored
  BY DEF AnchorInv
<1> QED
  BY <1>1, <1>2, AlwaysTypeInv, AnchorStep, PTL DEF Spec
=============================================================================
