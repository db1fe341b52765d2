------------------------- MODULE IncidentProperties -------------------------
(***************************************************************************)
(* What incident-service promises, as invariants, action properties and    *)
(* liveness properties of IncidentService.                                 *)
(***************************************************************************)
EXTENDS IncidentService

\* The type of every variable.
TypeOK ==
    /\ DOMAIN incidents \subseteq Nat \ {0}
    /\ incidents \in [DOMAIN incidents -> Row]
    /\ timeline \subseteq TimelineEntry
    /\ notifications \subseteq (Nat \X {"CBN", "NDPC"})
    /\ audit \subseteq AuditRow /\ auditSeq \in Nat
    /\ events \in Seq(Event) /\ alertLog \in Seq(Message)
    /\ position \in Nat /\ committed \in Nat /\ owner \in Consumers
    /\ pc \in [Sessions -> Steps] /\ sess \in [Sessions -> Session]
    /\ clock \in Nat
    /\ requests \in Nat /\ crashes \in Nat /\ rebalances \in Nat

------------------------------------------------------------------------------
(* Sequential references (Incident.reference, _next_reference).            *)

\* The references in use are 1, 2, ..., n without a gap, whatever creations
\* run at the same time, collide or die: COUNT(*) + 1 never skips a number.
ReferencesGapFree == DOMAIN incidents = 1..Count

------------------------------------------------------------------------------
(* Auto-opening (services/events.py).                                      *)

\* A monitoring alert, however often it is delivered, has at most one
\* incident.
OneIncidentPerAlert ==
    \A r1, r2 \in DOMAIN incidents :
        incidents[r1].source \in Alerts /\ incidents[r1].source = incidents[r2].source
            => r1 = r2

\* Session s is working on a message about alert a.
Handling(s, a) == pc[s] # "idle" /\ sess[s].op = "create" /\ sess[s].row.source = a

Qualifies(m) == m.severity >= AutoOpenMin

\* A qualifying alert the consumer has moved past has its incident, unless
\* its handler is still running: none is dropped silently.
NoAlertDropped ==
    \A k \in 1..position :
        Qualifies(alertLog[k]) =>
            \/ FindBySourceRef(alertLog[k].alert) # {}
            \/ \E c \in Consumers : Handling(c, alertLog[k].alert)

------------------------------------------------------------------------------
(* The incident row against its history.                                   *)

\* The timestamps that dashboards compute with agree with the status: a
\* contained, resolved or closed incident carries that timestamp, a closed one
\* a resolution as well, and one that is still open carries none, also when
\* handlers overwrite each other's status.
StampsMatchStatus ==
    \A r \in DOMAIN incidents :
        LET row == incidents[r] IN
        /\ row.status \in Stamps => row.status \in row.stamped
        /\ "closed" \in row.stamped => "resolved" \in row.stamped
        /\ row.status = "open" => row.stamped = {}

\* Each incident has exactly the drafts its severity and the personal-data
\* flag call for, one for each regulator, and the timeline records each of
\* them, with redelivered alerts and crashed sessions in between.
DraftsMatchTimeline ==
    /\ notifications =
          {d \in (DOMAIN incidents) \X {"CBN", "NDPC"} :
              IF d[2] = "CBN" THEN incidents[d[1]].severity >= High
              ELSE incidents[d[1]].ndpa}
    /\ notifications = {<<e.ref, e.kind>> :
                           e \in {f \in timeline : f.kind \in {"CBN", "NDPC"}}}

StatusEntries(r) ==
    {e \in timeline : e.ref = r /\ e.kind \in {"created", "status_change"}}

Before(r, e) == {f \in StatusEntries(r) : f.at < e.at}

Newest(es) == CHOOSE e \in es : \A f \in es : f.at <= e.at

\* Read in its order (created_at), the timeline of an incident is the history
\* of its status: it starts with the creation, each change starts from the
\* status the entry before it led to, and the last leads to the row's status.
TimelineIsHistory ==
    \A r \in DOMAIN incidents :
        /\ incidents[r].status = Newest(StatusEntries(r)).to
        /\ \A e \in StatusEntries(r) :
              IF e.kind = "created" THEN Before(r, e) = {}
              ELSE Before(r, e) # {} /\ e.from = Newest(Before(r, e)).to

------------------------------------------------------------------------------
(* The hash-chained audit log.                                             *)

\* Each audit row points to the genesis hash or to an older row that is
\* itself committed: no row chains to one that was rolled back.
AuditRowsAnchored ==
    \A a \in audit :
        \/ a.prev = 0
        \/ \E b \in audit : b.id = a.prev /\ b.id < a.id

\* verify_chain: each row points to the row that precedes it by id.
AuditChainVerifies ==
    \A a \in audit :
        LET older == {b.id : b \in {c \in audit : c.id < a.id}} IN
        IF older = {} THEN a.prev = 0
        ELSE a.prev \in older /\ \A i \in older : i <= a.prev

------------------------------------------------------------------------------
(* Published events.                                                       *)

\* Only committed facts are announced: an event names a committed incident,
\* an incident is announced as opened once, and an event that says contained,
\* resolved or closed is about an incident that has been so.
EventsAreFacts ==
    /\ \A k \in DOMAIN events :
          /\ events[k].ref \in DOMAIN incidents
          /\ events[k].status \in Stamps =>
                events[k].status \in incidents[events[k].ref].stamped
    /\ \A j, k \in DOMAIN events :
          /\ events[j].type = "incident.opened" /\ events[k].type = "incident.opened"
          /\ events[j].ref = events[k].ref
          => j = k

------------------------------------------------------------------------------
(* Liveness.                                                               *)

\* No session waits for ever: every lock a handler waits for is released.
EverySessionEnds == \A s \in Sessions : pc[s] # "idle" ~> pc[s] = "idle"

\* A qualifying alert on the topic eventually has an incident.
AlertsOpenIncidents ==
    \A a \in Alerts :
        (\E k \in 1..Len(alertLog) :
            alertLog[k].alert = a /\ Qualifies(alertLog[k]))
        ~> FindBySourceRef(a) # {}

------------------------------------------------------------------------------
(* Refinement.                                                             *)

Register == INSTANCE IncidentRegister WITH
    register <- [n \in 1..Count |-> [source |-> incidents[n].source,
                                     status |-> incidents[n].status]]

\* With one consumer and one writer of statuses at a time, the service is the
\* numbered register of IncidentRegister: creations of any number of sessions
\* append to it one at a time, each alert opens at most one incident, and a
\* status moves only along the lifecycle.
ImplementsRegister == Register!Spec
=============================================================================
