-------------------------- MODULE MonitoringService --------------------------
(***************************************************************************)
(* monitoring-service: portfolio sweeps (the scheduler and POST            *)
(* /monitoring/sweep), the event consumer, and analysts who acknowledge    *)
(* and resolve alerts, each a database session of one process.             *)
(*                                                                         *)
(* Handlers await between statements, so sessions interleave; what one has *)
(* written is seen by the others when it commits, and an UPDATE holds the  *)
(* lock of its row until then.  A sweep is one transaction over the whole  *)
(* portfolio, followed by the publication of the alerts it touched and a   *)
(* second transaction that stores which of them were sent.                 *)
(*                                                                         *)
(* Audit rows are left out: record_audit_event is the function modelled in *)
(* IncidentService.                                                        *)
(***************************************************************************)
EXTENDS AlertEngine, FiniteSets

CONSTANTS
    Sweepers,      \* the scheduler task and manual sweep requests
    Consumers,     \* the event consumer task
    Analysts,      \* acknowledge and resolve requests served at the same time
    VendorList,    \* the portfolio, newest first, as vendor-service lists it
    Readings,      \* posture readings of a vendor
    Inbound,       \* events of the topics the consumer reads
    AnalystOps,    \* the analyst endpoints that are called
    BrokerUp,      \* TRUE when every publish reaches a broker
    PrimaryKey(_), \* the random uuid of an alert, as a number that orders them
    MaxSweeps,     \* bound: sweeps started
    MaxEvents,     \* bound: inbound events handled
    MaxRequests,   \* bound: analyst requests
    MaxCrashes     \* bound: sessions killed with the process

Sessions == Sweepers \cup Consumers \cup Analysts
\* The vendors alerts are about: the portfolio and what events name.
Vendors == {VendorList[i] : i \in DOMAIN VendorList} \cup {e.vendor : e \in Inbound}

ASSUME SessionAssumption ==
    /\ Sweepers \cap Consumers = {} /\ Sweepers \cap Analysts = {}
    /\ Consumers \cap Analysts = {}
ASSUME OpsAssumption == AnalystOps \subseteq {"acknowledge", "resolve"}
ASSUME BoundAssumption ==
    BrokerUp \in BOOLEAN /\ {MaxSweeps, MaxEvents, MaxRequests, MaxCrashes} \subseteq Nat
ASSUME DataAssumption ==
    /\ VendorList \in Seq(Vendors)
    /\ \A r \in Readings :
           r.posture \in 0..1000 /\ {r.iocs, r.abuse} \subseteq Nat /\ r.services \subseteq STRING

VARIABLES
    alerts,      \* committed alerts: number -> row, numbered by first_seen_at
    alertSeq,    \* alerts inserted so far, also by sessions that rolled back
    snapshots,   \* committed snapshots
    clock,       \* snapshots taken so far; observed_at
    sent,        \* MONITORING_ALERTS, in the order it was published
    pc,          \* next step of each session
    sess,        \* what each session holds in memory and uncommitted
    sweeps, handled, requests, crashes    \* counters of the bounds

dbVars == <<alerts, alertSeq, snapshots, clock>>
boundVars == <<sweeps, handled, requests, crashes>>
vars == <<dbVars, sent, pc, sess, boundVars>>

------------------------------------------------------------------------------
\* op: the operation; vendors: still to be swept; specs: still to be upserted;
\* objs: the alerts in memory; snaps: uncommitted snapshots; next: the alert to
\* publish next; flagged: the rows locked by the second transaction.
NoSession == [op |-> "none", vendors |-> <<>>, specs |-> <<>>, objs |-> <<>>,
              snaps |-> {}, next |-> 1, flagged |-> {}]

\* An alert in the memory of a session: the row as it was read (or inserted)
\* and as it is now.
Loaded(n) == [id |-> n, new |-> FALSE, read |-> alerts[n], row |-> alerts[n]]

Last(q) == q[Len(q)]

\* The step after a spec is dealt with: the next one of this vendor, the next
\* vendor, or the end of the transaction; publishing comes after that.
NextStepUncommitted(specs, vendors) ==
    IF specs # <<>> THEN "select" ELSE IF vendors # <<>> THEN "vendor" ELSE "publish"
NextStep(specs, vendors) ==
    IF specs # <<>> THEN "select" ELSE IF vendors # <<>> THEN "vendor" ELSE "commit"

\* The rows a session has updated and not committed: their locks.
UpdatedIds(objs) == {objs[i].id : i \in {j \in DOMAIN objs : ~objs[j].new}}
HeldLocks(s) ==
    CASE pc[s] \in {"vendor", "select", "commit"} -> UpdatedIds(sess[s].objs)
      [] pc[s] = "flush" -> UpdatedIds(SubSeq(sess[s].objs, 1, Len(sess[s].objs) - 1))
      [] pc[s] = "flag" -> sess[s].flagged
      [] OTHER -> {}

Free(s, n) == \A t \in Sessions \ {s} : n \notin HeldLocks(t)

\* The newest snapshot of a vendor, in a set, or none; not the first one.
FirstOf(v) ==
    {p \in snapshots : p.vendor = v /\ \A q \in snapshots : q.vendor = v => q.at >= p.at}
Previous(v) ==
    {p \in snapshots : p.vendor = v /\ \A q \in snapshots : q.vendor = v => q.at <= p.at}

\* upsert_alert: the alerts the dedup query matches.  It would be wrong to match
\* open ones only, leaving out acknowledged ones.
Matches(n, spec) == alerts[n].vendor = spec.vendor /\ alerts[n].key = spec.key
OpenOnly(spec) == {n \in DOMAIN alerts : Matches(n, spec) /\ alerts[n].status = "open"}
FindExisting(spec) ==
    {n \in DOMAIN alerts : Matches(n, spec) /\ alerts[n].status # "resolved"}

NewUncounted(spec) ==
    [vendor |-> spec.vendor, key |-> spec.key, severity |-> spec.severity,
     status |-> "open", count |-> 0, published |-> FALSE, resolvedAt |-> FALSE]
NewAlert(spec) ==
    [vendor |-> spec.vendor, key |-> spec.key, severity |-> spec.severity,
     status |-> "open", count |-> 1, published |-> FALSE, resolvedAt |-> FALSE]

\* A repeat escalates the severity if it is worse.
Bump(row, spec) ==
    [row EXCEPT !.count = @ + 1, !.published = FALSE,
                !.severity = IF spec.severity > @ THEN spec.severity ELSE @]

MergeNothing(current, obj) == current
\* An UPDATE writes the columns whose value in memory differs from the one read.
Merge(current, obj) ==
    [col \in DOMAIN current |->
        IF obj.row[col] # obj.read[col] THEN obj.row[col] ELSE current[col]]

Init ==
    /\ alerts = <<>> /\ alertSeq = 0
    /\ snapshots = {} /\ clock = 0
    /\ sent = <<>>
    /\ pc = [s \in Sessions |-> "idle"]
    /\ sess = [s \in Sessions |-> NoSession]
    /\ sweeps = 0 /\ handled = 0 /\ requests = 0 /\ crashes = 0

------------------------------------------------------------------------------
(* Starting.                                                               *)

Begin(s, record, step) ==
    /\ pc[s] = "idle"
    /\ pc' = [pc EXCEPT ![s] = step]
    /\ sess' = [sess EXCEPT ![s] = record]
    /\ UNCHANGED <<dbVars, sent>>

\* run_sweep: list_vendor_ids returns what it has collected when a page fails.
StartSweep(s) ==
    /\ sweeps < MaxSweeps
    /\ sweeps' = sweeps + 1
    /\ \E n \in 0..Len(VendorList) :
           LET listed == SubSeq(VendorList, 1, n) IN
           Begin(s, [NoSession EXCEPT !.op = "sweep", !.vendors = listed],
                 NextStep(<<>>, listed))
    /\ UNCHANGED <<handled, requests, crashes>>

\* handle_event; an event that is not actionable ends at once.
HandleEvent(c) ==
    /\ handled < MaxEvents
    /\ handled' = handled + 1
    /\ \E e \in Inbound :
           /\ AlertFromEvent(e) # <<>>
           /\ Begin(c, [NoSession EXCEPT !.op = "event", !.specs = AlertFromEvent(e)],
                    "select")
    /\ UNCHANGED <<sweeps, requests, crashes>>

\* An analyst request loads the alert, changes it in memory, and flushes it.
Analyse(h, op, n, row) ==
    /\ op \in AnalystOps
    /\ requests < MaxRequests
    /\ requests' = requests + 1
    /\ Begin(h, [NoSession EXCEPT !.op = op, !.objs = <<[Loaded(n) EXCEPT !.row = row]>>],
             "flush")
    /\ UNCHANGED <<sweeps, handled, crashes>>

\* POST /monitoring/alerts/{id}/acknowledge: 409 when it is resolved.
MayAcknowledge(n) == alerts[n].status # "resolved"
Acknowledge(h) ==
    \E n \in DOMAIN alerts :
        /\ MayAcknowledge(n)
        /\ Analyse(h, "acknowledge", n, [alerts[n] EXCEPT !.status = "acknowledged"])

\* POST /monitoring/alerts/{id}/resolve: in any status.
Resolve(h) ==
    \E n \in DOMAIN alerts :
        Analyse(h, "resolve", n,
                [alerts[n] EXCEPT !.status = "resolved", !.resolvedAt = TRUE])

------------------------------------------------------------------------------
(* The statements of a session.                                            *)

Move(s, step, record) ==
    /\ pc' = [pc EXCEPT ![s] = step]
    /\ sess' = [sess EXCEPT ![s] = record]

Finish(s) == Move(s, "idle", NoSession)

\* sweep_vendor: read the previous snapshot, take a reading, insert the new
\* snapshot.  A vendor whose reading fails is skipped.
SweepVendor(s) ==
    /\ pc[s] = "vendor"
    /\ LET v == Head(sess[s].vendors)
           rest == Tail(sess[s].vendors)
       IN  \/ /\ Move(s, NextStep(<<>>, rest), [sess[s] EXCEPT !.vendors = rest])
              /\ UNCHANGED clock
           \/ \E reading \in Readings :
                 LET specs == EvaluateSnapshot(v, reading, Previous(v)) IN
                 /\ clock' = clock + 1
                 /\ Move(s, NextStep(specs, rest),
                         [sess[s] EXCEPT
                            !.vendors = rest, !.specs = specs,
                            !.snaps = @ \cup
                               {[vendor |-> v, at |-> clock + 1,
                                 exposure |-> ExposureIndex(reading),
                                 services |-> reading.services,
                                 drift |-> Drift(reading, Previous(v))]}])
    /\ UNCHANGED <<alerts, alertSeq, snapshots, sent, boundVars>>

\* upsert_alert: bump the newest unresolved match, or insert a new alert.
SelectAlert(s) ==
    /\ pc[s] = "select"
    /\ LET spec == Head(sess[s].specs)
           rest == Tail(sess[s].specs)
           existing == FindExisting(spec)
       IN  IF existing = {}
           THEN /\ alertSeq' = alertSeq + 1
                /\ Move(s, NextStep(rest, sess[s].vendors),
                        [sess[s] EXCEPT !.specs = rest, !.objs =
                            Append(@, [id |-> alertSeq + 1, new |-> TRUE,
                                       read |-> NewAlert(spec), row |-> NewAlert(spec)])])
           ELSE \E n \in existing :
                /\ \A m \in existing : m <= n
                /\ UNCHANGED alertSeq
                /\ Move(s, "flush",
                        [sess[s] EXCEPT !.specs = rest, !.objs =
                            Append(@, [Loaded(n) EXCEPT !.row = Bump(@, spec)])])
    /\ UNCHANGED <<alerts, snapshots, clock, sent, boundVars>>

\* The UPDATE is flushed before the next query, and waits for the row lock.
FlushAlert(s) ==
    /\ pc[s] = "flush"
    /\ Free(s, Last(sess[s].objs).id)
    /\ Move(s, NextStep(sess[s].specs, sess[s].vendors), sess[s])
    /\ UNCHANGED <<dbVars, sent, boundVars>>

\* What the commit leaves in the alert table.
Obj(objs, n) == objs[CHOOSE i \in DOMAIN objs : objs[i].id = n]
Stored(objs) ==
    LET ids == {objs[i].id : i \in DOMAIN objs} IN
    [n \in DOMAIN alerts \cup ids |->
        IF n \notin ids THEN alerts[n]
        ELSE IF n \in DOMAIN alerts THEN Merge(alerts[n], Obj(objs, n))
        ELSE Obj(objs, n).row]

\* After the commit a sweep publishes the rows it has in memory, the consumer
\* reloads its row, and an analyst request ends.
Commit(s) ==
    /\ pc[s] = "commit"
    /\ alerts' = Stored(sess[s].objs)
    /\ snapshots' = snapshots \cup sess[s].snaps
    /\ LET saved == [i \in DOMAIN sess[s].objs |->
                        [sess[s].objs[i] EXCEPT !.new = FALSE, !.read = sess[s].objs[i].row]]
       IN  CASE sess[s].op = "sweep" -> Move(s, "publish", [sess[s] EXCEPT !.objs = saved])
             [] sess[s].op = "event" -> Move(s, "refresh", [sess[s] EXCEPT !.objs = saved])
             [] OTHER -> Finish(s)
    /\ UNCHANGED <<alertSeq, clock, sent, boundVars>>

Refresh(s) ==
    /\ pc[s] = "refresh"
    /\ Move(s, "publish", [sess[s] EXCEPT !.objs = <<Loaded(Last(@).id)>>])
    /\ UNCHANGED <<dbVars, sent, boundVars>>

\* publish_alerts, one alert per step, leaves out what is marked published;
\* _handle_event publishes in any case, and only sets the mark.
Message(row, n) == [alert |-> n, severity |-> row.severity, status |-> row.status]

PublishAlert(s) ==
    /\ pc[s] = "publish"
    /\ sess[s].next <= Len(sess[s].objs)
    /\ LET i == sess[s].next
           obj == sess[s].objs[i]
           Marked(mark) == Move(s, "publish", [sess[s] EXCEPT !.objs[i].row.published = mark,
                                                              !.next = i + 1])
       IN  \/ /\ sess[s].op = "sweep" => ~obj.row.published
              /\ sent' = Append(sent, Message(obj.row, obj.id))
              /\ Marked(TRUE)
           \/ /\ ~BrokerUp \/ (sess[s].op = "sweep" /\ obj.row.published)
              /\ UNCHANGED sent
              /\ Marked(obj.row.published)
    /\ UNCHANGED <<dbVars, boundVars>>

\* The alerts whose mark this session changed.
Unflagged(s) ==
    LET Changed(obj) == obj.row.published # obj.read.published IN
    {sess[s].objs[i].id : i \in {j \in DOMAIN sess[s].objs : Changed(sess[s].objs[j])}}
        \ sess[s].flagged

\* The second transaction updates the flags of the alerts that were sent, row
\* by row in the order of their primary keys.
PublishDone(s) ==
    /\ pc[s] = "publish"
    /\ sess[s].next > Len(sess[s].objs)
    /\ IF Unflagged(s) = {} THEN Finish(s) ELSE Move(s, "flag", sess[s])
    /\ UNCHANGED <<dbVars, sent, boundVars>>

\* The flag that is next, if any is left.
NextFlag(s) ==
    {n \in Unflagged(s) : \A m \in Unflagged(s) : PrimaryKey(n) <= PrimaryKey(m)}

FlagAlert(s) ==
    /\ pc[s] = "flag"
    /\ \E n \in NextFlag(s) :
           /\ Free(s, n)
           /\ Move(s, "flag", [sess[s] EXCEPT !.flagged = @ \cup {n}])
    /\ UNCHANGED <<dbVars, sent, boundVars>>

\* Marks that are only set in memory are lost.
FlagsForgotten(s) ==
    /\ pc[s] = "flag"
    /\ Unflagged(s) = {}
    /\ Finish(s)
    /\ UNCHANGED <<dbVars, sent, boundVars>>
CommitFlags(s) ==
    /\ pc[s] = "flag"
    /\ Unflagged(s) = {}
    /\ alerts' = [n \in DOMAIN alerts |->
                    [alerts[n] EXCEPT !.published = @ \/ n \in sess[s].flagged]]
    /\ Finish(s)
    /\ UNCHANGED <<alertSeq, snapshots, clock, sent, boundVars>>

------------------------------------------------------------------------------
(* Failures.                                                               *)

Awaited(s) ==
    CASE pc[s] = "flush" -> {Last(sess[s].objs).id}
      [] pc[s] = "flag" -> NextFlag(s)
      [] OTHER -> {}

WaitsFor(s, t) == s # t /\ Awaited(s) \cap HeldLocks(t) # {}

\* Two sessions wait for each other's rows: the database aborts one of them.
\* In a sweep the error is caught per vendor, but the session refuses every
\* later statement, up to the audit row outside the loop: the sweep is rolled
\* back as a whole.
\* It would be wrong to try again without releasing what it holds.
RetryInPlace(s) ==
    /\ \E t \in Sessions : WaitsFor(s, t) /\ WaitsFor(t, s)
    /\ UNCHANGED vars
DeadlockVictim(s) ==
    /\ \E t \in Sessions : WaitsFor(s, t) /\ WaitsFor(t, s)
    /\ Finish(s)
    /\ UNCHANGED <<dbVars, sent, boundVars>>

\* A session is cut off where it is: its request is cancelled, or the process
\* dies.
Crash(s) ==
    /\ pc[s] # "idle"
    /\ crashes < MaxCrashes
    /\ crashes' = crashes + 1
    /\ Finish(s)
    /\ UNCHANGED <<dbVars, sent, sweeps, handled, requests>>

------------------------------------------------------------------------------
Step(s) ==
    \/ SweepVendor(s) \/ SelectAlert(s) \/ FlushAlert(s) \/ Commit(s)
    \/ Refresh(s) \/ PublishAlert(s) \/ PublishDone(s)
    \/ FlagAlert(s) \/ CommitFlags(s) \/ DeadlockVictim(s)

\* Nothing is running: the service waits for the next sweep, event or request.
Quiescent == (\A s \in Sessions : pc[s] = "idle") /\ UNCHANGED vars

Next ==
    \/ \E s \in Sweepers : StartSweep(s)
    \/ \E c \in Consumers : HandleEvent(c)
    \/ \E h \in Analysts : Acknowledge(h) \/ Resolve(h)
    \/ \E s \in Sessions : Step(s) \/ Crash(s)
    \/ Quiescent

Spec == Init /\ [][Next]_vars

\* The event loop resumes every await that can complete, and the database
\* grants free locks and breaks deadlocks.
FairSpec == Spec /\ \A s \in Sessions : WF_vars(Step(s))
=============================================================================
