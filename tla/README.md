# SC-TPCRS in TLA+

SC-TPCRS watches a bank's third-party suppliers: a set of FastAPI services, each with
its own PostgreSQL database, that talk over HTTP and Kafka. This directory holds
TLA+ models of its services, the TLC configurations that check them, and TLAPS proofs.
Paths below are relative to `src/`; `PROJECT.json` maps each definition to the lines it
stands for.

## 1. Inventory

| Component | State | Operations | Interacts with | What makes it correct |
|---|---|---|---|---|
| **incident-service** (`services/incident-service`) | incidents, timeline, notification drafts, audit log (PostgreSQL) | create, change status, assign, add note; consume an alert | reads `MONITORING_ALERTS`, publishes `INCIDENT_EVENTS` | gap-free unique references; one incident per alert; no qualifying alert lost; timeline = history of the row; audit chain verifies; only facts announced |
| **monitoring-service** | snapshots, alerts, audit log | sweep (scheduler, `POST /monitoring/sweep`), consume events, acknowledge, resolve | lists vendors over HTTP; reads CVE, compliance and anomaly topics; publishes `MONITORING_ALERTS` | one unresolved alert per finding; drift is the difference to the preceding snapshot; every drift at a threshold alerts; nothing uncommitted announced, nothing committed left unannounced |
| **vendor-service** | vendors, questionnaires, responses, document rows; a file store | create, patch, transition, list, generate and answer questionnaires, upload | publishes `VENDOR_LIFECYCLE_EVENTS`; read by monitoring, risk, sbom | legal onboarding steps; a questionnaire completes with all answers and with its vendor; tiers change by PATCH only; rows have files; listings accountable |
| **risk-service** | score history with anomaly flags, tech stacks | compute (HTTP, lifecycle event), add components, dashboard | reads vendor-service and its adapters; publishes score and anomaly events | scores in range, the newest score current, what is announced is a row, an event is lost only to a failure |
| **compliance-service** | assessments, control results | assess (HTTP with overrides, lifecycle event), report, dashboard | reads the lifecycle topic; publishes assessment events | each control of the scope counted once; reports agree with the engine; events handled |
| **sbom-service** | documents, components, vulnerabilities; a Neo4j mirror | ingest, scan, graph queries | asks vendor-service; publishes ingestion and CVE events | the graph claims nothing the rows do not have; what it misses is owed to failures; alerts match findings |
| **gateway** | Redis counters | authenticate, rate-limit, route, proxy | in front of all services | who is refused has used a window; no more than two windows' worth passes in one |
| **auth-service** | users | login, second factor, seed users | issues the tokens all services verify | service only within a session both factors opened |
| **shared library** (`shared/py-common`) | producer connection, consumer position, Redis keys | publish, consume, audit, cache, count, sign | every service | fail-soft publication; at-least-once handling; chained audit rows; bounded age of cached values |
| frontend, seed data, scripts, deployment files | none of their own | views and one-off loads over HTTP; configuration | | not modelled |

**What is hard.** Request handlers, Kafka consumers and the sweep scheduler are tasks
of one event loop; each holds a database session and awaits between statements, so their
statements interleave. incident-service runs two worker processes
(`docker-compose.prod.yml`), monitoring-service one. PostgreSQL runs at READ COMMITTED:
a SELECT sees what is committed, an UPDATE waits for the row lock and then writes its
columns over whatever the row holds by then. Nothing uses version columns or `SELECT ...
FOR UPDATE`. Events are published after the commit and dropped when no broker answers;
the consumers commit fetched offsets automatically. Rows, files, graph and topics are
different stores without a common transaction. The places where this bites are the
"hazards" of `PROJECT.json`, each at its line with the properties that cover it.

## 2. Modules

| Module | What it is |
|---|---|
| `IncidentLifecycle` | pure: status machine, severity order, auto-open threshold, timestamp stamping, drafts |
| `IncidentService` | the service: sessions of handlers and consumers over the database and the topic |
| `IncidentRegister` | abstract specification: a numbered register of incidents |
| `IncidentProperties`, `MCIncident` | its properties with the refinement of `IncidentRegister`; instances |
| `IncidentProofs`, `IncidentHistoryProofs` | theorems and TLAPS proofs: types, references, stamps, audit rows; then drafts, events, audit chain, alerts, timeline, the refinement |
| `AlertEngine` | pure: exposure index, drift, severities, which alerts a reading or an event raises |
| `MonitoringService` | the service: sweeps, inbound events, analysts, publication |
| `MonitoringProperties`, `MCMonitoring`, `MonitoringProofs` | its properties, instances, theorems and proofs |
| `VendorLifecycle` | pure: onboarding states, tiers, question bank, questionnaire score |
| `VendorService` | the service, and a client paging through its vendor list |
| `VendorTopic` | abstract specification: a topic that announces legal steps |
| `VendorProperties`, `MCVendor`, `VendorProofs` | properties with the refinement of `VendorTopic`; instances; theorems and proofs |
| `RiskScore` | pure: sub-scores, vendor risk score, bands, risk dashboard |
| `ControlLibrary`, `ComplianceEngine` | pure: the catalogue as domains and weights; evaluation, scores, gaps, reports, dashboard |
| `Assessments` | composition: `VendorService` (by INSTANCE) with the consumers and requests of risk-service and compliance-service |
| `AssessmentProperties`, `MCAssessments`, `AssessmentProofs` | properties; instances and facts about the pure modules; theorems and proofs |
| `SbomParsers`, `CveScanner`, `SupplyChainGraph` | pure: four formats and normalisation; NVD, KEV, SSVC; the graph and its queries |
| `SbomService` | the service: ingestion over rows, graph and topics |
| `SbomProperties`, `MCSbom`, `SbomProofs` | properties; instances and facts about the pure modules; theorems and proofs |
| `RedisStore`, `JwtSessions` | pure: keys with expiry, counters; tokens and codes |
| `Gateway` | composition: gateway, auth-service, a service that checks tokens, the cached dashboard |
| `GatewayProperties`, `MCGateway`, `GatewayProofs` | properties, instances, theorems and proofs |
| `SumTheorems` | lemmas about finite sums (`MapThenSumSet`, `SumFunction`), which the proofs of `RateLimited`, `AlertsMatchFindings` and the ranges of scores need |

**Sessions.** The services with a database are modelled alike. `pc[s]` (or `job`, `task`,
`request`) is the next statement, call or publish of session `s`, `sess[s]` what it holds
in memory and has not committed; the other variables are committed tables, topics and
other stores. One action is one stretch between awaits: it reads committed state, or waits
for a lock, or commits. A lock is not stored: it is derived from `pc` and `sess`
(`Inserting`, `Updating`; `HeldLocks`). A commit applies only the columns the ORM saw
change (`CommitStatus`, `Merge`). A conflict, a cancelled request or a dead process ends
the session and leaves the tables as they were.

**IncidentService.** `CreateIncident`/`CountIncidents` is the `COUNT(*)` of
`_next_reference`, `InsertIncident` the flush that may hit the unique index,
`SelectLastAudit`/`InsertAudit` the two statements of `record_audit_event`, `Commit*` the
commit with its timeline rows and drafts, `Refresh`/`PublishIncidentEvent` what the router
or consumer does after it. `ConsumeAlert` is the head of the consumer loop with threshold
and dedup query; `AutoCommit`, `Rebalance` and `Crash` move the offset. Incidents are named
by their reference number (UNIQUE in the table). A transaction's `now()` is the number of
transactions begun before it.

**MonitoringService.** `StartSweep` takes any prefix of the portfolio, since
`list_vendor_ids` returns what it has when a page fails; `SweepVendor` reads the previous
snapshot, takes a reading (or fails, and the vendor is skipped) and inserts the snapshot;
`SelectAlert` and `FlushAlert` are `upsert_alert`; `Commit` ends the transaction of the
whole sweep; `PublishAlert` publishes, alert by alert, and `FlagAlert`/`CommitFlags` are the
second transaction that stores the `published` marks, row by row in primary-key order.
`DeadlockVictim` is PostgreSQL aborting one of two sessions that wait for each other.

**VendorService.** `CreateVendor`, `UpdateVendor` (PATCH), `TransitionVendor`,
`GenerateQuestionnaire`/`ReadLatest`, `UpdateResponses`/`ReadResponses` and
`UploadDocument`/`StoreFile` load what the routers load; `Commit` writes what differs from
it; `Refresh` rereads the row and `Publish` announces the step. `StartListing`,
`CountVendors`, `ReadPage` and `ListingFails` are `list_vendor_ids` of monitoring-service
against `list_vendors`, whose count and page are two statements.

**Assessments.** `Fetch` is the consumer loop of either service: the position is past the
event before its handler runs, and `Rejoin` starts again from what was committed.
`ReadQuestionnaireScore`, `ReadTechStack`, `ReadEvidence`, `FlushScore` and `CommitScore`
are `compute_for_vendor`, `RunAssessment` and `CommitAssessment` are `run_assessment`, the
`Publish...` steps what the handler does then.
`RequestComputation` and `CreateAssessment` start the same steps from HTTP.

**SbomService.** `Request` and `Ingest` are the pipeline of `ingest_sbom` up to the flush,
`Commit` its commit; `ReadSummary` asks vendor-service, which may be away; `Mirror` is the
write transaction of Neo4j, and then come the ingestion event and the alerts one by one.
A package URL is the triple of type, name and version.

**Gateway.** `Receive` and `Dismiss` are the checks of `catch_all` up to the metering,
`EnforceRateLimit` the atomic `INCR`/`EXPIRE NX`, and then the request is at the service:
`LogIn`, `VerifyMfa`, `SelectUsers`/`CommitUsers` (auth-service), `Serve` (any service:
`get_current_user` and `require_role`), `LookUp`, `ReadSummary`, `StoreSummary` (the
`cached` decorator). `Tick` lets time pass between any two of these.

**Mutants.** Definitions with a name such as `ReferenceFromZero` or `OpenOnly`, placed
before the definition they resemble and marked as wrong in its comment, are not used by the
specifications. `PROJECT.json` ("mutants") pairs each property of a passing run with one:
put in place of the real definition, it makes TLC report that property violated.

## 3. Runs

Every run is a small instance; bounds are the `Max...` constants. Deadlock is checked in
all of them: `Quiescent` is the explicit idling of a service with no running session.

| Run | Instance | Checks |
|---|---|---|
| `incident_creates` | one handler and consumers of two workers all creating, one crash, one rebalance | `TypeOK`, `ReferencesGapFree`, `AuditChainVerifies` |
| `incident_alerts` | two alerts, three messages below and at the threshold, one analyst, fair | `NoAlertDropped`, `AlertsOpenIncidents` |
| `incident_redelivery` | one alert redelivered after a crash, one analyst with every write operation, fair | `TimelineIsHistory`, `DraftsMatchTimeline`, `StampsMatchStatus`, `OneIncidentPerAlert`, `EventsAreFacts`, `AuditRowsAnchored`, `ImplementsRegister`, `EverySessionEnds` |
| `monitor_sweeps` | three sweeps of one worker, readings healthy / exactly at the warning threshold / beyond the critical one, two analyst requests, broker may be away, one crash | `TypeOK`, `OneOpenAlert`, `DriftIsDelta`, `DriftAlerts`, `MessagesAreCommitted`, `PublishedIsAnnounced` |
| `monitor_events` | two inbound events of five kinds, a sweep, an analyst, broker reachable, fair | `AlertsAnnounced` |
| `monitor_overlap` | two overlapping sweeps of two vendors whose alert uuids sort against the portfolio order, fair | `EverySessionEnds` |
| `vendor_requests` | two handlers, one of which may PATCH, a listing with pages of one, two vendors, two domains of questions, one failure | `TypeOK`, `CompletedIsAnswered`, `CompletionMovesVendor`, `OnlyPatchesRetier`, `DocumentsHaveFiles`, `SkippedByCreation`, `ImplementsTopic` |
| `assessments` | one vendor with two domains of questions brought to a trigger state, both consumers, an analyst of each service whose request may be cut off at any step, one disturbance (a computation, a new component or a fault), fair | `TypeOK`, `OneLossPerFault`, `FreshWhenDrained`, `UpdatesAreRows`, `ConsumersCatchUp` |
| `sbom_ingestion` | three ingestions of five bills in four formats, one without any component, by two handlers; vendors that share components, a tier that changes, one outage or death | `TypeOK`, `GraphImpactIsReal`, `OneDocumentPerFault`, `AlertsMatchFindings` |
| `gateway` | one user, two requests at a time out of four, seven paths, three ticks, one fault (Redis, upstream, client, or a deactivation) | `RateLimited`, `OnlyVerifiedSessions`, `SummaryAge` |
| `vendor_decisions`, `incident_audit_fork` | expected violations, see section 4 | |

**Why the bounds suffice.** The collisions the properties are about need two sessions, and a
third actor (consumer, analyst, listing or crash) to come between them. Two references, two
alerts of a finding or two audit rows are the fewest that can clash. Three sweeps give a
snapshot a predecessor that itself has one. Readings sit exactly on the warning threshold,
on both sides of the indicator severities, and above the caps. Two questions let each of two
requests answer one; pages of one put a boundary after every vendor. Two documents and a
shared component are the fewest that can meet in the graph. In `gateway` lifetimes and
windows are of two or three ticks, so each may end between any two steps of a request.
In `assessments` two domains let an answer leave a questionnaire half answered. Larger
instances of it (without the liveness property: two handlers with four requests, two vendors
and a failure, 207,194 states; two handlers with five requests, 1,332,341), of `gateway` with two users (1.19 million) and with one tick more (1.0 million)
pass as well.

**Pure definitions.** `MCVendor`, `MCAssessments` and `MCSbom` state facts that TLC
evaluates at the start of their runs, over all inputs of small sets: the counts the
question bank and the control library announce, that reports computed from rows agree with
the engine that made the rows, that a better sub-score never raises the risk, that both
forms of SPDX read alike, that normalisation is idempotent, the table of the SSVC tree,
which references may be fetched, and the critical paths of small graphs.

**Symmetry** (handlers, alerts, consumers, slots) is used only where no liveness property is
checked.

**Fairness** is weak fairness of every session's steps: the event loop resumes an await that
can complete, PostgreSQL grants a free lock and breaks deadlocks, and a connected consumer
fetches what is there. Nothing is assumed of requests, events, sweeps, crashes, rebalances
or the broker.

## 4. What holds, and what concurrency breaks

Holding everywhere, by proof for any number of sessions: references are gap-free (collisions
fail instead of skipping a number), timestamps agree with the status even when handlers
overwrite each other, each status change that promises notifications has its drafts, no
audit row chains to a rolled-back one, only committed facts are announced, a completed
questionnaire has all answers, only a PATCH retiers a vendor, a document row has its file,
the topic announces only legal steps, a listing misses no more vendors than were created
meanwhile, the consumers of risk- and compliance-service lose an event only to a failure and
without one leave every vendor in a trigger state with a score, scores and counts are in
range, a better sub-score never raises the risk, the graph of sbom-service claims nothing
the rows do not have, its alerts are the ones committed bills call for, sent once and lost
only to a failure, only verified sessions are served, and the rate limiter keeps its limits.

Holding with one session of a kind at a time, by proof under that assumption and in runs
whose instances say so: the timeline and the legality of status steps (one handler), the
refinement of `IncidentRegister` (one handler and one consumer), the audit chain (creations
only), no alert dropped (one consumer, no crash, no manual creation), the freshness of
scores (one handler of vendor-service), and everything about monitoring's alerts and drift
(one sweep or consumer, one analyst: `OneWriter`).

The listed findings are the disagreements a violation run demonstrates:

* `incident_audit_fork`: two overlapping requests chain to the same audit row, so
  `verify_chain` rejects an honest log.
* `vendor_decisions`: `state_machine.py:6` calls ONBOARDED and REJECTED terminal; a
  request that approves and one that rejects, each on the state it loaded, both commit.

Enlarging `Handlers`, `Consumers`, `Analysts`, `Sweepers` or `MaxCrashes` in the
configuration that checks the property shows more of the same check-then-act pattern:

* The consumer's INSERT takes a reference an analyst has just taken; the alert is logged,
  skipped and never gets its incident (`NoAlertDropped`, with creations).
* After a rebalance both workers open an incident for one alert (`OneIncidentPerAlert`,
  two consumers).
* Two overlapping sweeps open two alerts for one finding (`OneOpenAlert`), measure drift
  against the wrong snapshot (`DriftIsDelta`) and lose counts; when they deadlock, the
  aborted one loses every vendor, not one.
* Two handlers break `TimelineIsHistory`, and leave a closed incident; two analysts reopen
  a resolved alert. An analyst who resolves an alert between a sweep's dedup query and its
  UPDATE makes the resolved alert count the recurrence.
* A crash breaks `NoAlertDropped` and `AlertsAnnounced`: nothing publishes again.

**vendor-service.** Two concurrent PATCHes may leave a tier that is not the highest of the
dimensions, since each computes it from what it loaded. Two requests that give the last two
answers each miss the other's, and leave a fully answered questionnaire IN_PROGRESS; of two
answers to one question one status and the other's score may stay. A questionnaire already
COMPLETED goes back to IN_PROGRESS when a request that began earlier commits. After a manual
transition to QUESTIONNAIRE_COMPLETED the last answer cannot be recorded, and after one to
QUESTIONNAIRE_SENT no questionnaire can be generated; two overlapping generations make two.
A vendor created while a client pages through the list moves the others back by one, and
the client, which stops at the total it saw, misses one vendor for each (`SkippedByCreation`
bounds it). An upload changes the compliance sub-score but emits no event.

**risk-service, compliance-service.** `FreshWhenDrained` is about the consumer's rows: an HTTP
computation that overlaps with it may leave a row with an older questionnaire score as the
newest. It says nothing of the score of a questionnaire that is not completed: a vendor moved
to QUESTIONNAIRE_COMPLETED by hand may still be answered for, which changes its score without
an event. Nor where requests to vendor-service overlap: an answer that read an IN_PROGRESS
questionnaire before another request completed it is still stored in the completed one, and no
event tells of the score that changes with it (TLC reaches this with two handlers, answers YES
and NO and five requests). Overlapping computations compare with the same predecessor. The
baseline that a lifecycle event computes supersedes an analyst's assessment with overrides,
also when it is only delivered again. Any 5xx of vendor-service raises, and the event is
skipped, although the comments call the sources fail-soft. The KEV penalty, documented as
doubling, is 60 instead of 40 at most. `POST .../compute` discards the anomaly it finds. A
compliant vendor may have critical gaps (`CompliantWithCriticalGaps`). The compliance
dashboard sees the newest 1000 rows and forgets vendors behind them. The library has 281
controls, where its header says "roughly 312".

**sbom-service.** Ingesting a bill again duplicates its rows, though `models.py` calls it
idempotent (the graph is). A death after the commit loses mirror and alerts for good. The
tier in the graph may be that of an older answer when ingestions overlap, and an outage
of vendor-service overwrites name and tier. Edges are never removed. The XML reader takes the subject
and nested components, which the JSON reader leaves out, and not the bill's own references,
which it takes (`FormsOfCycloneDxDiffer`). Malformed XML raises instead of being refused.

**gateway.** The counter starts a window with its first request: `rate_limit.py:11` says
"rolling window", but up to twice the limit minus one passes within one window's length
(`RateLimited`). Without Redis, metered requests fail and cached values are computed. A slow
computation may replace a newer summary in the cache by an older one; its age stays bounded
(`SummaryAge`). A deactivated user is served until the token expires, a bridge token may be
used more than once, and of two requests that seed the users at once one fails.

## 5. Proofs

The theorems hold for any sets of sessions, alerts, vendors, users and slots and any bounds,
under the named assumptions on the constants, which TLC evaluates on every instance, and
under what a theorem assumes besides. Each invariant was checked by TLC on its instance before
it was proved. All are of the form `Spec => []P`, where they do not say otherwise.

**incident-service** (`IncidentProofs`, `IncidentHistoryProofs`)

| Theorem | States | Argument |
|---|---|---|
| `TypeCorrect` | `TypeOK` | `TypeOK` alone is not inductive: an update needs its incident to exist and a publishing session its committed row, so `TypeInv` adds what each step of a session has established |
| `GapFree` | `ReferencesGapFree` | a session with an uncommitted INSERT holds `Count + 1`, and there is at most one such session, as the index lets nobody else past |
| `StampsAgree` | `StampsMatchStatus` | rows held in memory agree too and no status change leads back to open, so merging their stamps into whatever the row holds by then keeps it consistent |
| `OneConsumerOneIncident` | `OneIncidentPerAlert`, for one consumer | a session opening an incident for an alert is the consumer, and the alert has no incident until it commits |
| `AuditAnchored` | `AuditRowsAnchored` | the row whose hash a session has read stays in the log and is older than the row it inserts |
| `DraftsAreComplete` | `DraftsMatchTimeline` | drafts and timeline rows are written by the same commits; entries are told apart by their time |
| `AnnouncedFacts` | `EventsAreFacts` | `FactInv`: what a session is about to announce is committed (`AnnouncementOK`), rows and timeline only grow, and no two sessions announce one opening (`OneAnnouncer`) |
| `CreationsChain` | `AuditChainVerifies`, when `HttpOps` has creations only | `ChainInv`: a creation holds its reference from the flush on, so that only one session at a time is between reading the last audit row and committing its own (`ChainOK`) |
| `AlertsAreKept` | `NoAlertDropped`, for one consumer, no manual creation and no crash (`OneReliableConsumer`) | `DropInv`: every alert before the position is below the threshold, has its incident, or is the one the consumer holds |
| `TimelineTellsHistory` | `TimelineIsHistory`, for one handler | `HistoryInv`: the entries of an incident are linked, each starting where the one before led, and the last leads to the row's status; a session with a change loaded that status |
| `RefinesRegister` | `Spec => ImplementsRegister`, for one handler and one consumer | `IncidentRegister`: the commit of a creation, of a change and of an assignment are its steps, all others stutter; needs the invariants above |

**monitoring-service** (`MonitoringProofs`)

| Theorem | States | Argument |
|---|---|---|
| `MonitoringTypes` | `TypeOK` | `TypeInv`: what each statement finds in the memory of its session, for any sessions |
| `OneAlertPerKey` | `OneOpenAlert`, for `OneWriter` | `MonitoringInv` describes the transaction under way; this and the next four are parts of it. An alert it has inserted is the only open one for its key (`InsertOK`) |
| `DriftIsStepwise` | `DriftIsDelta`, for `OneWriter` | the snapshots a sweep holds continue those in the table |
| `NoSilentDrift` | `DriftAlerts`, for `OneWriter` | for each drift it has stored the transaction has an alert, or a spec it has yet to upsert; updates never lower a severity |
| `NoPhantomMessage` | `MessagesAreCommitted`, for `OneWriter` | what is published was committed by its session before, and severities only rise |
| `MarkMeansSent` | `PublishedIsAnnounced`, for `OneWriter` | what a session is going to mark it has sent, with the severity the alert has |

**vendor-service** (`VendorProofs`)

| Theorem | States | Argument |
|---|---|---|
| `VendorTypes` | `TypeOK` | `VendorInv`: what each session established about the rows it loaded (`SessionOK`), that commits of others do not undo it (`Grows`: no row is deleted, no questionnaire changes its tier, no answer is taken back), and that questionnaire numbers are written once (`Fresh`); an UPDATE is a merge of three rows (`MergeVendor`, `MergeAnswers`) |
| `CompletionIsFull` | `CompletedIsAnswered` | a conjunct of `VendorInv`: the session that completes has seen every answer, and the merge keeps the ones it did not write |
| `CompletionMoves` | `Spec => CompletionMovesVendor` | completing a questionnaire takes a changed status, whose session changed the vendor's state too |
| `RowsHaveFiles` | `DocumentsHaveFiles` | the document a session is about to commit has its file |
| `RetieredByPatches` | `Spec => OnlyPatchesRetier` | `ChangeInv`: only a PATCH holds a row whose dimensions or tier differ from what it loaded, and a merge writes only what differs |
| `TopicIsLegal` | `Spec => Topic!Init /\ [][Topic!Next]_...` | the step of `VendorTopic` from what sessions hold and have sent: a commit of a legal step makes an announcement pending, `Publish` and its failures take it away. The safety half of `ImplementsTopic` |
| `ListingsSkipLittle` | `SkippedByCreation` | `ListingInv` counts: of the vendors there were at the start, those seen, those still ahead, and one skipped for each created since; pages are intervals of an order that creation shifts |

**risk-service and compliance-service** (`AssessmentProofs`)

| Theorem | States | Argument |
|---|---|---|
| `LossesAreFaults` | `OneLossPerFault` | `ConsumerInv`: a position is past what it has handled, never before what is committed, and a handler's row is about the event that started it; every step that leaves an event behind without a row costs a fault, and a consumer that starts again only gives events back |
| `MessagesAreRows` | `UpdatesAreRows` | `MessageInv` maps messages to rows one to one, all of them committed; `RowInv` tells rows apart by the transaction that wrote them, so that a computation repeated for a redelivered event has a row of its own |
| `AssessmentTypes` | `TypeOK` | `SheetInv`: rows, sessions and questionnaires of vendor-service keep their shapes, finitely many questions each with a score of its column, and sessions hold numbers of their own; so what is answered over HTTP is a sub-score. `TypeInv`: which sub-scores a computation has read by which step |
| `ScoresAreFresh` | `FreshWhenDrained` | `EventInv`: without a failure, every state a vendor is in was announced or is about to be. `AloneInv`: if requests do not overlap, each holds what the tables say, no vendor leaves the states behind QUESTIONNAIRE_COMPLETED, and no completed questionnaire changes (`Frozen`). `FreshInv`: so a score read for an event stays the current one, in memory and in the row. With nothing left to do `OneLossPerFault` leaves no event without its row |
| `VrsRange`, `VrsMonotone` | `ComputeVrs` of any six sub-scores is in range, and sub-scores that are nowhere worse never raise it | the weights add up to 100, and rounding half to even keeps bounds and order |
| `TierMonotone` | every risk has a tier, and a higher risk never a lower one | the bands |

**sbom-service** (`SbomProofs`, `SumTheorems`)

| Theorem | States | Argument |
|---|---|---|
| `SbomTypes` | `TypeOK` | `SbomInv`: what was scanned was normalised before, so that components with one package URL have the same CVEs (`Scanned`), and each edge of the graph has a row it comes from (`Traced`) |
| `ImpactIsReal` | `GraphImpactIsReal` | from `Scanned` and `Traced`: the CVE an impact goes through was merged to a shared node by some bill, and the vendor's own component has it too |
| `LossesArePaid` | `OneDocumentPerFault` | `LossInv`: requests that have yet to mirror claim documents one to one, and the unclaimed ones are no more than the faults |
| `AlertsMatch` | `AlertsMatchFindings` | `AlertInv` keeps books (`Books`): per vendor and CVE, alerts sent and alerts in the memory of requests are together no more than the findings of committed bills, and as many without a fault. What a commit adds to memory is what it adds to the findings, as a component has at most one vulnerability per CVE, so that each alerting vulnerability is one pair of bill and component; publishing moves one alert from memory to the topic; an outage or a death only takes away, and is a fault |

**gateway, auth-service, Redis** (`GatewayProofs`, `SumTheorems`)

| Theorem | States | Argument |
|---|---|---|
| `SessionsAreVerified` | `OnlyVerifiedSessions` | `SessionInv` follows a token back: every access token has an accepted code, made out as long ago as the token is old, every code a password in its lifetime and a user who was active, and a request between two services holds a token that was issued |
| `SummariesAreFresh` | `SummaryAge` | `SummaryInv`: what the cache holds expires a time to live after it was computed, no counter shares its key, and what is yet to be stored was read in the past |
| `RatesAreLimited` | `RateLimited` | `RateInv` divides the requests counted for an identifier into windows that do not overlap, none with more than the limit, the last one lasting as long as Redis keeps its counter. A refusal finds that window full. Any time of a window's length meets at most two of them, and does not hold the request that opened the first (unless it begins with it, and then meets no other) |

`SumTheorems` proves that the fold behind `MapThenSumSet` is what its recursive definition
says, by smallest counterexamples among the subsets of a finite set, as induction over a
predicate is not to be had; then that a sum does not depend on the order, and what adding,
changing or splitting does to it. Each proof has one step per action of `Next`; lemmas name
what an action leaves unchanged. The prover cannot use the theorems of an instance
(`Vendor!...`), and `VendorService` and `Assessments` declare the same names; so
`AssessmentProofs` has its own lemmas about the steps of vendor-service, down to what each
leaves in tables and sessions (`TurnOf`, `VendorSteps`). `RateInv` quantifies over all identifiers; TLC checked it for
those in use, as no window is needed for the others; likewise `Books` over vendors and CVEs.
What `FlattenSeq` and `SetToSeq` do to the number of alerts in a list is proved
in `SbomProofs` by smallest counterexamples among their lengths.

**Only model-checked.**

* Liveness: `AlertsOpenIncidents`, `EverySessionEnds`, `AlertsAnnounced`,
  `ConsumersCatchUp`, and the fairness half of `ImplementsTopic`: they need ENABLED.
* What the pure definitions compute, ranges and order of the scores apart.

## 6. Left out

* Text, formatting and reading endpoints; SLA deadlines (a clock compared on reading);
  titles, actors, file contents, the wording of questions and controls.
* The dashboards of incident- and monitoring-service: read-only projections.
* Audit rows of the services other than incident-service: `record_audit_event` is the same
  function, and forks the chain in the same way.
* Requests that are refused without changing anything, unless a property is about them.
* Offsets of the topics monitoring-service consumes: an inbound event is handled once; an
  event handled twice is two events of the same content.
* A crash ends one session, not all sessions of a process at once: a superset, as further
  sessions may end in the following steps while they do nothing.
* The trained anomaly model (`anomaly/training`): a choice of the instance. Without
  `model.pkl` nothing is anomalous.
* Betweenness and PageRank on graphs of more than a few nodes; the library computes them.
* Signatures, passwords and TOTP secrets; services calling each other with tokens they
  issue themselves do not pass the gateway. Redis losing its memory. Clocks that differ.
* Posture scores are tenths and the exposure index hundredths of a point, as the code
  rounds; sub-scores and scores of risk and compliance are hundredths.
* Frontend, seed data, scripts and deployment files: no state of their own.

## 7. Plan

1. *Alert pipeline*: compose `SbomService`, `Assessments`, `MonitoringService` and
   `IncidentService` over their topics: a finding that is committed, announced and
   qualifying has an incident; an escalation after the incident.
2. *Proofs*: `AlertsMatch`, `MarkMeansSent` and `AnnouncedFacts` composed along the pipeline.
