---------------------------- MODULE Assessments -----------------------------
(***************************************************************************)
(* risk-service and compliance-service beside vendor-service: each runs a  *)
(* consumer of VENDOR_LIFECYCLE_EVENTS that scores, or assesses, a vendor  *)
(* when it reaches certain states, and serves the same computation over    *)
(* HTTP.  A computation reads vendor-service over HTTP, one request per    *)
(* sub-score, while vendors go on changing.                                *)
(*                                                                         *)
(* A consumer's position moves past an event before its handler runs, and  *)
(* is committed from time to time; a process that dies rejoins at the      *)
(* committed offset.  An exception of a handler is logged, and the event   *)
(* skipped.                                                                *)
(*                                                                         *)
(* now() is the begin of the transaction, its first database statement.    *)
(* Audit rows are left out (see IncidentService).                          *)
(***************************************************************************)
EXTENDS RiskScore, ComplianceEngine

CONSTANTS Handlers, Patchers, Listers, NewDims, Patches, AnswersGiven, NumDomains, PageSize,
          PortfolioLimit, MaxVendors, MaxRequests, ListingCost, MaxFailures  \* VendorService's

CONSTANTS
    Scorers,       \* POST /risk/vendors/{id}/compute served at the same time
    Assessors,     \* POST /compliance/assessments served at the same time
    External,      \* what Shodan, AbuseIPDB and MISP say of the vendors
    Components,    \* software components that are added to tech stacks
    CvesOf,        \* the CVEs NVD lists for each, with CISA's verdict
    DocumentType,  \* the type of each document
    PredictAnomalous(_),   \* what the anomaly model makes of a row's features
    Library,       \* the control library
    Baseline,      \* status of each control without an override
    Overrides,     \* overrides an analyst sends
    MaxDisturbances        \* bound: HTTP computations, components added, and faults: reads
                           \* that fail, events that are lost, crashes

VARIABLES vendors, questionnaires, documents, files, seqs, topic, pc, sess, listing,
          requests, failures  \* VendorService's

VARIABLES
    position,      \* events each consumer has fetched
    committed,     \* the offset each consumer last joined at
    task,          \* what each consumer and request is doing
    techStack,     \* rows of vendor_tech_stack
    scores,        \* committed risk_score_history rows, with their anomaly flag
    assessments,   \* committed compliance assessments
    updates,       \* RISK_SCORE_UPDATES and RISK_ANOMALY_ALERTS
    verdicts,      \* COMPLIANCE_ASSESSMENT_EVENTS
    clock,         \* transactions begun so far at each service
    computations, faults   \* counters of the bounds

Vendor == INSTANCE VendorService

vendorVars == <<vendors, questionnaires, documents, files, seqs, topic, pc, sess, listing,
                requests, failures>>
busVars == <<position, committed>>
rowVars == <<techStack, scores, assessments>>
serviceVars == <<busVars, task, rowVars, updates, verdicts, clock, computations, faults>>
vars == <<vendorVars, serviceVars>>

Groups == {"risk", "compliance"}
Tasks == Groups \cup Scorers \cup Assessors

ASSUME TaskAssumption ==
    /\ Scorers \cap Assessors = {} /\ (Scorers \cup Assessors) \cap Groups = {}
ASSUME CatalogueAssumption ==
    /\ DOMAIN CvesOf = Components /\ DOMAIN Baseline = Library /\ IsFiniteSet(Library)
    /\ \A o \in Overrides : Range(o) \subseteq ControlStatuses
    /\ Range(Baseline) \subseteq ControlStatuses
\* The feeds: a posture from 0 to 100, counts, and a list of CVEs for each component.
ASSUME FeedAssumption ==
    /\ External.posture \in 0..FullScore /\ {External.reports, External.matches} \subseteq Nat
    /\ \A c \in Components :
          IsFiniteSet(DOMAIN CvesOf[c]) /\ \A i \in DOMAIN CvesOf[c] : CvesOf[c][i].cvss \in Nat
ASSUME VendorAssumption ==   \* VendorService's
    /\ Patchers \subseteq Handlers /\ Handlers \cap Listers = {}
    /\ NumDomains \in Nat \ {0} /\ AnswersGiven \subseteq Answers
ASSUME AssessmentBoundAssumption ==
    MaxDisturbances \in Nat

------------------------------------------------------------------------------
TriggerStates ==
    [risk |-> {"QUESTIONNAIRE_COMPLETED", "ASSESSMENT_IN_PROGRESS", "ONBOARDED"},
     compliance |-> {"ASSESSMENT_IN_PROGRESS", "ONBOARDED"}]
Triggers(g, i) == topic[i].to \in TriggerStates[g]

\* trigger: the event that asked for it, 0 for a request; at: when its transaction
\* began; parts: the sub-scores read so far; row: what is inserted.
NoTask == [step |-> "idle", vendor |-> 0, trigger |-> 0, at |-> 0, parts |-> <<>>, row |-> <<>>]

Part(name, score) == [n \in {name} |-> score]
Also(parts, more) ==
    [n \in DOMAIN parts \cup DOMAIN more |-> IF n \in DOMAIN parts THEN parts[n] ELSE more[n]]
ExternalParts ==
    [posture |-> External.posture, breach |-> BreachHistoryScore(External.reports),
     threat |-> ThreatIntelScore(External.matches)]

\* GET /vendors/{id}/questionnaire/score: of the latest questionnaire, or 404.
CurrentScore(v) ==
    LET mine == Vendor!OfVendor(v) IN
    IF mine = {} THEN 0 ELSE QuestionnaireScore(questionnaires[Max(mine)].responses)
EvidenceOf(v) == EvidenceScore({d.id : d \in {e \in documents : e.vendor = v}}, DocumentType)
StackOf(v) == RestrictValues(techStack, LAMBDA row : row.vendor = v)
StackParts(v) ==
    Also(ExternalParts, Part("vulnerability", VulnerabilityScore(StackOf(v), CvesOf)))

ScoreRow(s) ==
    LET vrs == ComputeVrs(s.parts)
        older == {r \in scores : r.vendor = s.vendor}
        previous == {r.vrs : r \in {q \in older : \A p \in older : p.at <= q.at}}
        delta == DeltaVsPrevious(vrs, previous)
    IN  [vendor |-> s.vendor, trigger |-> s.trigger, at |-> s.at, parts |-> s.parts,
         vrs |-> vrs, tier |-> TierForVrs(vrs),
         anomalous |-> PredictAnomalous(Features(s.parts, vrs, TierForVrs(vrs), delta))]

Init ==
    /\ Vendor!Init
    /\ position = [g \in Groups |-> 0] /\ committed = [g \in Groups |-> 0]
    /\ task = [t \in Tasks |-> NoTask]
    /\ techStack = <<>> /\ scores = {} /\ assessments = {}
    /\ updates = <<>> /\ verdicts = <<>>
    /\ clock = [g \in Groups |-> 0] /\ computations = 0 /\ faults = 0

------------------------------------------------------------------------------
(* Tasks: the consumers' handlers and the requests.                        *)

Proceed(t, record) == task' = [task EXCEPT ![t] = record]
FinishTask(t) == Proceed(t, NoTask)

NewTask(t, v, i) ==
    [NoTask EXCEPT !.step = IF t \in Scorers \cup {"risk"} THEN "questionnaire" ELSE "assess",
                   !.vendor = v, !.trigger = i]

\* `async for msg': events that trigger nothing end their handler.  It would be
\* wrong to move past triggers only, or to take up the last event only.
FetchTriggers(g) ==
    /\ task[g].step = "idle" /\ position[g] < Len(topic)
    /\ IF Triggers(g, position[g] + 1)
       THEN /\ position' = [position EXCEPT ![g] = @ + 1]
            /\ Proceed(g, NewTask(g, topic[position[g] + 1].vendor, position[g] + 1))
       ELSE UNCHANGED <<position, task>>
    /\ UNCHANGED <<vendorVars, committed, rowVars, updates, verdicts, clock, computations,
                   faults>>
FetchLatest(g) ==
    /\ task[g].step = "idle" /\ position[g] < Len(topic)
    /\ position' = [position EXCEPT ![g] = Len(topic)]
    /\ IF Triggers(g, Len(topic))
       THEN Proceed(g, NewTask(g, topic[Len(topic)].vendor, Len(topic))) ELSE UNCHANGED task
    /\ UNCHANGED <<vendorVars, committed, rowVars, updates, verdicts, clock, computations,
                   faults>>
Fetch(g) ==
    /\ task[g].step = "idle" /\ position[g] < Len(topic)
    /\ position' = [position EXCEPT ![g] = @ + 1]
    /\ IF Triggers(g, position'[g])
       THEN Proceed(g, NewTask(g, topic[position'[g]].vendor, position'[g]))
       ELSE UNCHANGED task
    /\ UNCHANGED <<vendorVars, committed, rowVars, updates, verdicts, clock, computations,
                   faults>>

Disturbance == computations + Len(techStack) + faults < MaxDisturbances
Fault == Disturbance /\ faults' = faults + 1

RequestComputation(t) ==
    /\ task[t].step = "idle" /\ Disturbance
    /\ computations' = computations + 1
    /\ \E v \in DOMAIN vendors : Proceed(t, NewTask(t, v, 0))
    /\ UNCHANGED <<vendorVars, busVars, rowVars, updates, verdicts, clock, faults>>

\* A consumer's process dies, or a request is cut off; what was in memory is gone.
\* enable_auto_commit: some of the positions since the last rejoin was committed.
Rejoin(g) ==
    /\ Fault
    /\ FinishTask(g)
    /\ \E offset \in committed[g]..position[g] :
          /\ committed' = [committed EXCEPT ![g] = offset]
          /\ position' = [position EXCEPT ![g] = offset]
    /\ UNCHANGED <<vendorVars, rowVars, updates, verdicts, clock, computations>>
CutOff(t) ==
    /\ task[t].step # "idle"
    /\ FinishTask(t)
    /\ UNCHANGED <<vendorVars, busVars, rowVars, updates, verdicts, clock, computations, faults>>

------------------------------------------------------------------------------
(* compute_for_vendor, and what its callers do.                            *)

\* A sub-score vendor-service answers: 0 when it cannot be reached, an
\* exception when it answers with an error.
ReadPart(t, step, name, answer, next) ==
    /\ task[t].step = step
    /\ \/ /\ Proceed(t, [task[t] EXCEPT !.parts = Also(@, Part(name, answer)), !.step = next])
          /\ UNCHANGED faults
       \/ /\ Fault
          /\ Proceed(t, [task[t] EXCEPT !.parts = Also(@, Part(name, 0)), !.step = next])
       \/ Fault /\ FinishTask(t)
    /\ UNCHANGED <<vendorVars, busVars, rowVars, updates, verdicts, clock, computations>>

\* It would be wrong to fall back on the vendor's last row.
CachedScore(v) ==
    LET rows == {r \in scores : r.vendor = v}
        last == {r \in rows : \A q \in rows : q.at <= r.at}
    IN  IF rows = {} THEN CurrentScore(v) ELSE (CHOOSE r \in last : TRUE).parts.questionnaire
AnsweredScore(v) == CurrentScore(v)
ReadQuestionnaireScore(t) ==
    ReadPart(t, "questionnaire", "questionnaire", AnsweredScore(task[t].vendor), "stack")

\* The first statement of the transaction; the mock feeds answer at once.
ReadTechStack(t) ==
    /\ task[t].step = "stack"
    /\ clock' = [clock EXCEPT !["risk"] = @ + 1]
    /\ Proceed(t, [task[t] EXCEPT
            !.at = clock["risk"] + 1, !.step = "evidence",
            !.parts = Also(@, StackParts(task[t].vendor))])
    /\ UNCHANGED <<vendorVars, busVars, rowVars, updates, verdicts, computations, faults>>

ReadEvidence(t) ==
    ReadPart(t, "evidence", "compliance", EvidenceOf(task[t].vendor), "flush")

\* The row is inserted and compared with the newest row that is committed.
FlushScore(t) ==
    /\ task[t].step = "flush"
    /\ Proceed(t, [task[t] EXCEPT !.row = ScoreRow(task[t]), !.step = "commitScore"])
    /\ UNCHANGED <<vendorVars, busVars, rowVars, updates, verdicts, clock, computations, faults>>

\* compute_risk_score publishes nothing.
CommitScore(t) ==
    /\ task[t].step = "commitScore"
    /\ scores' = scores \cup {task[t].row}
    /\ IF t \in Scorers THEN FinishTask(t)
       ELSE Proceed(t, [task[t] EXCEPT !.step = "update"])
    /\ UNCHANGED <<vendorVars, busVars, techStack, assessments, updates, verdicts, clock,
                   computations, faults>>

\* The row that was computed, not the vendor's newest one.
NewestMessage(kind, row) ==
    LET newest == CHOOSE r \in scores : \A q \in scores : q.vendor = r.vendor => q.at <= r.at
    IN  [kind |-> kind, vendor |-> newest.vendor, vrs |-> newest.vrs, tier |-> newest.tier]
Message(kind, row) == [kind |-> kind, vendor |-> row.vendor, vrs |-> row.vrs, tier |-> row.tier]
Publish(t, kind) ==
    /\ \/ updates' = Append(updates, Message(kind, task[t].row)) /\ UNCHANGED faults
       \/ Fault /\ UNCHANGED updates
    /\ UNCHANGED <<vendorVars, busVars, rowVars, verdicts, clock, computations>>
PublishUpdate(t) ==
    /\ task[t].step = "update"
    /\ Publish(t, "updated")
    /\ IF task[t].row.anomalous THEN Proceed(t, [task[t] EXCEPT !.step = "anomaly"])
       ELSE FinishTask(t)
PublishAnomaly(t) ==
    /\ task[t].step = "anomaly"
    /\ Publish(t, "anomaly")
    /\ FinishTask(t)

\* POST /internal/vendors/{id}/tech-stack
AddTechStackComponent ==
    /\ Disturbance
    /\ \E v \in DOMAIN vendors, c \in Components :
           techStack' = Append(techStack, [vendor |-> v, component |-> c])
    /\ UNCHANGED <<vendorVars, busVars, task, scores, assessments, updates, verdicts, clock,
                   computations, faults>>

------------------------------------------------------------------------------
(* run_assessment, and what its callers do.                                *)

Frameworks == {c.framework : c \in Library} \cup {"ALL"}
RunAssessment(t, framework, overrides, actor) ==
    /\ task[t].step = "assess"
    /\ clock' = [clock EXCEPT !["compliance"] = @ + 1]
    /\ LET results == EvaluateControls(Library, framework, Baseline, overrides)
           outcome == Assessment(task[t].vendor, framework, results, actor)
       IN  Proceed(t, [task[t] EXCEPT
                !.step = "commitAssessment",
                !.row = [outcome |-> outcome, results |-> ControlResults(results),
                         at |-> clock'["compliance"], trigger |-> task[t].trigger]])
    /\ UNCHANGED <<vendorVars, busVars, rowVars, updates, verdicts, computations, faults>>

AssessBaseline ==
    RunAssessment("compliance", "ALL", <<>>, "system:vendor-lifecycle")
CreateAssessment(t) ==
    \E framework \in Frameworks, overrides \in Overrides :
        RunAssessment(t, framework, overrides, "analyst")

CommitAssessment(t) ==
    /\ task[t].step = "commitAssessment"
    /\ assessments' = assessments \cup {task[t].row}
    /\ Proceed(t, [task[t] EXCEPT !.step = "verdict"])
    /\ UNCHANGED <<vendorVars, busVars, techStack, scores, updates, verdicts, clock,
                   computations, faults>>

PublishAssessment(t) ==
    /\ task[t].step = "verdict"
    /\ LET r == task[t].row.outcome IN
       \/ /\ verdicts' = Append(verdicts, [vendor |-> r.vendor, framework |-> r.framework,
                                           score |-> r.score, status |-> r.status,
                                           critical |-> r.summary.critical])
          /\ UNCHANGED faults
       \/ Fault /\ UNCHANGED verdicts
    /\ FinishTask(t)
    /\ UNCHANGED <<vendorVars, busVars, rowVars, updates, clock, computations>>

------------------------------------------------------------------------------
RiskStep(t) ==
    \/ ReadQuestionnaireScore(t) \/ ReadTechStack(t) \/ ReadEvidence(t)
    \/ FlushScore(t) \/ CommitScore(t)
ComplianceStep(t) == CommitAssessment(t) \/ PublishAssessment(t)

ConsumeRisk ==
    \/ Fetch("risk") \/ RiskStep("risk") \/ PublishUpdate("risk") \/ PublishAnomaly("risk")
ConsumeCompliance ==
    \/ Fetch("compliance") \/ AssessBaseline \/ ComplianceStep("compliance")

VendorAction == Vendor!Action /\ UNCHANGED serviceVars

\* Nothing is running, and every event has been fetched and committed.
Drained ==
    /\ \A h \in DOMAIN pc : pc[h] = "idle"
    /\ \A t \in Tasks : task[t].step = "idle"
    /\ \A g \in Groups : position[g] = Len(topic)
Quiescent == Drained /\ UNCHANGED vars

Next ==
    \/ VendorAction
    \/ ConsumeRisk \/ ConsumeCompliance
    \/ \E g \in Groups : Rejoin(g)
    \/ \E t \in Scorers : RequestComputation(t) \/ RiskStep(t) \/ CutOff(t)
    \/ \E t \in Assessors : RequestComputation(t) \/ CreateAssessment(t) \/ ComplianceStep(t) \/ CutOff(t)
    \/ AddTechStackComponent
    \/ Quiescent

\* Event loops resume every await that can complete, and a connected consumer
\* fetches what is there.
Spec ==
    /\ Init /\ [][Next]_vars
    /\ \A h \in Handlers : WF_vars(Vendor!Step(h) /\ UNCHANGED serviceVars)
    /\ WF_vars(ConsumeRisk) /\ WF_vars(ConsumeCompliance)
=============================================================================
