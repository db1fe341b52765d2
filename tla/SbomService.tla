---------------------------- MODULE SbomService -----------------------------
(***************************************************************************)
(* sbom-service: the ingestion of bills of materials.                      *)
(*                                                                         *)
(* A request parses a bill and looks its components up, commits the rows   *)
(* PostgreSQL keeps, and then, outside of any transaction, mirrors them to *)
(* Neo4j and publishes events.  Requests overlap at every await; each of   *)
(* the other systems may fail, and a process may die between two steps.    *)
(***************************************************************************)
EXTENDS SbomParsers, CveScanner, SupplyChainGraph, Bags

CONSTANTS Handlers,     \* requests that are served at a time
          Bills,        \* bill to [vendor, content, hint, body]
          NewTiers,     \* tiers vendor-service may give a vendor
          MaxRequests, MaxFaults, MaxRetiers   \* bounds

\* A text starts like JSON, like XML or like neither.
ASSUME BillAssumption ==
    \A b \in DOMAIN Bills :
        Bills[b].content.syntax \in {"json", "xml", "text"} /\ Bills[b].content.valid \in BOOLEAN
ASSUME SbomBoundAssumption == {MaxRequests, MaxFaults, MaxRetiers} \subseteq Nat

VARIABLES documents,    \* committed, in order: [vendor, scan]
          graph,        \* what Neo4j holds
          published,    \* the bag of messages Kafka was given
          tiers,        \* the tier of each vendor, in vendor-service
          job,          \* what each handler is doing
          requests, faults, retiers            \* counted for the bounds

vars == <<documents, graph, published, tiers, job, requests, faults, retiers>>

Vendors == {Bills[b].vendor : b \in DOMAIN Bills}
UnknownTier == "null"
Idle == [step |-> "idle"]

Init ==
    /\ documents = <<>> /\ graph = NoGraph /\ published = EmptyBag
    /\ tiers \in [Vendors -> NewTiers]
    /\ job = [h \in Handlers |-> Idle]
    /\ requests = 0 /\ faults = 0 /\ retiers = 0

Refused(bill) == DetectFormat(bill.content, bill.hint) \in {"error", "exception"}
Parse(bill) ==
    CASE DetectFormat(bill.content, bill.hint) = "CycloneDX JSON" -> ParseCycloneDxJson(bill.body)
      [] DetectFormat(bill.content, bill.hint) = "CycloneDX XML" -> ParseCycloneDxXml(bill.body)
      [] DetectFormat(bill.content, bill.hint) = "SPDX JSON" -> ParseSpdxJson(bill.body)
      [] DetectFormat(bill.content, bill.hint) = "SPDX tag-value" -> ParseSpdxTagValue(bill.body)

\* Whatever is accepted has a list of components.
ASSUME ListAssumption ==
    \A b \in DOMAIN Bills : ~Refused(Bills[b]) =>
        LET components == Parse(Bills[b]).components IN
        Len(components) \in Nat /\ DOMAIN components = 1..Len(components)

ScanComponents(components) ==
    [i \in DOMAIN components |->
        [component |-> components[i], vulnerabilities |-> ScanComponent(components[i])]]

\* The vulnerabilities an alert is published for, in the order of the components.
\* It would be wrong to leave out what is exploited.
IsCritical(v) == v.severity = "Critical"
IsAlarming(v) == v.severity = "Critical" \/ v.kev
CriticalAlerts(vendor, scan) ==
    FlattenSeq([i \in DOMAIN scan |->
        LET alarming == {v \in scan[i].vulnerabilities : IsAlarming(v)}
        IN  SetToSeq({[kind |-> "cve", vendor |-> vendor, cve |-> v.cve, severity |-> v.severity,
                       kev |-> v.kev] : v \in alarming})])

VulnerableCount(scan) == Cardinality({i \in DOMAIN scan : scan[i].vulnerabilities # {}})
IngestionEvent(document) ==
    [kind |-> "ingested", vendor |-> document.vendor, components |-> Len(document.scan),
     vulnerable |-> VulnerableCount(document.scan)]

------------------------------------------------------------------------------
Request ==
    /\ requests < MaxRequests
    /\ requests' = requests + 1
    /\ UNCHANGED <<faults, tiers, retiers>>
Fault ==
    /\ faults < MaxFaults
    /\ faults' = faults + 1
Goto(h, step) == job' = [job EXCEPT ![h].step = step]
Proceed(h, step) == Goto(h, step) /\ UNCHANGED <<tiers, requests, retiers>>

\* ingest_sbom up to its commit: parse, scan, and flush the rows.
Ingest(h) ==
    /\ job[h] = Idle
    /\ Request
    /\ \E b \in DOMAIN Bills :
          /\ ~Refused(Bills[b])
          /\ job' = [job EXCEPT ![h] = [step |-> "commit", tier |-> UnknownTier, alerts |-> <<>>,
                        document |-> [vendor |-> Bills[b].vendor,
                                      scan |-> ScanComponents(Parse(Bills[b]).components)]]]
    /\ UNCHANGED <<documents, graph, published>>

\* A bill no parser recognises is a 422, XML that is malformed a 500.
Reject(h) ==
    /\ job[h] = Idle
    /\ Request
    /\ \E b \in DOMAIN Bills : Refused(Bills[b])
    /\ UNCHANGED <<documents, graph, published, job>>

Commit(h) ==
    /\ job[h].step = "commit"
    /\ documents' = Append(documents, job[h].document)
    /\ job' = [job EXCEPT ![h].step = "summary",
                  ![h].alerts = CriticalAlerts(job[h].document.vendor, job[h].document.scan)]
    /\ UNCHANGED <<graph, published, tiers, requests, faults, retiers>>

\* get_vendor_summary, without an answer when vendor-service is unreachable.
ReadSummary(h) ==
    /\ job[h].step = "summary"
    /\ \/ /\ UNCHANGED faults
          /\ job' = [job EXCEPT ![h].step = "mirror", ![h].tier = tiers[job[h].document.vendor]]
       \/ Fault /\ Goto(h, "mirror")
    /\ UNCHANGED <<documents, graph, published, tiers, requests, retiers>>

\* The upsert is one transaction; one that fails may have been done all the same.
Mirror(h) ==
    /\ job[h].step = "mirror"
    /\ LET d == job[h].document
           upserted == UpsertVendorSubgraph(graph, d.vendor, job[h].tier, Range(d.scan))
       IN  \/ graph' = upserted /\ UNCHANGED faults
           \/ Fault /\ graph' \in {graph, upserted}
    /\ Proceed(h, "event")
    /\ UNCHANGED <<documents, published>>

\* A publication that fails is logged, and the next one is made.
Copies(m) == IF BagIn(m, published) THEN published[m] ELSE 0
Publish(message) ==
    \/ /\ published' = [m \in DOMAIN published \cup {message} |->
                            Copies(m) + IF m = message THEN 1 ELSE 0]
       /\ UNCHANGED faults
    \/ Fault /\ UNCHANGED published
PublishIngestion(h) ==
    /\ job[h].step = "event"
    /\ Publish(IngestionEvent(job[h].document))
    /\ Proceed(h, "alerts")
    /\ UNCHANGED <<documents, graph>>
PublishAlert(h) ==
    /\ job[h].step = "alerts" /\ job[h].alerts # <<>>
    /\ Publish(Head(job[h].alerts))
    /\ job' = [job EXCEPT ![h].alerts = Tail(@)]
    /\ UNCHANGED <<documents, graph, tiers, requests, retiers>>

Respond(h) ==
    /\ job[h].step = "alerts" /\ job[h].alerts = <<>>
    /\ job' = [job EXCEPT ![h] = Idle]
    /\ UNCHANGED <<documents, graph, published, tiers, requests, faults, retiers>>

\* The request ends half way: the process dies, or a statement or the commit fails.
CutOff(h) ==
    /\ job[h] # Idle
    /\ Fault
    /\ job' = [job EXCEPT ![h] = Idle]
    /\ UNCHANGED <<documents, graph, published, tiers, requests, retiers>>

\* vendor-service gives a vendor another tier.
Retier ==
    /\ retiers < MaxRetiers /\ retiers' = retiers + 1
    /\ \E v \in Vendors, t \in NewTiers : t # tiers[v] /\ tiers' = [tiers EXCEPT ![v] = t]
    /\ UNCHANGED <<documents, graph, published, job, requests, faults>>

Step(h) ==
    \/ Commit(h) \/ ReadSummary(h) \/ Mirror(h)
    \/ PublishIngestion(h) \/ PublishAlert(h) \/ Respond(h)

Quiescent == (\A h \in Handlers : job[h] = Idle) /\ UNCHANGED vars
Next ==
    \/ \E h \in Handlers : Ingest(h) \/ Reject(h) \/ Step(h) \/ CutOff(h)
    \/ Retier
    \/ Quiescent

\* The event loop resumes every await that can complete.
Spec == Init /\ [][Next]_vars /\ \A h \in Handlers : WF_vars(Step(h))

------------------------------------------------------------------------------
(* What the read endpoints answer from the rows.                           *)

Rows == UNION {{[vendor |-> documents[d].vendor, found |-> s] : s \in Range(documents[d].scan)} :
                   d \in DOMAIN documents}

\* GET /sbom/graph/cve/{id}/impact, the vendors of the components it lists.
CveImpact(cve) ==
    {r.vendor : r \in {q \in Rows : \E v \in q.found.vulnerabilities : v.cve = cve}}
\* GET /sbom/vendors/{id}/components?vulnerable_only=true
ListVulnerableComponents(vendor) ==
    {r.found.component : r \in {q \in Rows : q.vendor = vendor /\ q.found.vulnerabilities # {}}}
\* The vulnerabilities of a component that the answer to its ingestion calls critical.
CriticalVulnerabilities(found) == {v \in found.vulnerabilities : v.severity = "Critical" \/ v.kev}
=============================================================================
