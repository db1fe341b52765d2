----------------------------- MODULE SbomProofs ------------------------------
(***************************************************************************)
(* Proofs about sbom-service, for any bills, vendors and draws of the      *)
(* adapters, and any number of requests that overlap, fail and are cut     *)
(* off: the rows and the graph keep their shape, the graph claims no       *)
(* impact the rows do not have, each document that is missing from it is   *)
(* paid for by a failure, and so is each alert that is not sent.           *)
(*                                                                         *)
(* The inductive invariant says that what has been scanned was normalised  *)
(* first, so that components with one package URL have the same CVEs       *)
(* (Scanned), and where each edge of the graph comes from (Traced).  Three *)
(* counts per vendor and CVE keep the books of the alerts (Books): what a  *)
(* step sends more and has no more to send is what it called for more.     *)
(***************************************************************************)
EXTENDS SbomProperties, SumTheorems, SequenceTheorems, FiniteSetTheorems, TLAPS

Formats == {"CycloneDX JSON", "CycloneDX XML", "SPDX JSON", "SPDX tag-value"}

Severities == {"Critical", "High", "Medium", "Low"}
Priorities == {"Act", "Attend", "Track*", "Track"}
ScannedCve(v) == v.severity \in Severities /\ v.ssvc \in Priorities

\* A component that was normalised, with what a scan finds for its name and version.
Scanned(s) ==
    /\ Len(s.component.purl) = 3
    /\ s.component.purl[2] = s.component.name /\ s.component.purl[3] = s.component.version
    /\ s.vulnerabilities = ScanComponent(s.component)

Ingested(document) ==
    /\ document = [vendor |-> document.vendor, scan |-> document.scan]
    /\ document.vendor \in Vendors
    /\ \A i \in DOMAIN document.scan : Scanned(document.scan[i])

------------------------------------------------------------------------------
(* What parsing and scanning make of a bill.                               *)

\* A component's package URL holds the name and the version it is scanned by.
LEMMA NormalisedPurl ==
    ASSUME NEW c
    PROVE  /\ Len(Normalise(c).purl) = 3
           /\ Normalise(c).purl[2] = Normalise(c).name
           /\ Normalise(c).purl[3] = Normalise(c).version
<1>1. \E type, name, version, ecosystem, synthesised :
         Normalise(c) = [name |-> name, version |-> version, ecosystem |-> ecosystem,
                         purl |-> <<type, name, version>>, synthesised |-> synthesised]
  BY DEF Normalise, Purl
<1> QED
  BY <1>1

\* Whatever the format, the components are normalised.
LEMMA ParseNormalises ==
    ASSUME NEW b \in DOMAIN Bills, ~Refused(Bills[b])
    PROVE  \E components : Parse(Bills[b]).components = NormaliseAll(components)
<1> DEFINE bill == Bills[b]
           format == DetectFormat(bill.content, bill.hint)
<1>1. format \in Formats
  <2>1. bill.content.syntax \in {"json", "xml", "text"} /\ bill.content.valid \in BOOLEAN
    BY BillAssumption
  <2>2. CASE bill.content.syntax = "json"
    BY <2>1, <2>2 DEF Refused, DetectFormat, Formats
  <2>3. CASE bill.content.syntax = "xml"
    BY <2>1, <2>3 DEF Refused, DetectFormat, Formats
  <2>4. CASE bill.content.syntax = "text"
    BY <2>1, <2>4 DEF Refused, DetectFormat, Formats
  <2> QED
    BY <2>1, <2>2, <2>3, <2>4
<1>2. ASSUME NEW f, NEW components, NEW urls
      PROVE  Parsed(f, components, urls).components = NormaliseAll(components)
  BY DEF Parsed
<1>3. CASE format = "CycloneDX JSON"
  BY <1>2, <1>3 DEF Parse, ParseCycloneDxJson
<1>4. CASE format = "CycloneDX XML"
  BY <1>2, <1>4 DEF Parse, ParseCycloneDxXml
<1>5. CASE format = "SPDX JSON"
  BY <1>2, <1>5 DEF Parse, ParseSpdxJson
<1>6. CASE format = "SPDX tag-value"
  <2>1. Parse(bill) = ParseSpdxTagValue(bill.body)
    BY <1>6 DEF Parse
  <2>2. \E components, urls : ParseSpdxTagValue(bill.body) = Parsed("SPDX", components, urls)
    BY Zenon DEF ParseSpdxTagValue
  <2> QED
    BY <1>2, <2>1, <2>2
<1> QED
  BY <1>1, <1>3, <1>4, <1>5, <1>6 DEF Formats

LEMMA IngestScans ==
    ASSUME NEW b \in DOMAIN Bills, ~Refused(Bills[b])
    PROVE  \A i \in DOMAIN ScanComponents(Parse(Bills[b]).components) :
               Scanned(ScanComponents(Parse(Bills[b]).components)[i])
<1>1. PICK components : Parse(Bills[b]).components = NormaliseAll(components)
  BY ParseNormalises
<1>2. PICK normalised : normalised = NormaliseAll(components)
  OBVIOUS
<1>3. normalised = [i \in DOMAIN components |-> Normalise(components[i])]
  BY <1>2 DEF NormaliseAll, MapSeq
<1>4. ScanComponents(normalised) =
         [i \in DOMAIN components |-> [component |-> normalised[i],
                                       vulnerabilities |-> ScanComponent(normalised[i])]]
  BY <1>3 DEF ScanComponents
<1>5. ASSUME NEW i \in DOMAIN components PROVE Scanned(ScanComponents(normalised)[i])
  <2>1. PICK c : c = Normalise(components[i])
    OBVIOUS
  <2>2. ScanComponents(normalised)[i] = [component |-> c, vulnerabilities |-> ScanComponent(c)]
    BY <1>3, <1>4, <2>1
  <2>3. Len(c.purl) = 3 /\ c.purl[2] = c.name /\ c.purl[3] = c.version
    BY <2>1, NormalisedPurl
  <2> QED
    BY <2>2, <2>3 DEF Scanned
<1> QED
  BY <1>1, <1>2, <1>4, <1>5

\* Components with one package URL have the same CVEs.
LEMMA ScansAgree ==
    ASSUME NEW s, NEW t, Scanned(s), Scanned(t), s.component.purl = t.component.purl
    PROVE  s.vulnerabilities = t.vulnerabilities
<1>1. s.component.name = t.component.name /\ s.component.version = t.component.version
  BY DEF Scanned
<1>2. ScanComponent(s.component) = ScanComponent(t.component)
  BY <1>1 DEF ScanComponent
<1> QED
  BY <1>2 DEF Scanned

\* What is known of a CVE is in the range of its columns.
LEMMA ScannedRange ==
    ASSUME NEW s, Scanned(s), NEW v \in s.vulnerabilities
    PROVE  ScannedCve(v)
<1>1. v \in ScanComponent(s.component)
  BY DEF Scanned
<1>2. PICK cve \in Range(NvdFetch(s.component.name, s.component.version)) :
         LET kev == KevFetch(cve.id, s.component.name, s.component.version) IN
         v = [cve |-> cve.id, cvss |-> cve.cvss, severity |-> SeverityBand(cve.cvss),
              kev |-> kev, ssvc |-> SsvcPriority(cve.cvss, cve.vector, kev)]
  BY <1>1 DEF ScanComponent
<1>3. cve.cvss \in 1..100
  <2>1. CASE IsPlanted(s.component.name, s.component.version)
    BY <1>2, <2>1 DEF NvdFetch, PlantedCve, Range
  <2>2. CASE ~IsPlanted(s.component.name, s.component.version)
    BY <1>2, <2>2, ScannerAssumption DEF NvdFetch, Range
  <2> QED
    BY <2>1, <2>2
<1>4. SeverityBand(cve.cvss) \in Severities
  BY <1>3 DEF SeverityBand, Severities
<1>5. ASSUME NEW vector, NEW kev PROVE SsvcPriority(cve.cvss, vector, kev) \in Priorities
  BY DEF SsvcPriority, Priorities
<1> QED
  BY <1>2, <1>4, <1>5 DEF ScannedCve

------------------------------------------------------------------------------
(* The inductive invariant.                                                *)

Accepted == {b \in DOMAIN Bills : ~Refused(Bills[b])}
DocumentOf(b) ==
    [vendor |-> Bills[b].vendor, scan |-> ScanComponents(Parse(Bills[b]).components)]
Documents == {DocumentOf(b) : b \in Accepted}

TierOrNone == NewTiers \cup {UnknownTier}
Committed(document) == \E d \in DOMAIN documents : documents[d] = document

\* A request holds its document, which is committed from some step on.
IsJob(j) == j = [step |-> j.step, tier |-> j.tier, alerts |-> j.alerts, document |-> j.document]
JobOK(j) ==
    /\ j.step \in Steps
    /\ j.step = "idle" => j = Idle
    /\ j.step # "idle" => IsJob(j) /\ j.document \in Documents /\ j.tier \in TierOrNone
    /\ j.step \in {"summary", "mirror", "event", "alerts"} => Committed(j.document)

\* Each edge of a graph comes from a row, and its nodes from its edges.
ProvidedBy(p, d) ==
    \E i \in DOMAIN documents[d].scan :
        p = <<documents[d].vendor, documents[d].scan[i].component.purl>>
AtRiskBy(e, d) ==
    \E i \in DOMAIN documents[d].scan : \E v \in documents[d].scan[i].vulnerabilities :
        e = <<documents[d].scan[i].component.purl, v.cve>>
Traced(g) ==
    /\ \A p \in g.provides : \E d \in DOMAIN documents : ProvidedBy(p, d)
    /\ \A e \in g.at_risk : \E d \in DOMAIN documents : AtRiskBy(e, d)
Shaped(g) ==
    /\ \A v \in DOMAIN g.tiers : g.tiers[v] \in TierOrNone
    /\ \A p \in g.provides : p[1] \in DOMAIN g.tiers
    /\ \A v \in DOMAIN g.tiers : \E d \in DOMAIN documents : documents[d].vendor = v
    /\ DOMAIN g.severity = {e[2] : e \in g.at_risk}
GraphOK(g) == Traced(g) /\ Shaped(g)

SbomInv ==
    /\ documents \in Seq(Documents)
    /\ tiers \in [Vendors -> NewTiers]
    /\ faults \in Nat
    /\ DOMAIN job = Handlers /\ job = [h \in Handlers |-> job[h]]
    /\ \A h \in Handlers : JobOK(job[h])
    /\ GraphOK(graph)

\* Documents are only added.
Grows ==
    /\ documents' \in Seq(Documents)
    /\ DOMAIN documents \subseteq DOMAIN documents'
    /\ \A d \in DOMAIN documents : documents'[d] = documents[d]

LEMMA DocumentsScanned ==
    ASSUME NEW document \in Documents
    PROVE  /\ document.vendor \in Vendors
           /\ \A i \in DOMAIN document.scan : Scanned(document.scan[i])
<1>1. PICK b \in Accepted : document = DocumentOf(b)
  BY DEF Documents
<1>2. b \in DOMAIN Bills /\ ~Refused(Bills[b])
  BY <1>1 DEF Accepted
<1>3. PICK scan : scan = ScanComponents(Parse(Bills[b]).components)
  OBVIOUS
<1>4. document = [vendor |-> Bills[b].vendor, scan |-> scan]
  BY <1>1, <1>3 DEF DocumentOf
<1>5. \A i \in DOMAIN scan : Scanned(scan[i])
  BY <1>2, <1>3, IngestScans
<1> QED
  BY <1>2, <1>4, <1>5 DEF Vendors

LEMMA GraphKept ==
    ASSUME Grows, NEW g, GraphOK(g)
    PROVE  GraphOK(g)'
<1>1. \A p, d : d \in DOMAIN documents /\ ProvidedBy(p, d) => ProvidedBy(p, d)'
  BY DEF Grows, ProvidedBy
<1>2. \A e, d : d \in DOMAIN documents /\ AtRiskBy(e, d) => AtRiskBy(e, d)'
  BY DEF Grows, AtRiskBy
<1>3. Traced(g)'
  <2>1. \A p \in g.provides : \E d \in DOMAIN documents' : ProvidedBy(p, d)'
    BY <1>1 DEF GraphOK, Traced, Grows
  <2>2. \A e \in g.at_risk : \E d \in DOMAIN documents' : AtRiskBy(e, d)'
    BY <1>2 DEF GraphOK, Traced, Grows
  <2> QED
    BY <2>1, <2>2 DEF Traced, ProvidedBy, AtRiskBy
<1>4. Shaped(g)'
  <2>1. \A v \in DOMAIN g.tiers : \E d \in DOMAIN documents' : documents'[d].vendor = v
    BY DEF GraphOK, Shaped, Grows
  <2> QED
    BY <2>1 DEF GraphOK, Shaped
<1> QED
  BY <1>3, <1>4 DEF GraphOK

LEMMA JobKept ==
    ASSUME Grows, NEW j, JobOK(j)
    PROVE  JobOK(j)'
<1>1. Committed(j.document) => Committed(j.document)'
  BY DEF Grows, Committed
<1> QED
  BY <1>1 DEF JobOK

\* One request takes a step, the others stay.
LEMMA OneSteps ==
    ASSUME SbomInv, Grows, NEW h \in Handlers, NEW j, job' = [job EXCEPT ![h] = j], JobOK(j)'
    PROVE  /\ DOMAIN job' = Handlers /\ job' = [k \in Handlers |-> job'[k]]
           /\ \A k \in Handlers : job'[k] = IF k = h THEN j ELSE job[k]
           /\ \A k \in Handlers : JobOK(job[k])'
<1>1. /\ DOMAIN job' = Handlers /\ job' = [k \in Handlers |-> job'[k]]
      /\ \A k \in Handlers : job'[k] = IF k = h THEN j ELSE job[k]
  BY DEF SbomInv
<1>2. ASSUME NEW k \in Handlers PROVE JobOK(job[k])'
  <2>1. PICK i : i = job'[k]
    OBVIOUS
  <2>2. JobOK(i)'
    <3>1. CASE k = h
      BY <1>1, <2>1, <3>1
    <3>2. CASE k # h
      <4>1. JobOK(i)
        BY <1>1, <2>1, <3>2 DEF SbomInv
      <4> QED
        BY <4>1, JobKept
    <3> QED
      BY <3>1, <3>2
  <2> QED
    BY <2>1, <2>2 DEF JobOK, Committed
<1> QED
  BY <1>1, <1>2

\* What an upsert adds to a graph.
LEMMA Upserts ==
    ASSUME NEW g, NEW vendor, NEW tier, NEW scan, NEW u,
           u = UpsertVendorSubgraph(g, vendor, tier, scan)
    PROVE  /\ DOMAIN u.tiers = DOMAIN g.tiers \cup {vendor}
           /\ \A v \in DOMAIN u.tiers : u.tiers[v] = IF v = vendor THEN tier ELSE g.tiers[v]
           /\ \A p : p \in u.provides <=>
                 p \in g.provides \/ \E s \in scan : p = <<vendor, s.component.purl>>
           /\ \A e : e \in u.at_risk <=>
                 \/ e \in g.at_risk
                 \/ \E s \in scan : \E v \in s.vulnerabilities : e = <<s.component.purl, v.cve>>
           /\ DOMAIN u.severity = DOMAIN g.severity
                 \cup {v.cve : v \in UNION {s.vulnerabilities : s \in scan}}
<1> DEFINE found == UNION {s.vulnerabilities : s \in scan}
           tierOf == [v \in {vendor} |-> tier]
           severityOf == [c \in {v.cve : v \in found} |-> (CHOOSE v \in found : v.cve = c).severity]
<1>1. /\ u.tiers = Merge2(g.tiers, tierOf)
      /\ u.provides = g.provides \cup {<<vendor, s.component.purl>> : s \in scan}
      /\ u.at_risk = g.at_risk \cup
             UNION {{<<s.component.purl, v.cve>> : v \in s.vulnerabilities} : s \in scan}
      /\ u.severity = Merge2(g.severity, severityOf)
  BY DEF UpsertVendorSubgraph, EveryComponent
<1>2. /\ DOMAIN u.tiers = DOMAIN g.tiers \cup {vendor}
      /\ \A v \in DOMAIN u.tiers : u.tiers[v] = IF v = vendor THEN tier ELSE g.tiers[v]
  BY <1>1 DEF Merge2
<1>3. DOMAIN u.severity = DOMAIN g.severity \cup {v.cve : v \in found}
  <2>1. DOMAIN severityOf = {v.cve : v \in found}
    OBVIOUS
  <2> HIDE DEF severityOf
  <2> QED
    BY <1>1, <2>1 DEF Merge2
<1>4. \A p : p \in u.provides <=>
         p \in g.provides \/ \E s \in scan : p = <<vendor, s.component.purl>>
  BY <1>1
<1>5. \A e : e \in u.at_risk <=>
         \/ e \in g.at_risk
         \/ \E s \in scan : \E v \in s.vulnerabilities : e = <<s.component.purl, v.cve>>
  BY <1>1
<1> QED
  BY <1>2, <1>3, <1>4, <1>5

LEMMA UpsertKeeps ==
    ASSUME SbomInv, NEW document \in Documents, Committed(document), NEW tier \in TierOrNone,
           NEW u, u = UpsertVendorSubgraph(graph, document.vendor, tier, Range(document.scan))
    PROVE  GraphOK(u)
<1>1. PICK d0 \in DOMAIN documents : documents[d0] = document
  BY DEF Committed
<1>2. PICK scan : scan = Range(document.scan)
  OBVIOUS
<1>3. \A s \in scan : \E i \in DOMAIN documents[d0].scan : documents[d0].scan[i] = s
  BY <1>1, <1>2 DEF Range
<1>4. /\ DOMAIN u.tiers = DOMAIN graph.tiers \cup {document.vendor}
      /\ \A v \in DOMAIN u.tiers : u.tiers[v] = IF v = document.vendor THEN tier ELSE graph.tiers[v]
  BY Upserts
<1>5. \A p : p \in u.provides <=>
         p \in graph.provides \/ \E s \in scan : p = <<document.vendor, s.component.purl>>
  BY <1>2, Upserts
<1>6. \A e : e \in u.at_risk <=>
         \/ e \in graph.at_risk
         \/ \E s \in scan : \E v \in s.vulnerabilities : e = <<s.component.purl, v.cve>>
  BY <1>2, Upserts
<1>7. DOMAIN u.severity = DOMAIN graph.severity
                 \cup {v.cve : v \in UNION {s.vulnerabilities : s \in scan}}
  BY <1>2, Upserts
<1>8. Traced(graph) /\ Shaped(graph)
  BY DEF SbomInv, GraphOK
<1>9. Traced(u)
  <2>1. ASSUME NEW p \in u.provides PROVE \E d \in DOMAIN documents : ProvidedBy(p, d)
    <3>1. CASE p \in graph.provides
      BY <1>8, <3>1 DEF Traced
    <3>2. CASE \E s \in scan : p = <<document.vendor, s.component.purl>>
      <4>1. ProvidedBy(p, d0)
        BY <1>1, <1>3, <3>2 DEF ProvidedBy
      <4> QED
        BY <4>1
    <3> QED
      BY <1>5, <2>1, <3>1, <3>2
  <2>2. ASSUME NEW e \in u.at_risk PROVE \E d \in DOMAIN documents : AtRiskBy(e, d)
    <3>1. CASE e \in graph.at_risk
      BY <1>8, <3>1 DEF Traced
    <3>2. CASE \E s \in scan : \E v \in s.vulnerabilities : e = <<s.component.purl, v.cve>>
      <4>1. AtRiskBy(e, d0)
        BY <1>1, <1>3, <3>2 DEF AtRiskBy
      <4> QED
        BY <4>1
    <3> QED
      BY <1>6, <2>2, <3>1, <3>2
  <2> QED
    BY <2>1, <2>2 DEF Traced
<1>10. Shaped(u)
  <2>1. \A v \in DOMAIN u.tiers : u.tiers[v] \in TierOrNone
    BY <1>4, <1>8 DEF Shaped
  <2>2. \A p \in u.provides : p[1] \in DOMAIN u.tiers
    BY <1>4, <1>5, <1>8 DEF Shaped
  <2>3. \A v \in DOMAIN u.tiers : \E d \in DOMAIN documents : documents[d].vendor = v
    BY <1>1, <1>4, <1>8 DEF Shaped
  <2>4. DOMAIN graph.severity = {e[2] : e \in graph.at_risk}
    BY <1>8 DEF Shaped
  <2>5. \A c \in DOMAIN u.severity : \E e \in u.at_risk : e[2] = c
    <3> TAKE c \in DOMAIN u.severity
    <3>1. CASE c \in DOMAIN graph.severity
      BY <1>6, <2>4, <3>1
    <3>2. CASE c \notin DOMAIN graph.severity
      <4>1. PICK s \in scan : \E v \in s.vulnerabilities : v.cve = c
        BY <1>7, <3>2
      <4>2. PICK v \in s.vulnerabilities : v.cve = c
        BY <4>1
      <4>3. <<s.component.purl, v.cve>> \in u.at_risk
        BY <1>6
      <4> QED
        BY <4>2, <4>3
    <3> QED
      BY <3>1, <3>2
  <2>6. \A e \in u.at_risk : e[2] \in DOMAIN u.severity
    <3> TAKE e \in u.at_risk
    <3>1. CASE e \in graph.at_risk
      BY <1>7, <2>4, <3>1
    <3>2. CASE \E s \in scan : \E v \in s.vulnerabilities : e = <<s.component.purl, v.cve>>
      BY <1>7, <3>2
    <3> QED
      BY <1>6, <3>1, <3>2
  <2> QED
    BY <2>1, <2>2, <2>3, <2>5, <2>6 DEF Shaped
<1> QED
  BY <1>9, <1>10 DEF GraphOK

\* Whatever fails is counted.
LEMMA FaultCounts == ASSUME SbomInv, Fault PROVE faults' \in Nat /\ faults' = faults + 1
BY DEF Fault, SbomInv

\* What a step of a request keeps.
Keeps(h, j) ==
    /\ job' = [job EXCEPT ![h] = j] /\ JobOK(j)'
    /\ Grows /\ faults' \in Nat /\ tiers' = tiers /\ GraphOK(graph)'

\* Most steps write no row and not the graph.
LEMMA KeepsRows ==
    ASSUME SbomInv, NEW h \in Handlers, NEW j, job' = [job EXCEPT ![h] = j], JobOK(j),
           UNCHANGED <<documents, graph, tiers>>, UNCHANGED faults \/ Fault
    PROVE  Keeps(h, j)
<1>1. Grows
  BY DEF Grows, SbomInv
<1>2. PICK g : g = graph
  OBVIOUS
<1>3. GraphOK(g)'
  BY <1>1, <1>2, GraphKept DEF SbomInv
<1>4. GraphOK(graph)'
  BY <1>2, <1>3 DEF GraphOK, Traced, Shaped, ProvidedBy, AtRiskBy
<1>5. JobOK(j)'
  BY <1>1, JobKept
<1>6. faults' \in Nat
  BY FaultCounts DEF SbomInv
<1> QED
  BY <1>1, <1>4, <1>5, <1>6 DEF Keeps

LEMMA IdleIsOK == JobOK(Idle)
BY DEF JobOK, Idle, Steps

LEMMA StepIngest ==
    ASSUME SbomInv, NEW h \in Handlers, Ingest(h)
    PROVE  /\ UNCHANGED <<documents, graph, faults>> /\ job[h].step = "idle"
           /\ \E j : Keeps(h, j) /\ j.step = "commit" /\ j.alerts = <<>>
<1>1. PICK b \in DOMAIN Bills :
         /\ ~Refused(Bills[b])
         /\ job' = [job EXCEPT ![h] = [step |-> "commit", tier |-> UnknownTier, alerts |-> <<>>,
                       document |-> [vendor |-> Bills[b].vendor,
                                     scan |-> ScanComponents(Parse(Bills[b]).components)]]]
  BY DEF Ingest
<1>2. PICK j : j = [step |-> "commit", tier |-> UnknownTier, alerts |-> <<>>,
                    document |-> DocumentOf(b)]
  OBVIOUS
<1>3. DocumentOf(b) \in Documents
  BY <1>1 DEF Documents, Accepted
<1>4. JobOK(j)
  BY <1>2, <1>3 DEF JobOK, IsJob, Steps, TierOrNone
<1>5. job' = [job EXCEPT ![h] = j]
  BY <1>1, <1>2 DEF DocumentOf
<1>6. UNCHANGED <<documents, graph, tiers, faults>> /\ job[h].step = "idle"
  BY DEF Ingest, Request, Idle
<1>7. Keeps(h, j)
  BY <1>4, <1>5, <1>6, KeepsRows
<1> QED
  BY <1>2, <1>6, <1>7

LEMMA StepCommit ==
    ASSUME SbomInv, NEW h \in Handlers, Commit(h), NEW s, s = job[h]
    PROVE  /\ s.document \in Documents /\ Len(documents) \in Nat
           /\ DOMAIN documents = 1..Len(documents)
           /\ DOMAIN documents' = 1..Len(documents) + 1
           /\ documents'[Len(documents) + 1] = s.document
           /\ \E j : /\ Keeps(h, j) /\ j.step = "summary" /\ j.document = s.document
                     /\ j.alerts = CriticalAlerts(s.document.vendor, s.document.scan)
<1>1. JobOK(s) /\ s.step = "commit"
  BY DEF SbomInv, Commit
<1>2. IsJob(s) /\ s.document \in Documents /\ s.tier \in TierOrNone
  BY <1>1 DEF JobOK
<1>3. documents' = Append(documents, s.document) /\ documents \in Seq(Documents)
  BY DEF Commit, SbomInv
<1>4. PICK n \in Nat : n = Len(documents)
  BY <1>3
<1>5. /\ documents' \in Seq(Documents) /\ Len(documents') = n + 1
      /\ \A d \in 1..n : documents'[d] = documents[d]
      /\ documents'[n + 1] = s.document
  BY <1>2, <1>3, <1>4
<1>6. DOMAIN documents = 1..n /\ DOMAIN documents' = 1..n + 1
  BY <1>3, <1>4, <1>5, LenProperties
<1>7. Grows
  BY <1>5, <1>6 DEF Grows
<1>8. PICK alerts : alerts = CriticalAlerts(s.document.vendor, s.document.scan)
  OBVIOUS
<1>9. PICK j : j = [step |-> "summary", tier |-> s.tier, alerts |-> alerts,
                    document |-> s.document]
  OBVIOUS
<1>10. job' = [job EXCEPT ![h] = j]
  <2>1. [s EXCEPT !.step = "summary", !.alerts = alerts] = j
    <3>1. [s EXCEPT !.step = "summary", !.alerts = alerts]
             = [step |-> "summary", tier |-> s.tier, alerts |-> alerts, document |-> s.document]
      <4>1. PICK t : t = [s EXCEPT !.step = "summary"]
        OBVIOUS
      <4>2. t = [step |-> "summary", tier |-> s.tier, alerts |-> s.alerts, document |-> s.document]
        BY <1>2, <4>1 DEF IsJob
      <4>3. [t EXCEPT !.alerts = alerts]
               = [step |-> "summary", tier |-> s.tier, alerts |-> alerts, document |-> s.document]
        BY <4>2
      <4>4. [s EXCEPT !.step = "summary", !.alerts = alerts] = [t EXCEPT !.alerts = alerts]
        BY <4>1
      <4> QED
        BY <4>3, <4>4
    <3> QED
      BY <1>9, <3>1
  <2>2. job' = [job EXCEPT ![h] = [s EXCEPT !.step = "summary", !.alerts = alerts]]
    BY <1>8 DEF Commit
  <2> QED
    BY <2>1, <2>2
<1>11. Committed(j.document)'
  BY <1>4, <1>5, <1>6, <1>9 DEF Committed
<1>12. JobOK(j)'
  BY <1>2, <1>9, <1>11 DEF JobOK, IsJob, Steps
<1>13. PICK g : g = graph
  OBVIOUS
<1>14. GraphOK(g)' /\ graph' = g
  BY <1>7, <1>13, GraphKept DEF SbomInv, Commit
<1>15. GraphOK(graph)'
  BY <1>14 DEF GraphOK, Traced, Shaped, ProvidedBy, AtRiskBy
<1>16. Keeps(h, j)
  BY <1>7, <1>10, <1>12, <1>15 DEF Keeps, Commit, SbomInv
<1> QED
  BY <1>2, <1>4, <1>5, <1>6, <1>8, <1>9, <1>16

\* What a request is like that has committed its document.
LEMMA HasCommitted ==
    ASSUME SbomInv, NEW h \in Handlers, NEW s, s = job[h],
           s.step \in {"summary", "mirror", "event", "alerts"}
    PROVE  /\ IsJob(s) /\ JobOK(s) /\ s.document \in Documents /\ s.tier \in TierOrNone
           /\ Committed(s.document)
           /\ \A step \in {"summary", "mirror", "event", "alerts"}, tier \in TierOrNone :
                 \A alerts : JobOK([step |-> step, tier |-> tier, alerts |-> alerts,
                                    document |-> s.document])
BY DEF SbomInv, JobOK, IsJob, Steps

LEMMA StepReadSummary ==
    ASSUME SbomInv, NEW h \in Handlers, ReadSummary(h), NEW s, s = job[h]
    PROVE  \E j : Keeps(h, j) /\ j.step = "mirror" /\ j.document = s.document /\ j.alerts = s.alerts
<1>1. s.step = "summary"
  BY DEF ReadSummary
<1>2. IsJob(s) /\ s.document \in Documents /\ s.tier \in TierOrNone
  BY <1>1, HasCommitted
<1>3. PICK tier \in TierOrNone : job' = [job EXCEPT ![h] = [s EXCEPT !.step = "mirror", !.tier = tier]]
  <2>1. CASE job' = [job EXCEPT ![h].step = "mirror", ![h].tier = tiers[job[h].document.vendor]]
    <3>1. tiers[s.document.vendor] \in TierOrNone
      BY <1>2, DocumentsScanned DEF SbomInv, TierOrNone
    <3> QED
      BY <2>1, <3>1
  <2>2. CASE Goto(h, "mirror")
    <3>1. [s EXCEPT !.step = "mirror", !.tier = s.tier] = [s EXCEPT !.step = "mirror"]
      BY <1>2 DEF IsJob
    <3>2. job' = [job EXCEPT ![h] = [s EXCEPT !.step = "mirror"]]
      BY <2>2 DEF Goto
    <3> QED
      BY <1>2, <3>1, <3>2
  <2> QED
    BY <2>1, <2>2 DEF ReadSummary
<1>4. PICK j : j = [step |-> "mirror", tier |-> tier, alerts |-> s.alerts, document |-> s.document]
  OBVIOUS
<1>5. [s EXCEPT !.step = "mirror", !.tier = tier] = j
  <2>1. [s EXCEPT !.step = "mirror", !.tier = tier]
           = [step |-> "mirror", tier |-> tier, alerts |-> s.alerts, document |-> s.document]
    <3>1. PICK t : t = [s EXCEPT !.step = "mirror"]
      OBVIOUS
    <3>2. t = [step |-> "mirror", tier |-> s.tier, alerts |-> s.alerts, document |-> s.document]
      BY <1>2, <3>1 DEF IsJob
    <3>3. [t EXCEPT !.tier = tier]
             = [step |-> "mirror", tier |-> tier, alerts |-> s.alerts, document |-> s.document]
      BY <3>2
    <3>4. [s EXCEPT !.step = "mirror", !.tier = tier] = [t EXCEPT !.tier = tier]
      BY <3>1
    <3> QED
      BY <3>3, <3>4
  <2> QED
    BY <1>4, <2>1
<1>6. JobOK(j)
  BY <1>1, <1>4, HasCommitted
<1>7. Keeps(h, j)
  BY <1>3, <1>5, <1>6, KeepsRows DEF ReadSummary
<1> QED
  BY <1>4, <1>7

LEMMA StepMirror ==
    ASSUME SbomInv, NEW h \in Handlers, Mirror(h), NEW s, s = job[h],
           NEW upserted,
           upserted = UpsertVendorSubgraph(graph, s.document.vendor, s.tier, Range(s.document.scan))
    PROVE  /\ UNCHANGED documents
           /\ (graph' = upserted /\ UNCHANGED faults) \/ (Fault /\ graph' \in {graph, upserted})
           /\ \E j : Keeps(h, j) /\ j.step = "event" /\ j.document = s.document /\ j.alerts = s.alerts
<1>1. s.step = "mirror"
  BY DEF Mirror
<1>2. IsJob(s) /\ s.document \in Documents /\ s.tier \in TierOrNone /\ Committed(s.document)
  BY <1>1, HasCommitted
<1>3. GraphOK(upserted)
  BY <1>2, UpsertKeeps
<1>4. (graph' = upserted /\ UNCHANGED faults) \/ (Fault /\ graph' \in {graph, upserted})
  BY DEF Mirror
<1>5. UNCHANGED <<documents, tiers>>
  BY DEF Mirror, Proceed
<1>6. Grows
  BY <1>5 DEF Grows, SbomInv
<1>7. GraphOK(graph)'
  <2>1. PICK g : g = graph'
    OBVIOUS
  <2>2. GraphOK(g)
    BY <1>3, <1>4, <2>1 DEF SbomInv
  <2>3. GraphOK(g)'
    BY <1>6, <2>2, GraphKept
  <2> QED
    BY <2>1, <2>3 DEF GraphOK, Traced, Shaped, ProvidedBy, AtRiskBy
<1>8. PICK j : j = [step |-> "event", tier |-> s.tier, alerts |-> s.alerts, document |-> s.document]
  OBVIOUS
<1>9. job' = [job EXCEPT ![h] = j]
  <2>1. job' = [job EXCEPT ![h] = [s EXCEPT !.step = "event"]]
    BY DEF Mirror, Proceed, Goto
  <2>2. [s EXCEPT !.step = "event"] = j
    BY <1>2, <1>8 DEF IsJob
  <2> QED
    BY <2>1, <2>2
<1>10. JobOK(j)
  BY <1>1, <1>2, <1>8, HasCommitted
<1>11. JobOK(j)'
  BY <1>6, <1>10, JobKept
<1>12. faults' \in Nat
  BY <1>4, FaultCounts DEF SbomInv
<1>13. Keeps(h, j)
  BY <1>5, <1>6, <1>7, <1>9, <1>11, <1>12 DEF Keeps
<1> QED
  BY <1>4, <1>5, <1>8, <1>13

LEMMA StepPublishes ==
    ASSUME SbomInv, NEW h \in Handlers, PublishIngestion(h) \/ PublishAlert(h)
    PROVE  /\ UNCHANGED <<documents, graph>> /\ (UNCHANGED faults \/ Fault)
           /\ job[h].step \in {"event", "alerts"}
           /\ \E j : /\ Keeps(h, j) /\ j.step = "alerts"
                     /\ PublishIngestion(h) => j.alerts = job[h].alerts
                     /\ PublishAlert(h) => j.alerts = Tail(job[h].alerts)
<1>1. PICK s : s = job[h]
  OBVIOUS
<1>2. s.step \in {"event", "alerts"}
  BY <1>1 DEF PublishIngestion, PublishAlert
<1>3. IsJob(s) /\ s.document \in Documents /\ s.tier \in TierOrNone
  BY <1>1, <1>2, HasCommitted
<1>4. UNCHANGED <<documents, graph, tiers>> /\ (UNCHANGED faults \/ Fault)
  BY DEF PublishIngestion, PublishAlert, Publish, Proceed
<1>5. PICK alerts :
         /\ job' = [job EXCEPT ![h] = [step |-> "alerts", tier |-> s.tier,
                                       alerts |-> alerts, document |-> s.document]]
         /\ PublishIngestion(h) => alerts = s.alerts
         /\ PublishAlert(h) => alerts = Tail(s.alerts)
  <2>1. CASE PublishIngestion(h)
    <3>1. job' = [job EXCEPT ![h] = [s EXCEPT !.step = "alerts"]]
      BY <1>1, <2>1 DEF PublishIngestion, Proceed, Goto
    <3>2. [s EXCEPT !.step = "alerts"]
             = [step |-> "alerts", tier |-> s.tier, alerts |-> s.alerts, document |-> s.document]
      BY <1>3 DEF IsJob
    <3>3. ~PublishAlert(h)
      BY <2>1 DEF PublishIngestion, PublishAlert
    <3> QED
      BY <3>1, <3>2, <3>3
  <2>2. CASE PublishAlert(h)
    <3>1. job' = [job EXCEPT ![h] = [s EXCEPT !.alerts = Tail(s.alerts)]] /\ s.step = "alerts"
      BY <1>1, <2>2 DEF PublishAlert
    <3>2. PICK rest : rest = Tail(s.alerts)
      OBVIOUS
    <3>3. [s EXCEPT !.alerts = rest]
             = [step |-> "alerts", tier |-> s.tier, alerts |-> rest, document |-> s.document]
      BY <1>3, <3>1 DEF IsJob
    <3>4. ~PublishIngestion(h)
      BY <2>2 DEF PublishIngestion, PublishAlert
    <3> QED
      BY <3>1, <3>2, <3>3, <3>4
  <2> QED
    BY <2>1, <2>2
<1>6. PICK j : j = [step |-> "alerts", tier |-> s.tier, alerts |-> alerts, document |-> s.document]
  OBVIOUS
<1>7. JobOK(j)
  BY <1>1, <1>2, <1>3, <1>6, HasCommitted
<1>8. Keeps(h, j)
  BY <1>4, <1>5, <1>6, <1>7, KeepsRows
<1> QED
  <2>1. /\ PublishIngestion(h) => j.alerts = job[h].alerts
        /\ PublishAlert(h) => j.alerts = Tail(job[h].alerts)
    BY <1>1, <1>5, <1>6
  <2>2. j.step = "alerts"
    BY <1>6
  <2> QED
    BY <1>1, <1>2, <1>4, <1>8, <2>1, <2>2

\* A request that answers, is refused or is cut off.
LEMMA StepEnds ==
    ASSUME SbomInv, NEW h \in Handlers, Respond(h) \/ CutOff(h)
    PROVE  /\ UNCHANGED <<documents, graph>>
           /\ (job[h].step = "alerts" /\ UNCHANGED faults) \/ Fault
           /\ Keeps(h, Idle)
<1>1. UNCHANGED <<documents, graph, tiers>> /\ job' = [job EXCEPT ![h] = Idle]
      /\ ((job[h].step = "alerts" /\ UNCHANGED faults) \/ Fault)
  BY DEF Respond, CutOff
<1> QED
  BY <1>1, IdleIsOK, KeepsRows

LEMMA StepReject ==
    ASSUME SbomInv, NEW h \in Handlers, Reject(h)
    PROVE  UNCHANGED <<documents, graph, job, faults>> /\ Keeps(h, job[h])
<1>1. PICK j : j = job[h]
  OBVIOUS
<1>2. UNCHANGED <<documents, graph, tiers, faults, job>>
  BY DEF Reject, Request
<1>3. job' = [job EXCEPT ![h] = j] /\ JobOK(j)
  BY <1>1, <1>2 DEF SbomInv
<1>4. Keeps(h, j)
  BY <1>2, <1>3, KeepsRows
<1> QED
  BY <1>1, <1>2, <1>4

\* Steps of no request.
LEMMA StepOther ==
    ASSUME SbomInv, Retier \/ UNCHANGED vars
    PROVE  UNCHANGED <<documents, graph, job, faults>> /\ tiers' \in [Vendors -> NewTiers]
<1>1. CASE Retier
  BY <1>1 DEF Retier, SbomInv
<1>2. CASE UNCHANGED vars
  BY <1>2 DEF vars, SbomInv
<1> QED
  BY <1>1, <1>2

LEMMA SbomNext == SbomInv /\ [Next]_vars => SbomInv'
<1> SUFFICES ASSUME SbomInv, [Next]_vars PROVE SbomInv'
  OBVIOUS
<1>1. ASSUME NEW h \in Handlers, Ingest(h) \/ Reject(h) \/ Step(h) \/ CutOff(h)
      PROVE  SbomInv'
  <2>1. \E j : Keeps(h, j)
    BY <1>1, StepIngest, StepReject, StepCommit, StepReadSummary, StepMirror, StepPublishes,
       StepEnds DEF Step
  <2>2. PICK j : Keeps(h, j)
    BY <2>1
  <2>3. /\ DOMAIN job' = Handlers /\ job' = [k \in Handlers |-> job'[k]]
        /\ \A k \in Handlers : JobOK(job[k])'
    BY <2>2, OneSteps DEF Keeps
  <2> QED
    BY <2>2, <2>3 DEF Keeps, Grows, SbomInv
<1>2. CASE Retier \/ UNCHANGED vars
  <2>1. UNCHANGED <<documents, graph, job, faults>> /\ tiers' \in [Vendors -> NewTiers]
    BY <1>2, StepOther
  <2>2. (\A h \in Handlers : JobOK(job[h]))'
    BY <2>1 DEF SbomInv, JobOK, Committed
  <2>3. GraphOK(graph)'
    BY <2>1 DEF SbomInv, GraphOK, Traced, Shaped, ProvidedBy, AtRiskBy
  <2> QED
    BY <2>1, <2>2, <2>3 DEF SbomInv
<1> QED
  BY <1>1, <1>2 DEF Next, Quiescent

LEMMA SbomInit == Init => SbomInv
<1> SUFFICES ASSUME Init PROVE SbomInv
  OBVIOUS
<1>1. documents = <<>> /\ tiers \in [Vendors -> NewTiers] /\ faults = 0
      /\ job = [h \in Handlers |-> Idle] /\ graph = NoGraph
  BY DEF Init
<1>2. Shaped(graph)
  BY <1>1 DEF Shaped, NoGraph
<1>3. Traced(graph)
  BY <1>1 DEF Traced, NoGraph
<1>4. \A h \in Handlers : JobOK(job[h])
  BY <1>1, IdleIsOK
<1> QED
  BY <1>1, <1>2, <1>3, <1>4 DEF SbomInv, GraphOK

LEMMA AlwaysSbomInv == Spec => []SbomInv
BY SbomInit, SbomNext, PTL DEF Spec

------------------------------------------------------------------------------
\* Rows and graph keep their shape: components have a URL of three parts, what is
\* known of a vulnerability is in range, and the graph's nodes are those of its edges
\* and the vendors of committed bills.
THEOREM SbomTypes == Spec => []TypeOK
<1>1. SbomInv => TypeOK
  <2> SUFFICES ASSUME SbomInv PROVE TypeOK
    OBVIOUS
  <2>1. \A h \in Handlers : job[h].step \in Steps
    BY DEF SbomInv, JobOK
  <2>2. ASSUME NEW r \in Rows
        PROVE  /\ Len(r.found.component.purl) = 3
               /\ \A v \in r.found.vulnerabilities :
                     /\ v.severity \in {"Critical", "High", "Medium", "Low"}
                     /\ v.ssvc \in {"Act", "Attend", "Track*", "Track"}
    <3>1. Scanned(r.found)
      <4>1. PICK d \in DOMAIN documents : \E s \in Range(documents[d].scan) :
               r = [vendor |-> documents[d].vendor, found |-> s]
        BY <2>2 DEF Rows
      <4>2. PICK i \in DOMAIN documents[d].scan : r.found = documents[d].scan[i]
        BY <4>1 DEF Range
      <4>3. documents[d] \in Documents
        BY <4>1, ElementOfSeq, LenProperties DEF SbomInv
      <4> QED
        BY <4>2, <4>3, DocumentsScanned
    <3>2. \A v \in r.found.vulnerabilities : ScannedCve(v)
      BY <3>1, ScannedRange
    <3> QED
      BY <3>1, <3>2 DEF Scanned, ScannedCve, Severities, Priorities
  <2>3. Shaped(graph)
    BY DEF SbomInv, GraphOK
  <2>4. DOMAIN graph.tiers \subseteq {documents[d].vendor : d \in DOMAIN documents}
    BY <2>3 DEF Shaped
  <2> QED
    BY <2>1, <2>2, <2>3, <2>4 DEF TypeOK, Shaped, TierOrNone
<1> QED
  BY <1>1, AlwaysSbomInv, PTL

\* graph.py: who is reached by a CVE along the graph has a committed component with
\* that very CVE, although a component's node is shared by all bills that name its
\* package URL and its CVEs were merged there by any of them.
THEOREM ImpactIsReal == Spec => []GraphImpactIsReal
<1>1. SbomInv => GraphImpactIsReal
  <2> SUFFICES ASSUME SbomInv, NEW e \in graph.at_risk, NEW vendor \in Impact(graph, e[2])
               PROVE  vendor \in CveImpact(e[2])
    BY DEF GraphImpactIsReal
  <2>1. PICK cve : cve = e[2]
    OBVIOUS
  <2>2. PICK p \in graph.provides : p[1] = vendor /\ <<p[2], cve>> \in graph.at_risk
    BY <2>1 DEF Impact
  <2>3. Traced(graph)
    BY DEF SbomInv, GraphOK
  <2>4. \A d \in DOMAIN documents : documents[d] \in Documents
    BY ElementOfSeq, LenProperties DEF SbomInv
  <2>5. PICK d \in DOMAIN documents : ProvidedBy(p, d)
    BY <2>3 DEF Traced
  <2>6. PICK i \in DOMAIN documents[d].scan :
           p = <<documents[d].vendor, documents[d].scan[i].component.purl>>
    BY <2>5 DEF ProvidedBy
  <2>7. PICK s : s = documents[d].scan[i]
    OBVIOUS
  <2>8. PICK f \in DOMAIN documents : AtRiskBy(<<p[2], cve>>, f)
    BY <2>2, <2>3 DEF Traced
  <2>9. PICK k \in DOMAIN documents[f].scan : \E v \in documents[f].scan[k].vulnerabilities :
           <<p[2], cve>> = <<documents[f].scan[k].component.purl, v.cve>>
    BY <2>8 DEF AtRiskBy
  <2>10. PICK t : t = documents[f].scan[k]
    OBVIOUS
  <2>11. PICK v \in t.vulnerabilities : p[2] = t.component.purl /\ v.cve = cve
    BY <2>9, <2>10
  <2>12. Scanned(s) /\ Scanned(t)
    BY <2>4, <2>7, <2>10, DocumentsScanned
  <2>13. s.component.purl = t.component.purl
    BY <2>6, <2>7, <2>11
  <2>14. v \in s.vulnerabilities
    BY <2>11, <2>12, <2>13, ScansAgree
  <2>15. s \in Range(documents[d].scan) /\ documents[d].vendor = vendor
    BY <2>2, <2>6, <2>7 DEF Range
  <2>16. PICK r : r = [vendor |-> vendor, found |-> s]
    OBVIOUS
  <2>17. r \in Rows /\ r.vendor = vendor /\ r.found = s
    BY <2>15, <2>16 DEF Rows
  <2>18. vendor \in CveImpact(cve)
    BY <2>11, <2>14, <2>17 DEF CveImpact
  <2> QED
    BY <2>1, <2>18
<1> QED
  BY <1>1, AlwaysSbomInv, PTL
------------------------------------------------------------------------------
(* Documents missing from the graph: each is claimed by the request that   *)
(* still has to mirror it, or was paid for by a failure.                   *)

Mirroring == {"summary", "mirror"}
Pending == {h \in Handlers : job[h].step \in Mirroring}

Claims(own) ==
    /\ own \in [Pending -> DOMAIN documents]
    /\ \A h \in Pending : documents[own[h]] = job[h].document
    /\ \A h, k \in Pending : own[h] = own[k] => h = k
Unmirrored == {d \in DOMAIN documents : ~IsMirrored(documents[d])}
Lost(own) == {d \in Unmirrored : \A h \in Pending : own[h] # d}
LossInv ==
    \E own \in [Pending -> DOMAIN documents] : Claims(own) /\ Cardinality(Lost(own)) <= faults

GraphGrows == graph.provides \subseteq graph'.provides /\ graph.at_risk \subseteq graph'.at_risk

\* What is in the graph stays there.
LEMMA MirroredStays ==
    ASSUME GraphGrows, NEW document, IsMirrored(document)
    PROVE  IsMirrored(document)'
BY DEF GraphGrows, IsMirrored

LEMMA LostIsFinite ==
    ASSUME SbomInv
    PROVE  IsFiniteSet(DOMAIN documents) /\ \A own : IsFiniteSet(Lost(own))
<1>1. DOMAIN documents = 1..Len(documents) /\ Len(documents) \in Nat
  BY LenProperties DEF SbomInv
<1>2. IsFiniteSet(DOMAIN documents)
  BY <1>1, FS_Interval
<1>3. ASSUME NEW own PROVE IsFiniteSet(Lost(own))
  <2>1. Lost(own) \subseteq DOMAIN documents
    BY DEF Lost, Unmirrored
  <2> QED
    BY <1>2, <2>1, FS_Subset
<1> QED
  BY <1>2, <1>3

\* Nothing is lost that was not lost before, or one document is for a fault.
LEMMA LossIsPaid ==
    ASSUME NEW L, NEW M, NEW d, IsFiniteSet(L), faults \in Nat, Cardinality(L) <= faults,
           \/ M \subseteq L /\ faults' \in Nat /\ faults' >= faults
           \/ M \subseteq L \cup {d} /\ faults' = faults + 1
    PROVE  Cardinality(M) <= faults'
<1>1. Cardinality(L) \in Nat
  BY FS_CardinalityType
<1>2. CASE M \subseteq L /\ faults' \in Nat /\ faults' >= faults
  <2>1. Cardinality(M) <= Cardinality(L) /\ IsFiniteSet(M)
    BY <1>2, FS_Subset
  <2>2. Cardinality(M) \in Nat
    BY <2>1, FS_CardinalityType
  <2> QED
    BY <1>1, <1>2, <2>1, <2>2
<1>3. CASE M \subseteq L \cup {d} /\ faults' = faults + 1
  <2>1. /\ IsFiniteSet(L \cup {d})
        /\ Cardinality(L \cup {d}) \in {Cardinality(L), Cardinality(L) + 1}
    BY FS_AddElement
  <2>2. Cardinality(M) <= Cardinality(L \cup {d}) /\ IsFiniteSet(M)
    BY <1>3, <2>1, FS_Subset
  <2>3. Cardinality(M) \in Nat
    BY <2>2, FS_CardinalityType
  <2> QED
    BY <1>1, <1>3, <2>1, <2>2, <2>3
<1> QED
  BY <1>2, <1>3

\* A document of this state that is mirrored in the next one.
IsMirroredNext(document) == \A d : d = document => IsMirrored(d)'

\* The request h steps and is, or is not, mirroring its document as before.
LEMMA LossStays ==
    ASSUME SbomInv, LossInv, NEW h \in Handlers, NEW j, Keeps(h, j), UNCHANGED documents,
           j.step \in Mirroring <=> job[h].step \in Mirroring,
           j.step \in Mirroring => j.document = job[h].document,
           GraphGrows, faults' >= faults
    PROVE  LossInv'
<1>1. PICK own : own \in [Pending -> DOMAIN documents] /\ Claims(own) /\ Cardinality(Lost(own)) <= faults
  BY DEF LossInv
<1>2. \A k \in Handlers : job'[k] = IF k = h THEN j ELSE job[k]
  BY OneSteps DEF Keeps
<1>3. Pending' = Pending
  BY <1>2 DEF Pending
<1>4. Claims(own)'
  BY <1>1, <1>2, <1>3 DEF Claims, Pending
<1>5. Lost(own)' \subseteq Lost(own)
  BY <1>3, MirroredStays DEF Lost, Unmirrored
<1>6. faults' \in Nat /\ faults \in Nat
  BY DEF Keeps, SbomInv
<1>7. Cardinality(Lost(own)') <= faults'
  BY <1>1, <1>5, <1>6, LostIsFinite, LossIsPaid
<1> QED
  BY <1>1, <1>3, <1>4, <1>7 DEF LossInv, Claims, Lost

\* The request h gives its document up: that is in the graph now, or a fault more.
LEMMA LossLeaves ==
    ASSUME SbomInv, LossInv, NEW h \in Handlers, NEW j, Keeps(h, j), UNCHANGED documents,
           job[h].step \in Mirroring, j.step \notin Mirroring, GraphGrows,
           \/ IsMirroredNext(job[h].document) /\ faults' = faults
           \/ faults' = faults + 1
    PROVE  LossInv'
<1>1. PICK own : own \in [Pending -> DOMAIN documents] /\ Claims(own) /\ Cardinality(Lost(own)) <= faults
  BY DEF LossInv
<1>2. \A k \in Handlers : job'[k] = IF k = h THEN j ELSE job[k]
  BY OneSteps DEF Keeps
<1>3. h \in Pending /\ Pending' = Pending \ {h}
  BY <1>2 DEF Pending
<1>4. PICK rest : rest = [k \in Pending \ {h} |-> own[k]]
  OBVIOUS
<1>5. Claims(rest)'
  <2>1. rest \in [Pending' -> DOMAIN documents']
    BY <1>1, <1>3, <1>4
  <2>2. \A k \in Pending' : k # h /\ k \in Pending /\ rest[k] = own[k]
    BY <1>3, <1>4
  <2>3. \A k \in Pending' : k \in Handlers /\ job'[k] = job[k]
    BY <1>2, <2>2 DEF Pending
  <2>4. \A k \in Pending' : documents'[rest[k]] = job'[k].document
    BY <1>1, <2>2, <2>3 DEF Claims
  <2>5. \A k, l \in Pending' : rest[k] = rest[l] => k = l
    BY <1>1, <2>2 DEF Claims
  <2> QED
    BY <2>1, <2>4, <2>5 DEF Claims
<1>6. PICK d : d = own[h]
  OBVIOUS
<1>7. Lost(rest)' \subseteq Lost(own) \cup {d}
  BY <1>3, <1>4, <1>6, MirroredStays DEF Lost, Unmirrored
<1>8. faults' \in Nat /\ faults \in Nat
  BY DEF Keeps, SbomInv
<1>9. ASSUME faults' = faults + 1 PROVE Cardinality(Lost(rest)') <= faults'
  BY <1>1, <1>7, <1>8, <1>9, LostIsFinite, LossIsPaid
<1>10. ASSUME IsMirroredNext(job[h].document), faults' = faults
       PROVE  Cardinality(Lost(rest)') <= faults'
  <2>1. PICK document : document = job[h].document
    OBVIOUS
  <2>2. documents[d] = document
    BY <1>1, <1>3, <1>6, <2>1 DEF Claims
  <2>3. IsMirrored(documents[d])'
    BY <1>10, <2>1, <2>2 DEF IsMirroredNext
  <2>4. Lost(rest)' \subseteq Lost(own)
    BY <1>7, <2>3 DEF Lost, Unmirrored
  <2> QED
    BY <1>1, <1>8, <1>10, <2>4, LostIsFinite, LossIsPaid
<1>11. Cardinality(Lost(rest)') <= faults'
  BY <1>9, <1>10
<1> QED
  BY <1>5, <1>11 DEF LossInv, Claims, Lost

\* A request that has committed claims the document it appended.
LEMMA LossEnters ==
    ASSUME SbomInv, LossInv, NEW h \in Handlers, Commit(h)
    PROVE  LossInv'
<1>1. PICK own : own \in [Pending -> DOMAIN documents] /\ Claims(own) /\ Cardinality(Lost(own)) <= faults
  BY DEF LossInv
<1>2. PICK s : s = job[h]
  OBVIOUS
<1>3. PICK n \in Nat : n = Len(documents)
  BY <1>2, StepCommit
<1>4. /\ DOMAIN documents = 1..n /\ DOMAIN documents' = 1..n + 1
      /\ documents'[n + 1] = s.document
  BY <1>2, <1>3, StepCommit
<1>5. PICK j : Keeps(h, j) /\ j.step = "summary" /\ j.document = s.document
  BY <1>2, StepCommit
<1>6. \A k \in Handlers : job'[k] = IF k = h THEN j ELSE job[k]
  BY <1>5, OneSteps DEF Keeps
<1>7. \A d \in 1..n : documents'[d] = documents[d]
  BY <1>4, <1>5 DEF Keeps, Grows
<1>8. h \notin Pending /\ Pending' = Pending \cup {h}
  BY <1>5, <1>6 DEF Pending, Mirroring, Commit
<1>9. PICK more : more = [k \in Pending \cup {h} |-> IF k = h THEN n + 1 ELSE own[k]]
  OBVIOUS
<1>10. Claims(more)'
  <2>1. \A k \in Pending : more[k] = own[k] /\ own[k] \in 1..n /\ k # h /\ k \in Handlers
    BY <1>1, <1>4, <1>8, <1>9 DEF Pending
  <2>2. more[h] = n + 1
    BY <1>9
  <2>3. more \in [Pending' -> DOMAIN documents']
    BY <1>4, <1>8, <1>9, <2>1
  <2>4. \A k \in Pending : documents'[more[k]] = job'[k].document
    BY <1>1, <1>6, <1>7, <2>1 DEF Claims
  <2>5. documents'[more[h]] = job'[h].document
    BY <1>4, <1>5, <1>6, <2>2
  <2>6. \A k \in Pending : more[k] # more[h]
    BY <2>1, <2>2
  <2>7. \A k, l \in Pending : more[k] = more[l] => k = l
    BY <1>1, <2>1 DEF Claims
  <2> QED
    BY <1>8, <2>3, <2>4, <2>5, <2>6, <2>7 DEF Claims
<1>11. Lost(more)' \subseteq Lost(own)
  <2>1. graph' = graph
    BY DEF Commit
  <2>2. ASSUME NEW d \in Lost(more)' PROVE d \in Lost(own)
    <3>1. d \in 1..n + 1 /\ ~IsMirrored(documents[d])' /\ \A k \in Pending' : more[k] # d
      BY <1>4 DEF Lost, Unmirrored
    <3>2. d \in 1..n
      BY <1>8, <1>9, <3>1
    <3>3. PICK document : document = documents[d]
      OBVIOUS
    <3>4. ~IsMirrored(document)
      <4>1. document = documents'[d]
        BY <1>7, <3>2, <3>3
      <4> QED
        BY <2>1, <3>1, <4>1 DEF IsMirrored
    <3>5. \A k \in Pending : own[k] # d
      BY <1>8, <1>9, <3>1
    <3> QED
      BY <1>4, <3>2, <3>3, <3>4, <3>5 DEF Lost, Unmirrored
  <2> QED
    BY <2>2
<1>12. faults' = faults /\ faults \in Nat
  BY DEF Commit, SbomInv
<1>13. Cardinality(Lost(more)') <= faults'
  BY <1>1, <1>11, <1>12, LostIsFinite, LossIsPaid
<1> QED
  BY <1>10, <1>13 DEF LossInv, Claims, Lost

\* An upsert adds to the graph, and mirrors the document it is made for.
LEMMA UpsertMirrors ==
    ASSUME NEW document, NEW tier,
           NEW u, u = UpsertVendorSubgraph(graph, document.vendor, tier, Range(document.scan))
    PROVE  /\ graph.provides \subseteq u.provides /\ graph.at_risk \subseteq u.at_risk
           /\ graph' = u => IsMirrored(document)'
<1>1. PICK scan : scan = Range(document.scan)
  OBVIOUS
<1>2. \A p : p \in u.provides <=>
         p \in graph.provides \/ \E s \in scan : p = <<document.vendor, s.component.purl>>
  BY <1>1, Upserts
<1>3. \A e : e \in u.at_risk <=>
         \/ e \in graph.at_risk
         \/ \E s \in scan : \E v \in s.vulnerabilities : e = <<s.component.purl, v.cve>>
  BY <1>1, Upserts
<1> QED
  BY <1>1, <1>2, <1>3 DEF IsMirrored

LEMMA LossMirror ==
    ASSUME SbomInv, LossInv, NEW h \in Handlers, Mirror(h)
    PROVE  LossInv'
<1>1. PICK s : s = job[h]
  OBVIOUS
<1>2. PICK u : u = UpsertVendorSubgraph(graph, s.document.vendor, s.tier, Range(s.document.scan))
  OBVIOUS
<1>3. UNCHANGED documents /\ ((graph' = u /\ UNCHANGED faults) \/ (Fault /\ graph' \in {graph, u}))
  BY <1>1, <1>2, StepMirror
<1>4. PICK j : Keeps(h, j) /\ j.step = "event"
  BY <1>1, <1>2, StepMirror
<1>5. job[h].step \in Mirroring /\ j.step \notin Mirroring
  BY <1>4 DEF Mirror, Mirroring
<1>6. PICK document : document = s.document
  OBVIOUS
<1>7. /\ graph.provides \subseteq u.provides /\ graph.at_risk \subseteq u.at_risk
      /\ graph' = u => IsMirrored(document)'
  BY <1>2, <1>6, UpsertMirrors
<1>8. GraphGrows
  BY <1>3, <1>7 DEF GraphGrows
<1>9. (IsMirroredNext(job[h].document) /\ faults' = faults) \/ faults' = faults + 1
  BY <1>1, <1>3, <1>6, <1>7, FaultCounts DEF IsMirroredNext
<1> QED
  BY <1>3, <1>4, <1>5, <1>8, <1>9, LossLeaves

\* A step that leaves rows, graph and requests alone.
LEMMA LossKept ==
    ASSUME LossInv, UNCHANGED <<documents, graph, job, faults>>
    PROVE  LossInv'
<1>1. PICK own : own \in [Pending -> DOMAIN documents] /\ Claims(own) /\ Cardinality(Lost(own)) <= faults
  BY DEF LossInv
<1>2. Pending' = Pending
  BY DEF Pending
<1>3. Claims(own)'
  BY <1>1, <1>2 DEF Claims
<1>4. Unmirrored' = Unmirrored
  BY DEF Unmirrored, IsMirrored
<1>5. Lost(own)' = Lost(own)
  BY <1>2, <1>4 DEF Lost
<1>6. Cardinality(Lost(own)') <= faults'
  BY <1>1, <1>5
<1> QED
  BY <1>3, <1>6 DEF LossInv, Claims, Lost

LEMMA LossNext == SbomInv /\ LossInv /\ [Next]_vars => LossInv'
<1> SUFFICES ASSUME SbomInv, LossInv, [Next]_vars PROVE LossInv'
  OBVIOUS
<1>1. Fault => faults' >= faults
  BY FaultCounts DEF SbomInv
<1>2. faults >= faults
  BY DEF SbomInv
<1>3. ASSUME NEW h \in Handlers, Ingest(h) PROVE LossInv'
  <2>1. UNCHANGED <<documents, graph, faults>> /\ job[h].step = "idle"
    BY <1>3, StepIngest
  <2>2. PICK j : Keeps(h, j) /\ j.step = "commit"
    BY <1>3, StepIngest
  <2> QED
    BY <1>2, <2>1, <2>2, LossStays DEF GraphGrows, Mirroring
<1>4. ASSUME NEW h \in Handlers, Reject(h) PROVE LossInv'
  BY <1>4, StepReject, LossKept
<1>5. ASSUME NEW h \in Handlers, ReadSummary(h) PROVE LossInv'
  <2>1. PICK s : s = job[h]
    OBVIOUS
  <2>2. PICK j : Keeps(h, j) /\ j.step = "mirror" /\ j.document = s.document
    BY <1>5, <2>1, StepReadSummary
  <2>3. UNCHANGED <<documents, graph>> /\ faults' >= faults /\ job[h].step = "summary"
    BY <1>1, <1>2, <1>5 DEF ReadSummary
  <2> QED
    BY <2>1, <2>2, <2>3, LossStays DEF GraphGrows, Mirroring
<1>6. ASSUME NEW h \in Handlers, PublishIngestion(h) \/ PublishAlert(h) PROVE LossInv'
  <2>1. UNCHANGED <<documents, graph>> /\ faults' >= faults /\ job[h].step \in {"event", "alerts"}
    BY <1>1, <1>2, <1>6, StepPublishes
  <2>2. PICK j : Keeps(h, j) /\ j.step = "alerts"
    BY <1>6, StepPublishes
  <2> QED
    BY <2>1, <2>2, LossStays DEF GraphGrows, Mirroring
<1>7. ASSUME NEW h \in Handlers, Respond(h) \/ CutOff(h) PROVE LossInv'
  <2>1. /\ UNCHANGED <<documents, graph>> /\ Keeps(h, Idle)
        /\ (job[h].step = "alerts" /\ UNCHANGED faults) \/ Fault
    BY <1>7, StepEnds
  <2>2. Idle.step \notin Mirroring
    BY DEF Idle, Mirroring
  <2>3. CASE job[h].step \in Mirroring
    BY <2>1, <2>2, <2>3, FaultCounts, LossLeaves DEF GraphGrows, Mirroring
  <2>4. CASE job[h].step \notin Mirroring
    BY <1>1, <1>2, <2>1, <2>2, <2>4, LossStays DEF GraphGrows
  <2> QED
    BY <2>3, <2>4
<1>8. CASE Retier \/ UNCHANGED vars
  BY <1>8, StepOther, LossKept
<1> QED
  BY <1>3, <1>4, <1>5, <1>6, <1>7, <1>8, LossEnters, LossMirror DEF Next, Quiescent, Step

LEMMA LossInit == Init => LossInv
<1> SUFFICES ASSUME Init PROVE LossInv
  OBVIOUS
<1>1. documents = <<>> /\ job = [h \in Handlers |-> Idle] /\ faults = 0
  BY DEF Init
<1>2. Pending = {}
  BY <1>1 DEF Pending, Idle, Mirroring
<1>3. PICK own : own = [h \in {} |-> h]
  OBVIOUS
<1>4. own \in [Pending -> DOMAIN documents] /\ Claims(own)
  BY <1>2, <1>3 DEF Claims
<1>5. Lost(own) = {}
  BY <1>1 DEF Lost, Unmirrored
<1>6. Cardinality(Lost(own)) <= faults
  BY <1>1, <1>5, FS_EmptySet
<1> QED
  BY <1>4, <1>6 DEF LossInv

\* ingest_sbom commits before it mirrors, and gives up when that fails: each document
\* the graph lacks is still to be mirrored by a request, or one fault more: requests
\* that overlap lose none of each other's.
THEOREM LossesArePaid == Spec => []OneDocumentPerFault
<1>1. SbomInv /\ LossInv => OneDocumentPerFault
  <2> SUFFICES ASSUME SbomInv, LossInv PROVE OneDocumentPerFault
    OBVIOUS
  <2>1. PICK own : own \in [Pending -> DOMAIN documents] /\ Claims(own) /\ Cardinality(Lost(own)) <= faults
    BY DEF LossInv
  <2>2. PICK claimed : claimed = {own[h] : h \in Pending}
    OBVIOUS
  <2>3. claimed \subseteq DOMAIN documents /\ IsFiniteSet(claimed)
    BY <2>1, <2>2, LostIsFinite, FS_Subset
  <2>4. IsFiniteSet(Lost(own)) /\ faults \in Nat
    BY LostIsFinite DEF SbomInv
  <2>5. Unmirrored \subseteq Lost(own) \cup claimed
    BY <2>2 DEF Lost
  <2>6. own \in Injection(Pending, claimed) /\ own \in Surjection(Pending, claimed)
    <3>1. own \in [Pending -> claimed]
      BY <2>1, <2>2
    <3>2. \A a, b \in Pending : own[a] = own[b] => a = b
      BY <2>1 DEF Claims
    <3>3. \A t \in claimed : \E a \in Pending : own[a] = t
      BY <2>2
    <3> QED
      BY <3>1, <3>2, <3>3 DEF Injection, IsInjective, Surjection
  <2>7. Cardinality(Pending) = Cardinality(claimed)
    BY <2>3, <2>6, FS_Injection
  <2>8. Cardinality(Unmirrored) <= Cardinality(Lost(own)) + Cardinality(claimed)
    <3>1. IsFiniteSet(Lost(own) \cup claimed)
      BY <2>3, <2>4, FS_Union
    <3>2. /\ Cardinality(Lost(own) \cup claimed) \in Nat /\ Cardinality(Lost(own)) \in Nat
          /\ Cardinality(claimed) \in Nat /\ Cardinality(Lost(own) \cap claimed) \in Nat
      BY <2>3, <2>4, <3>1, FS_CardinalityType, FS_Intersection
    <3>3. Cardinality(Lost(own) \cup claimed)
             = Cardinality(Lost(own)) + Cardinality(claimed) - Cardinality(Lost(own) \cap claimed)
      BY <2>3, <2>4, FS_Union
    <3>4. Cardinality(Unmirrored) <= Cardinality(Lost(own) \cup claimed) /\ IsFiniteSet(Unmirrored)
      BY <2>5, <3>1, FS_Subset
    <3>5. Cardinality(Unmirrored) \in Nat
      BY <3>4, FS_CardinalityType
    <3> QED
      BY <3>2, <3>3, <3>4, <3>5
  <2>9. /\ Cardinality(Unmirrored) \in Nat /\ Cardinality(Lost(own)) \in Nat
        /\ Cardinality(claimed) \in Nat
    <3>1. IsFiniteSet(Unmirrored)
      BY LostIsFinite, FS_Subset DEF Unmirrored
    <3> QED
      BY <2>3, <2>4, <3>1, FS_CardinalityType
  <2>10. Cardinality(Unmirrored) <= faults + Cardinality(Pending)
    BY <2>1, <2>4, <2>7, <2>8, <2>9
  <2> QED
    BY <2>10 DEF OneDocumentPerFault, Unmirrored, Pending, Mirroring
<1> QED
  BY <1>1, AlwaysSbomInv, LossInit, LossNext, SbomNext, SbomInit, PTL DEF Spec

------------------------------------------------------------------------------
(* Counting what sequences hold about a CVE of a vendor.                   *)

Abouts(s, vendor, cve) == {i \in DOMAIN s : IsAbout(s[i], vendor, cve)}
CountAbout(s, vendor, cve) == Cardinality(Abouts(s, vendor, cve))

LEMMA AboutsFinite ==
    ASSUME NEW M, NEW s \in Seq(M), NEW v, NEW c
    PROVE  /\ DOMAIN s = 1..Len(s) /\ Len(s) \in Nat
           /\ IsFiniteSet(Abouts(s, v, c)) /\ CountAbout(s, v, c) \in Nat
<1>1. DOMAIN s = 1..Len(s) /\ Len(s) \in Nat
  BY LenProperties
<1>2. IsFiniteSet(1..Len(s))
  BY <1>1, FS_Interval
<1>3. Abouts(s, v, c) \subseteq 1..Len(s)
  BY <1>1 DEF Abouts
<1>4. PICK S : S = Abouts(s, v, c)
  OBVIOUS
<1>5. IsFiniteSet(S) /\ Cardinality(S) \in Nat
  BY <1>2, <1>3, <1>4, FS_Subset, FS_CardinalityType
<1> QED
  BY <1>1, <1>4, <1>5 DEF CountAbout

\* Moving numbers up does not change how many there are.
LEMMA ShiftCounts ==
    ASSUME NEW S \in SUBSET Nat, IsFiniteSet(S), NEW n \in Nat
    PROVE  /\ IsFiniteSet({n + i : i \in S})
           /\ Cardinality({n + i : i \in S}) = Cardinality(S)
<1>1. PICK T : T = {n + i : i \in S}
  OBVIOUS
<1>2. PICK f : f = [i \in S |-> n + i]
  OBVIOUS
<1>3. f \in [S -> T] /\ \A i, j \in S : f[i] = f[j] => i = j
  BY <1>1, <1>2
<1>4. \A t \in T : \E i \in S : f[i] = t
  BY <1>1, <1>2
<1>5. f \in Injection(S, T) /\ f \in Surjection(S, T)
  BY <1>3, <1>4 DEF Injection, IsInjective, Surjection
<1>6. IsFiniteSet(T) /\ Cardinality(T) = Cardinality(S)
  BY <1>5, FS_Surjection
<1> QED
  BY <1>1, <1>6

LEMMA AboutsConcat ==
    ASSUME NEW M, NEW s \in Seq(M), NEW t \in Seq(M), NEW v, NEW c
    PROVE  /\ s \o t \in Seq(M)
           /\ CountAbout(s \o t, v, c) = CountAbout(s, v, c) + CountAbout(t, v, c)
<1>1. PICK u : u = s \o t
  OBVIOUS
<1>2. PICK n \in Nat : n = Len(s)
  BY LenProperties
<1>3. PICK m \in Nat : m = Len(t)
  BY LenProperties
<1>4. /\ u \in Seq(M) /\ Len(u) = n + m
      /\ \A i \in 1..n + m : u[i] = IF i <= n THEN s[i] ELSE t[i - n]
  BY <1>1, <1>2, <1>3, ConcatProperties
<1>5. DOMAIN u = 1..n + m /\ DOMAIN s = 1..n /\ DOMAIN t = 1..m
  BY <1>2, <1>3, <1>4, LenProperties
<1>6. PICK S : S = Abouts(s, v, c)
  OBVIOUS
<1>7. PICK T : T = Abouts(t, v, c)
  OBVIOUS
<1>8. PICK R : R = {n + i : i \in T}
  OBVIOUS
<1>9. S \subseteq 1..n /\ T \subseteq 1..m /\ IsFiniteSet(S) /\ IsFiniteSet(T)
  <2>1. S \subseteq 1..n /\ T \subseteq 1..m
    BY <1>5, <1>6, <1>7 DEF Abouts
  <2>2. IsFiniteSet(Abouts(s, v, c)) /\ IsFiniteSet(Abouts(t, v, c))
    BY AboutsFinite
  <2> QED
    BY <1>6, <1>7, <2>1, <2>2
<1>10. IsFiniteSet(R) /\ Cardinality(R) = Cardinality(T)
  <2>1. T \in SUBSET Nat
    BY <1>9
  <2> QED
    BY <1>8, <1>9, <2>1, ShiftCounts
<1>11. Abouts(u, v, c) = S \cup R
  <2>1. ASSUME NEW i \in Abouts(u, v, c) PROVE i \in S \cup R
    <3>1. i \in 1..n + m /\ IsAbout(u[i], v, c)
      BY <1>5 DEF Abouts
    <3>2. CASE i <= n
      <4>1. i \in 1..n /\ u[i] = s[i]
        BY <1>4, <3>1, <3>2
      <4> QED
        BY <1>5, <1>6, <3>1, <4>1 DEF Abouts
    <3>3. CASE ~(i <= n)
      <4>1. i - n \in 1..m /\ u[i] = t[i - n] /\ i = n + (i - n)
        BY <1>4, <3>1, <3>3
      <4>2. i - n \in T
        BY <1>5, <1>7, <3>1, <4>1 DEF Abouts
      <4> QED
        BY <1>8, <4>1, <4>2
    <3> QED
      BY <3>2, <3>3
  <2>2. ASSUME NEW i \in S PROVE i \in Abouts(u, v, c)
    <3>1. i \in 1..n /\ IsAbout(s[i], v, c)
      BY <1>5, <1>6 DEF Abouts
    <3>2. i \in 1..n + m /\ u[i] = s[i]
      BY <1>4, <3>1
    <3> QED
      BY <1>5, <3>1, <3>2 DEF Abouts
  <2>3. ASSUME NEW j \in T PROVE n + j \in Abouts(u, v, c)
    <3>1. j \in 1..m /\ IsAbout(t[j], v, c)
      BY <1>5, <1>7 DEF Abouts
    <3>2. PICK i \in Nat : i = n + j
      BY <3>1
    <3>3. i \in 1..n + m /\ ~(i <= n) /\ i - n = j
      BY <3>1, <3>2
    <3>4. u[i] = t[j]
      BY <1>4, <3>3
    <3> QED
      BY <1>5, <3>1, <3>2, <3>3, <3>4 DEF Abouts
  <2>4. ASSUME NEW i \in R PROVE i \in Abouts(u, v, c)
    <3>1. PICK j \in T : i = n + j
      BY <1>8
    <3> QED
      BY <2>3, <3>1
  <2>5. Abouts(u, v, c) \subseteq S \cup R
    BY <2>1
  <2>6. S \cup R \subseteq Abouts(u, v, c)
    BY <2>2, <2>4
  <2> QED
    BY <2>5, <2>6
<1>12. S \cap R = {}
  <2>1. \A i \in S : i \in Nat /\ i <= n
    BY <1>9
  <2>2. ASSUME NEW i \in R PROVE ~(i <= n)
    <3>1. PICK j \in T : i = n + j
      BY <1>8
    <3>2. j \in Nat /\ j >= 1
      BY <1>9
    <3> QED
      BY <3>1, <3>2
  <2> QED
    BY <2>1, <2>2
<1>13. Cardinality(S) \in Nat /\ Cardinality(R) \in Nat
  BY <1>9, <1>10, FS_CardinalityType
<1>14. Cardinality(S \cup R) = Cardinality(S) + Cardinality(R)
  <2>1. Cardinality(S \cup R) = Cardinality(S) + Cardinality(R) - Cardinality(S \cap R)
    BY <1>9, <1>10, FS_Union
  <2>2. Cardinality(S \cap R) = 0
    BY <1>12, FS_EmptySet
  <2> QED
    BY <1>13, <2>1, <2>2
<1> QED
  BY <1>1, <1>4, <1>6, <1>7, <1>10, <1>11, <1>14 DEF CountAbout

LEMMA AboutsOne ==
    ASSUME NEW M, NEW m \in M, NEW v, NEW c
    PROVE  /\ <<m>> \in Seq(M)
           /\ CountAbout(<<m>>, v, c) = IF IsAbout(m, v, c) THEN 1 ELSE 0
<1>1. PICK s : s = <<m>>
  OBVIOUS
<1>2. s \in Seq(M) /\ DOMAIN s = {1} /\ s[1] = m
  BY <1>1
<1>3. Abouts(s, v, c) = IF IsAbout(m, v, c) THEN {1} ELSE {}
  BY <1>2 DEF Abouts
<1>4. Cardinality({}) = 0 /\ Cardinality({1}) = 1
  BY FS_EmptySet, FS_Singleton
<1> QED
  BY <1>1, <1>2, <1>3, <1>4 DEF CountAbout

LEMMA AboutsNone ==
    ASSUME NEW v, NEW c PROVE CountAbout(<<>>, v, c) = 0
<1>1. Abouts(<<>>, v, c) = {}
  BY DEF Abouts
<1> QED
  BY <1>1, FS_EmptySet DEF CountAbout

LEMMA AboutsTail ==
    ASSUME NEW M, NEW s \in Seq(M), s # <<>>, NEW v, NEW c
    PROVE  /\ Head(s) \in M /\ Tail(s) \in Seq(M)
           /\ CountAbout(s, v, c)
                 = (IF IsAbout(Head(s), v, c) THEN 1 ELSE 0) + CountAbout(Tail(s), v, c)
<1>1. PICK m : m = Head(s)
  OBVIOUS
<1>2. PICK t : t = Tail(s)
  OBVIOUS
<1>3. m \in M /\ t \in Seq(M)
  BY <1>1, <1>2, HeadTailProperties
<1>4. <<m>> \o t = s
  BY <1>1, <1>2
<1>5. PICK one : one = <<m>>
  OBVIOUS
<1>6. one \in Seq(M) /\ CountAbout(one, v, c) = IF IsAbout(m, v, c) THEN 1 ELSE 0
  BY <1>3, <1>5, AboutsOne
<1>7. CountAbout(one \o t, v, c) = CountAbout(one, v, c) + CountAbout(t, v, c)
  BY <1>3, <1>6, AboutsConcat
<1> QED
  BY <1>1, <1>2, <1>3, <1>4, <1>5, <1>6, <1>7

------------------------------------------------------------------------------
(* The sequences the alerts are put together from.                         *)

\* Every nonempty set of naturals has a least element.
LEMMA LeastOf ==
    ASSUME NEW T, T \subseteq Nat, T # {}
    PROVE  \E x \in T : \A y \in T : x <= y
<1> DEFINE R == {ss \in Nat \X Nat : ss[1] < ss[2]}
<1>1. IsWellFoundedOn(R, Nat)
  BY NatLessThanWellFounded DEF OpToRel
<1>2. PICK x \in T : \A y \in T : ~ (<<y, x>> \in R)
  <2> HIDE DEF R
  <2> QED
    BY <1>1, WFMin
<1>3. \A y \in T : ~(y < x)
  BY <1>2
<1> QED
  BY <1>2, <1>3

\* The function FlattenSeq defines: the sequences up to each, put together.
IsFlatten(f, seqs, n) ==
    f = [i \in 1..n |-> IF i = 1 THEN seqs[i] ELSE f[i - 1] \o seqs[i]]

LEMMA FlattenExists ==
    ASSUME NEW n \in Nat, NEW seqs
    PROVE  \E f : IsFlatten(f, seqs, n)
<1> DEFINE Bad == {k \in Nat : ~ \E f : IsFlatten(f, seqs, k)}
<1>1. CASE n \notin Bad
  BY <1>1
<1>2. CASE n \in Bad
  <2>1. PICK k \in Bad : \A m \in Bad : k <= m
    <3>1. Bad \subseteq Nat /\ Bad # {}
      BY <1>2
    <3> HIDE DEF Bad
    <3> QED
      BY <3>1, LeastOf
  <2>2. k \in Nat /\ ~ \E f : IsFlatten(f, seqs, k)
    BY <2>1
  <2>3. k # 0
    <3>1. IsFlatten([i \in 1..0 |-> i], seqs, 0)
      BY DEF IsFlatten
    <3> QED
      BY <2>2, <3>1
  <2>4. PICK m \in Nat : k = m + 1
    BY <2>2, <2>3
  <2>5. PICK f : IsFlatten(f, seqs, m)
    <3>1. m \notin Bad
      BY <2>1, <2>4
    <3> QED
      BY <3>1
  <2>6. PICK last : last = IF k = 1 THEN seqs[k] ELSE f[m] \o seqs[k]
    OBVIOUS
  <2>7. PICK g : g = [i \in 1..k |-> IF i = k THEN last ELSE f[i]]
    OBVIOUS
  <2>8. ASSUME NEW i \in 1..k
        PROVE  g[i] = IF i = 1 THEN seqs[i] ELSE g[i - 1] \o seqs[i]
    <3>1. CASE i = k
      <4>1. CASE k = 1
        BY <2>6, <2>7, <3>1, <4>1
      <4>2. CASE k # 1
        <5>1. i - 1 = m /\ m \in 1..k /\ m # k
          BY <2>4, <3>1, <4>2
        <5>2. g[m] = f[m] /\ g[k] = last
          BY <2>7, <3>1, <5>1
        <5> QED
          BY <2>6, <3>1, <4>2, <5>1, <5>2
      <4> QED
        BY <4>1, <4>2
    <3>2. CASE i # k
      <4>1. i \in 1..m /\ g[i] = f[i]
        BY <2>4, <2>7, <3>2
      <4>2. f[i] = IF i = 1 THEN seqs[i] ELSE f[i - 1] \o seqs[i]
        BY <2>5, <4>1 DEF IsFlatten
      <4>3. i # 1 => g[i - 1] = f[i - 1]
        BY <2>4, <2>7, <4>1
      <4> QED
        BY <4>1, <4>2, <4>3
    <3> QED
      BY <3>1, <3>2
  <2>9. IsFlatten(g, seqs, k)
    BY <2>7, <2>8 DEF IsFlatten
  <2> QED
    BY <2>2, <2>9
<1> QED
  BY <1>1, <1>2

\* A sequence of sequences holds as many messages about a CVE as there are sequences
\* with one, when none has more.
LEMMA FlattenCounts ==
    ASSUME NEW M, NEW seqs \in Seq(Seq(M)), NEW v, NEW c, NEW Hit,
           Hit \subseteq DOMAIN seqs,
           \A i \in DOMAIN seqs : CountAbout(seqs[i], v, c) = IF i \in Hit THEN 1 ELSE 0
    PROVE  /\ FlattenSeq(seqs) \in Seq(M)
           /\ CountAbout(FlattenSeq(seqs), v, c) = Cardinality(Hit)
<1>1. PICK n \in Nat : n = Len(seqs)
  BY LenProperties
<1>2. DOMAIN seqs = 1..n /\ \A i \in 1..n : seqs[i] \in Seq(M)
  BY <1>1, LenProperties
<1> DEFINE Upto(k) == {i \in 1..k : i \in Hit}
<1>3. \A k \in Nat : IsFiniteSet(Upto(k)) /\ Cardinality(Upto(k)) \in Nat
  <2> SUFFICES ASSUME NEW k \in Nat PROVE IsFiniteSet(Upto(k)) /\ Cardinality(Upto(k)) \in Nat
    OBVIOUS
  <2>1. IsFiniteSet(1..k)
    BY FS_Interval
  <2>2. PICK S : S = Upto(k)
    OBVIOUS
  <2>3. S \subseteq 1..k
    BY <2>2
  <2>4. IsFiniteSet(S) /\ Cardinality(S) \in Nat
    BY <2>1, <2>3, FS_Subset, FS_CardinalityType
  <2> QED
    BY <2>2, <2>4
<1>4. ASSUME NEW k \in Nat
      PROVE  Cardinality(Upto(k + 1)) = Cardinality(Upto(k)) + IF k + 1 \in Hit THEN 1 ELSE 0
  <2>1. CASE k + 1 \in Hit
    <3>1. Upto(k + 1) = Upto(k) \cup {k + 1} /\ k + 1 \notin Upto(k)
      BY <2>1
    <3>2. PICK S : S = Upto(k)
      OBVIOUS
    <3>3. PICK x : x = k + 1
      OBVIOUS
    <3>4. Cardinality(S \cup {x}) = Cardinality(S) + 1
      BY <1>3, <3>1, <3>2, <3>3, FS_AddElement
    <3> QED
      BY <2>1, <3>1, <3>2, <3>3, <3>4
  <2>2. CASE k + 1 \notin Hit
    <3>1. Upto(k + 1) = Upto(k)
      BY <2>2
    <3>2. PICK u \in Nat : u = Cardinality(Upto(k))
      BY <1>3
    <3>3. Cardinality(Upto(k + 1)) = u
      BY <3>1, <3>2
    <3>4. u = u + IF k + 1 \in Hit THEN 1 ELSE 0
      BY <2>2, <3>2
    <3> QED
      BY <3>2, <3>3, <3>4
  <2> QED
    BY <2>1, <2>2
<1>5. Upto(0) = {} /\ Cardinality(Upto(0)) = 0
  <2>1. Upto(0) = {}
    OBVIOUS
  <2> QED
    BY <2>1, FS_EmptySet
<1>6. CASE n = 0
  <2>1. FlattenSeq(seqs) = seqs /\ seqs = <<>>
    BY <1>1, <1>6, EmptySeq DEF FlattenSeq
  <2>2. <<>> \in Seq(M) /\ CountAbout(<<>>, v, c) = 0
    BY AboutsNone
  <2>3. Hit = Upto(0)
    BY <1>2, <1>6
  <2> QED
    BY <1>5, <2>1, <2>2, <2>3
<1>7. CASE n # 0
  <2>1. PICK f : f = CHOOSE g : g = [i \in 1..n |-> IF i = 1 THEN seqs[i] ELSE g[i - 1] \o seqs[i]]
    OBVIOUS
  <2>2. FlattenSeq(seqs) = f[n]
    BY <1>1, <1>7, <2>1 DEF FlattenSeq
  <2>3. IsFlatten(f, seqs, n)
    BY <2>1, FlattenExists DEF IsFlatten
  <2> DEFINE Sound(k) == f[k] \in Seq(M) /\ CountAbout(f[k], v, c) = Cardinality(Upto(k))
             Bad == {k \in 1..n : ~Sound(k)}
  <2>4. CASE n \notin Bad
    <3>1. Sound(n)
      BY <1>7, <2>4
    <3>2. Hit = Upto(n)
      BY <1>2
    <3> QED
      BY <2>2, <3>1, <3>2
  <2>5. CASE n \in Bad
    <3>1. PICK k \in Bad : \A m \in Bad : k <= m
      <4>1. Bad # {}
        BY <2>5
      <4>2. Bad \subseteq 1..n
        <5> HIDE DEF Sound
        <5> QED
          OBVIOUS
      <4>3. Bad \subseteq Nat
        <5> HIDE DEF Bad
        <5> QED
          BY <4>2
      <4> HIDE DEF Bad
      <4> QED
        BY <4>1, <4>3, LeastOf
    <3>2. PICK m \in Nat : k = m + 1
      BY <3>1
    <3>3. /\ k \in 1..n /\ seqs[k] \in Seq(M)
          /\ CountAbout(seqs[k], v, c) = IF k \in Hit THEN 1 ELSE 0
      BY <1>2, <3>1
    <3>4. f[k] = IF k = 1 THEN seqs[k] ELSE f[m] \o seqs[k]
      <4>1. k - 1 = m
        BY <3>2
      <4> QED
        BY <2>3, <3>3, <4>1 DEF IsFlatten
    <3>5. Cardinality(Upto(k)) = Cardinality(Upto(m)) + IF k \in Hit THEN 1 ELSE 0
      BY <1>4, <3>2
    <3>6. CASE k = 1
      <4>1. m = 0
        BY <3>2, <3>6
      <4>2. Cardinality(Upto(k)) = IF k \in Hit THEN 1 ELSE 0
        BY <1>5, <3>5, <4>1
      <4>3. Sound(k)
        BY <3>3, <3>4, <3>6, <4>2
      <4> QED
        BY <3>1, <4>3
    <3>7. CASE k # 1
      <4>1. m \in 1..n /\ m \notin Bad
        <5>1. m \in 1..n /\ ~(k <= m)
          BY <3>2, <3>3, <3>7
        <5> HIDE DEF Bad
        <5> QED
          BY <3>1, <5>1
      <4>2. f[m] \in Seq(M) /\ CountAbout(f[m], v, c) = Cardinality(Upto(m))
        BY <4>1
      <4>3. f[k] = f[m] \o seqs[k]
        BY <3>4, <3>7
      <4>4. /\ f[k] \in Seq(M)
            /\ CountAbout(f[k], v, c) = CountAbout(f[m], v, c) + CountAbout(seqs[k], v, c)
        <5>1. PICK t : t = seqs[k]
          OBVIOUS
        <5>2. PICK u : u = f[m]
          OBVIOUS
        <5>3. u \o t \in Seq(M) /\ CountAbout(u \o t, v, c) = CountAbout(u, v, c) + CountAbout(t, v, c)
          BY <3>3, <4>2, <5>1, <5>2, AboutsConcat
        <5> QED
          BY <4>3, <5>1, <5>2, <5>3
      <4>5. Sound(k)
        BY <3>3, <3>5, <4>2, <4>4
      <4> QED
        BY <3>1, <4>5
    <3> QED
      BY <3>6, <3>7
  <2> QED
    BY <2>4, <2>5
<1> QED
  BY <1>6, <1>7

\* Each element of a set is once in the sequence made of it.
LEMMA SetToSeqCounts ==
    ASSUME NEW M, NEW S, S \subseteq M, IsFiniteSet(S), NEW v, NEW c
    PROVE  /\ SetToSeq(S) \in Seq(M)
           /\ CountAbout(SetToSeq(S), v, c) = Cardinality({m \in S : IsAbout(m, v, c)})
<1>1. PICK n \in Nat : n = Cardinality(S)
  BY FS_CardinalityType
<1>2. PICK s : s = SetToSeq(S)
  OBVIOUS
<1>3. \E f : f \in [1..n -> S] /\ IsInjective(f)
  <2>1. PICK f : f \in Bijection(1..n, S)
    BY <1>1, FS_CardinalityType DEF ExistsBijection
  <2>2. f \in [1..n -> S] /\ IsInjective(f)
    BY <2>1 DEF Bijection, Injection, IsInjective
  <2> QED
    BY <2>2
<1>4. s \in [1..n -> S] /\ IsInjective(s)
  <2>1. s = CHOOSE f \in [1..n -> S] : IsInjective(f)
    BY <1>1, <1>2 DEF SetToSeq
  <2> QED
    BY <1>3, <2>1
<1>5. s \in Surjection(1..n, S)
  <2>1. s \in Injection(1..n, S)
    BY <1>4 DEF Injection
  <2>2. IsFiniteSet(1..n) /\ Cardinality(1..n) = n
    BY FS_Interval
  <2> QED
    BY <1>1, <2>1, <2>2, FS_Injection
<1>6. s \in Seq(M) /\ DOMAIN s = 1..n
  BY <1>4
<1>7. PICK I : I = Abouts(s, v, c)
  OBVIOUS
<1>8. PICK T : T = {m \in S : IsAbout(m, v, c)}
  OBVIOUS
<1>9. I \subseteq 1..n /\ IsFiniteSet(I) /\ \A i \in 1..n : i \in I <=> IsAbout(s[i], v, c)
  BY <1>6, <1>7, AboutsFinite DEF Abouts
<1>10. PICK f : f = [i \in I |-> s[i]]
  OBVIOUS
<1>11. f \in [I -> T] /\ \A i, j \in I : f[i] = f[j] => i = j
  BY <1>4, <1>8, <1>9, <1>10 DEF IsInjective
<1>12. \A m \in T : \E i \in I : f[i] = m
  BY <1>5, <1>8, <1>9, <1>10 DEF Surjection
<1>13. f \in Injection(I, T) /\ f \in Surjection(I, T)
  BY <1>11, <1>12 DEF Injection, IsInjective, Surjection
<1>14. Cardinality(T) = Cardinality(I)
  BY <1>9, <1>13, FS_Surjection
<1> QED
  BY <1>2, <1>6, <1>7, <1>8, <1>14 DEF CountAbout

------------------------------------------------------------------------------
(* What a scan calls for.                                                  *)

\* A component has at most one vulnerability of a CVE.
LEMMA CvesAreUnique ==
    ASSUME NEW s, Scanned(s), NEW x \in s.vulnerabilities, NEW y \in s.vulnerabilities, x.cve = y.cve
    PROVE  x = y
<1> DEFINE name == s.component.name
           version == s.component.version
           found(cve) == LET kev == KevFetch(cve.id, name, version) IN
               [cve |-> cve.id, cvss |-> cve.cvss, severity |-> SeverityBand(cve.cvss),
                kev |-> kev, ssvc |-> SsvcPriority(cve.cvss, cve.vector, kev)]
<1>1. s.vulnerabilities = {found(cve) : cve \in Range(NvdFetch(name, version))}
  BY DEF Scanned, ScanComponent
<1>2. PICK a \in Range(NvdFetch(name, version)) : x = found(a)
  BY <1>1
<1>3. PICK b \in Range(NvdFetch(name, version)) : y = found(b)
  BY <1>1
<1>4. a.id = b.id
  BY <1>2, <1>3
<1>5. a = b
  <2>1. CASE IsPlanted(name, version)
    BY <2>1, <1>2, <1>3 DEF NvdFetch, Range
  <2>2. CASE ~IsPlanted(name, version)
    <3>1. <<name, version>> \in DOMAIN NvdDraws
      BY <2>2, <1>2 DEF NvdFetch, Range
    <3>2. NvdFetch(name, version) = NvdDraws[<<name, version>>]
      BY <2>2, <3>1 DEF NvdFetch
    <3> QED
      BY <1>2, <1>3, <1>4, <3>1, <3>2, ScannerAssumption
  <2> QED
    BY <2>1, <2>2
<1> QED
  BY <1>2, <1>3, <1>5

\* The images of a finite set under a function.
LEMMA ImageIsFinite ==
    ASSUME NEW S, IsFiniteSet(S), NEW f, DOMAIN f = S, NEW T, T = {f[x] : x \in S}
    PROVE  IsFiniteSet(T)
<1>1. PICK g : g = [x \in S |-> f[x]]
  OBVIOUS
<1>2. g \in [S -> T] /\ \A t \in T : \E x \in S : g[x] = t
  BY <1>1
<1>3. g \in Surjection(S, T)
  BY <1>2 DEF Surjection
<1> QED
  BY <1>3, FS_Surjection

LEMMA ScanIsFinite ==
    ASSUME NEW s, Scanned(s)
    PROVE  IsFiniteSet(s.vulnerabilities)
<1> DEFINE name == s.component.name
           version == s.component.version
           found(cve) == LET kev == KevFetch(cve.id, name, version) IN
               [cve |-> cve.id, cvss |-> cve.cvss, severity |-> SeverityBand(cve.cvss),
                kev |-> kev, ssvc |-> SsvcPriority(cve.cvss, cve.vector, kev)]
<1>1. PICK cves : cves = NvdFetch(name, version)
  OBVIOUS
<1>2. s.vulnerabilities = {found(cve) : cve \in Range(cves)}
  BY <1>1 DEF Scanned, ScanComponent
<1>3. \E n \in Nat : DOMAIN cves = 1..n
  <2>1. CASE IsPlanted(name, version)
    <3>1. DOMAIN cves = 1..1
      BY <1>1, <2>1 DEF NvdFetch
    <3> QED
      BY <3>1
  <2>2. CASE ~IsPlanted(name, version) /\ <<name, version>> \in DOMAIN NvdDraws
    <3>1. cves = NvdDraws[<<name, version>>]
      BY <1>1, <2>2 DEF NvdFetch
    <3> QED
      BY <2>2, <3>1, ScannerAssumption
  <2>3. CASE ~IsPlanted(name, version) /\ <<name, version>> \notin DOMAIN NvdDraws
    <3>1. DOMAIN cves = 1..0
      BY <1>1, <2>3 DEF NvdFetch
    <3> QED
      BY <3>1
  <2> QED
    BY <2>1, <2>2, <2>3
<1>4. IsFiniteSet(DOMAIN cves)
  BY <1>3, FS_Interval
<1> HIDE DEF found
<1>5. PICK f : f = [i \in DOMAIN cves |-> found(cves[i])]
  OBVIOUS
<1>6. s.vulnerabilities = {f[i] : i \in DOMAIN cves}
  BY <1>2, <1>5 DEF Range
<1> QED
  BY <1>4, <1>5, <1>6, ImageIsFinite

\* The components of a document that call for an alert on a CVE.
FindingsIn(document, cve) ==
    {i \in DOMAIN document.scan :
        \E x \in CriticalVulnerabilities(document.scan[i]) : x.cve = cve}
AlertOn(vendor, x) ==
    [kind |-> "cve", vendor |-> vendor, cve |-> x.cve, severity |-> x.severity, kev |-> x.kev]
AlertsOn(vendor, s) == {AlertOn(vendor, x) : x \in {y \in s.vulnerabilities : IsAlarming(y)}}

LEMMA AlertsOfComponent ==
    ASSUME NEW s, Scanned(s), NEW vendor, NEW v, NEW c
    PROVE  /\ IsFiniteSet(AlertsOn(vendor, s))
           /\ Cardinality({m \in AlertsOn(vendor, s) : IsAbout(m, v, c)})
                 = IF vendor = v /\ \E x \in CriticalVulnerabilities(s) : x.cve = c THEN 1 ELSE 0
<1>1. PICK A : A = {y \in s.vulnerabilities : IsAlarming(y)}
  OBVIOUS
<1>2. A = CriticalVulnerabilities(s)
  BY <1>1 DEF IsAlarming, CriticalVulnerabilities
<1>3. IsFiniteSet(A)
  BY <1>1, ScanIsFinite, FS_Subset
<1>4. PICK f : f = [x \in A |-> AlertOn(vendor, x)]
  OBVIOUS
<1>5. AlertsOn(vendor, s) = {f[x] : x \in A}
  BY <1>1, <1>4 DEF AlertsOn
<1>6. IsFiniteSet(AlertsOn(vendor, s))
  BY <1>3, <1>4, <1>5, ImageIsFinite
<1>7. PICK T : T = {m \in AlertsOn(vendor, s) : IsAbout(m, v, c)}
  OBVIOUS
<1>8. \A m : m \in T <=> \E x \in A : m = AlertOn(vendor, x) /\ IsAbout(m, v, c)
  BY <1>4, <1>5, <1>7
<1>9. \A x : IsAbout(AlertOn(vendor, x), v, c) <=> vendor = v /\ x.cve = c
  BY DEF IsAbout, AlertOn
<1>10. CASE vendor = v /\ \E x \in A : x.cve = c
  <2>1. PICK x \in A : x.cve = c
    BY <1>10
  <2>2. PICK m : m = AlertOn(vendor, x)
    OBVIOUS
  <2>3. m \in T
    BY <1>8, <1>9, <1>10, <2>1, <2>2
  <2>4. ASSUME NEW n \in T PROVE n = m
    <3>1. PICK y \in A : n = AlertOn(vendor, y) /\ IsAbout(n, v, c)
      BY <1>8
    <3>2. y.cve = c
      BY <1>9, <3>1
    <3>3. y = x
      BY <1>1, <2>1, <3>2, CvesAreUnique
    <3> QED
      BY <2>2, <3>1, <3>3
  <2>5. T = {m}
    BY <2>3, <2>4
  <2> QED
    BY <1>2, <1>6, <1>7, <1>10, <2>5, FS_Singleton
<1>11. CASE ~(vendor = v /\ \E x \in A : x.cve = c)
  <2>1. T = {}
    BY <1>8, <1>9, <1>11
  <2> QED
    BY <1>2, <1>6, <1>7, <1>11, <2>1, FS_EmptySet
<1> QED
  BY <1>10, <1>11

IsSequence(s) == \E M : s \in Seq(M)

\* A committed document calls for as many alerts on a CVE as it has components with it.
LEMMA AlertsOfDocument ==
    ASSUME NEW document \in Documents, NEW v, NEW c
    PROVE  LET alerts == CriticalAlerts(document.vendor, document.scan) IN
           /\ IsSequence(alerts)
           /\ IsFiniteSet(FindingsIn(document, c)) /\ Cardinality(FindingsIn(document, c)) \in Nat
           /\ CountAbout(alerts, v, c)
                 = IF document.vendor = v THEN Cardinality(FindingsIn(document, c)) ELSE 0
<1>1. PICK b \in Accepted : document = DocumentOf(b)
  BY DEF Documents
<1>2. PICK components : components = Parse(Bills[b]).components
  OBVIOUS
<1>3. PICK n \in Nat : DOMAIN components = 1..n
  BY <1>1, <1>2, ListAssumption DEF Accepted
<1>4. PICK scan : scan = document.scan
  OBVIOUS
<1>5. scan = ScanComponents(components)
  BY <1>1, <1>2, <1>4 DEF DocumentOf
<1>6. DOMAIN scan = 1..n
  BY <1>3, <1>5 DEF ScanComponents
<1>7. \A i \in 1..n : Scanned(scan[i])
  BY <1>4, <1>6, DocumentsScanned
<1>8. PICK vendor : vendor = document.vendor
  OBVIOUS
<1>9. PICK M : M = UNION {AlertsOn(vendor, scan[i]) : i \in 1..n}
  OBVIOUS
<1>10. PICK seqs : seqs = [i \in 1..n |-> SetToSeq(AlertsOn(vendor, scan[i]))]
  OBVIOUS
<1>11. CriticalAlerts(vendor, scan) = FlattenSeq(seqs)
  BY <1>6, <1>10 DEF CriticalAlerts, AlertsOn, AlertOn
<1>12. PICK Hit : Hit = IF vendor = v THEN FindingsIn(document, c) ELSE {}
  OBVIOUS
<1>13. ASSUME NEW i \in 1..n
       PROVE  /\ seqs[i] \in Seq(M)
              /\ CountAbout(seqs[i], v, c) = IF i \in Hit THEN 1 ELSE 0
  <2>1. PICK s : s = scan[i]
    OBVIOUS
  <2>2. PICK S : S = AlertsOn(vendor, s)
    OBVIOUS
  <2>3. /\ IsFiniteSet(S)
        /\ Cardinality({m \in S : IsAbout(m, v, c)})
              = IF vendor = v /\ \E x \in CriticalVulnerabilities(s) : x.cve = c THEN 1 ELSE 0
    <3>1. Scanned(s)
      BY <1>7, <2>1
    <3>2. /\ IsFiniteSet(AlertsOn(vendor, s))
          /\ Cardinality({m \in AlertsOn(vendor, s) : IsAbout(m, v, c)})
                = IF vendor = v /\ \E x \in CriticalVulnerabilities(s) : x.cve = c THEN 1 ELSE 0
      BY <3>1, AlertsOfComponent
    <3> QED
      BY <2>2, <3>2
  <2>4. S \subseteq M
    BY <1>9, <2>1, <2>2
  <2>5. SetToSeq(S) \in Seq(M) /\ CountAbout(SetToSeq(S), v, c) = Cardinality({m \in S : IsAbout(m, v, c)})
    BY <2>3, <2>4, SetToSeqCounts
  <2>6. i \in Hit <=> vendor = v /\ \E x \in CriticalVulnerabilities(s) : x.cve = c
    BY <1>4, <1>6, <1>12, <2>1 DEF FindingsIn
  <2> QED
    BY <1>10, <2>1, <2>2, <2>3, <2>5, <2>6
<1>14. seqs \in Seq(Seq(M)) /\ DOMAIN seqs = 1..n
  <2>1. \A i \in 1..n : seqs[i] \in Seq(M)
    BY <1>13
  <2>2. seqs \in [1..n -> Seq(M)]
    BY <1>10, <2>1
  <2> QED
    BY <1>10, <2>2, SeqDef
<1>15. FindingsIn(document, c) \subseteq 1..n /\ Hit \subseteq 1..n
  BY <1>4, <1>6, <1>12 DEF FindingsIn
<1>16. FlattenSeq(seqs) \in Seq(M) /\ CountAbout(FlattenSeq(seqs), v, c) = Cardinality(Hit)
  <2>1. \A i \in DOMAIN seqs : CountAbout(seqs[i], v, c) = IF i \in Hit THEN 1 ELSE 0
    BY <1>13, <1>14
  <2>2. Hit \subseteq DOMAIN seqs
    BY <1>14, <1>15
  <2> QED
    BY <1>14, <2>1, <2>2, FlattenCounts
<1>17. IsFiniteSet(FindingsIn(document, c)) /\ Cardinality(FindingsIn(document, c)) \in Nat
  <2>1. IsFiniteSet(1..n)
    BY FS_Interval
  <2>2. IsFiniteSet(FindingsIn(document, c))
    BY <1>15, <2>1, FS_Subset
  <2> QED
    BY <2>2, FS_CardinalityType
<1>18. Cardinality(Hit) = IF vendor = v THEN Cardinality(FindingsIn(document, c)) ELSE 0
  BY <1>12, FS_EmptySet
<1> QED
  BY <1>4, <1>8, <1>11, <1>16, <1>17, <1>18 DEF IsSequence

------------------------------------------------------------------------------
(* The three counts, and what changes them.                                *)

\* The union of two sets that share no element.
LEMMA CountsAdd ==
    ASSUME NEW S, IsFiniteSet(S), NEW T, IsFiniteSet(T), S \cap T = {}
    PROVE  /\ IsFiniteSet(S \cup T) /\ Cardinality(S) \in Nat /\ Cardinality(T) \in Nat
           /\ Cardinality(S \cup T) = Cardinality(S) + Cardinality(T)
<1>1. IsFiniteSet(S \cup T)
  BY FS_Union
<1>2. Cardinality(S) \in Nat /\ Cardinality(T) \in Nat /\ Cardinality(S \cap T) = 0
  BY FS_CardinalityType, FS_EmptySet
<1>3. Cardinality(S \cup T) = Cardinality(S) + Cardinality(T) - Cardinality(S \cap T)
  BY FS_Union
<1> QED
  BY <1>1, <1>2, <1>3

LEMMA TagCounts ==
    ASSUME NEW S, IsFiniteSet(S), NEW h
    PROVE  IsFiniteSet({h} \X S) /\ Cardinality({h} \X S) = Cardinality(S)
<1>1. PICK T : T = {h} \X S
  OBVIOUS
<1>2. PICK f : f = [i \in S |-> <<h, i>>]
  OBVIOUS
<1>3. f \in [S -> T] /\ \A i, j \in S : f[i] = f[j] => i = j
  BY <1>1, <1>2
<1>4. \A t \in T : \E i \in S : f[i] = t
  BY <1>1, <1>2
<1>5. f \in Injection(S, T) /\ f \in Surjection(S, T)
  BY <1>3, <1>4 DEF Injection, IsInjective, Surjection
<1> QED
  BY <1>1, <1>5, FS_Surjection

\* The alerts a request is about to send, of any request, and those on a CVE.
OutboxOf(j) == IF j = Idle THEN <<>> ELSE j.alerts
Outboxes == [h \in Handlers |-> OutboxOf(job[h])]
Outgoing(boxes, v, c) ==
    {p \in UNION {{h} \X DOMAIN boxes[h] : h \in DOMAIN boxes} : IsAbout(boxes[p[1]][p[2]], v, c)}

LEMMA OutgoingParts ==
    ASSUME NEW boxes, NEW v, NEW c, NEW p
    PROVE  p \in Outgoing(boxes, v, c) <=>
              \E h \in DOMAIN boxes : p \in {h} \X Abouts(boxes[h], v, c)
<1>1. ASSUME p \in Outgoing(boxes, v, c)
      PROVE  \E h \in DOMAIN boxes : p \in {h} \X Abouts(boxes[h], v, c)
  <2>1. PICK h \in DOMAIN boxes : p \in {h} \X DOMAIN boxes[h]
    BY <1>1 DEF Outgoing
  <2>2. p = <<h, p[2]>> /\ p[2] \in DOMAIN boxes[h] /\ IsAbout(boxes[h][p[2]], v, c)
    BY <1>1, <2>1 DEF Outgoing
  <2> QED
    BY <2>2 DEF Abouts
<1>2. ASSUME NEW h \in DOMAIN boxes, p \in {h} \X Abouts(boxes[h], v, c)
      PROVE  p \in Outgoing(boxes, v, c)
  <2>1. p = <<h, p[2]>> /\ p[2] \in DOMAIN boxes[h] /\ IsAbout(boxes[h][p[2]], v, c)
    BY <1>2 DEF Abouts
  <2> QED
    BY <2>1 DEF Outgoing
<1> QED
  BY <1>1, <1>2

LEMMA ToSendIs == \A v, c : ToSend(v, c) = Cardinality(Outgoing(Outboxes, v, c))
<1> SUFFICES ASSUME NEW v, NEW c PROVE ToSend(v, c) = Cardinality(Outgoing(Outboxes, v, c))
  OBVIOUS
<1> DEFINE P == {p \in UNION {{h} \X DOMAIN job[h].alerts : h \in {k \in Handlers : job[k] # Idle}} :
                    IsAbout(job[p[1]].alerts[p[2]], v, c)}
<1>1. ASSUME NEW p \in P PROVE p \in Outgoing(Outboxes, v, c)
  <2>1. PICK h \in Handlers : job[h] # Idle /\ p \in {h} \X DOMAIN job[h].alerts
    OBVIOUS
  <2>2. p = <<h, p[2]>> /\ p[2] \in DOMAIN job[h].alerts /\ IsAbout(job[h].alerts[p[2]], v, c)
    BY <2>1
  <2>3. h \in DOMAIN Outboxes /\ Outboxes[h] = job[h].alerts
    BY <2>1 DEF Outboxes, OutboxOf
  <2>4. p \in {h} \X Abouts(Outboxes[h], v, c)
    BY <2>2, <2>3 DEF Abouts
  <2> QED
    BY <2>3, <2>4, OutgoingParts
<1>2. ASSUME NEW p \in Outgoing(Outboxes, v, c) PROVE p \in P
  <2>1. PICK h \in DOMAIN Outboxes : p \in {h} \X Abouts(Outboxes[h], v, c)
    BY OutgoingParts
  <2>2. h \in Handlers /\ Outboxes[h] = OutboxOf(job[h])
    BY <2>1 DEF Outboxes
  <2>3. /\ p = <<h, p[2]>> /\ p[2] \in DOMAIN Outboxes[h]
        /\ IsAbout(Outboxes[h][p[2]], v, c)
    BY <2>1 DEF Abouts
  <2>4. job[h] # Idle
    BY <2>2, <2>3 DEF OutboxOf
  <2>5. Outboxes[h] = job[h].alerts
    BY <2>2, <2>4 DEF OutboxOf
  <2> QED
    BY <2>2, <2>3, <2>4, <2>5
<1>3. P = Outgoing(Outboxes, v, c)
  BY <1>1, <1>2
<1> QED
  BY <1>3 DEF ToSend

\* One request has other alerts to send.
Replaced(boxes, h, new, more) == more = [boxes EXCEPT ![h] = new]

LEMMA OutboxChanges ==
    ASSUME NEW boxes, NEW h \in DOMAIN boxes, NEW new, NEW v, NEW c,
           IsSequence(boxes[h]), IsSequence(new), IsFiniteSet(Outgoing(boxes, v, c)),
           NEW more, Replaced(boxes, h, new, more)
    PROVE  /\ IsFiniteSet(Outgoing(more, v, c))
           /\ \E r, a, b \in Nat :
                 /\ CountAbout(boxes[h], v, c) = a /\ Cardinality(Outgoing(boxes, v, c)) = r + a
                 /\ CountAbout(new, v, c) = b /\ Cardinality(Outgoing(more, v, c)) = r + b
<1>1. PICK old : old = boxes[h]
  OBVIOUS
<1>2. PICK A : A = Abouts(old, v, c)
  OBVIOUS
<1>3. PICK B : B = Abouts(new, v, c)
  OBVIOUS
<1>4. IsFiniteSet(A) /\ IsFiniteSet(B)
  <2>1. PICK M : old \in Seq(M)
    BY <1>1 DEF IsSequence
  <2>2. PICK N : new \in Seq(N)
    BY DEF IsSequence
  <2> QED
    BY <1>2, <1>3, <2>1, <2>2, AboutsFinite
<1>5. PICK rest : rest = {p \in Outgoing(boxes, v, c) : p[1] # h}
  OBVIOUS
<1>6. IsFiniteSet(rest)
  <2>1. rest \subseteq Outgoing(boxes, v, c)
    BY <1>5
  <2> QED
    BY <2>1, FS_Subset
<1>7. PICK TA : TA = {h} \X A
  OBVIOUS
<1>8. PICK TB : TB = {h} \X B
  OBVIOUS
<1>9. /\ IsFiniteSet(TA) /\ Cardinality(TA) = Cardinality(A)
      /\ IsFiniteSet(TB) /\ Cardinality(TB) = Cardinality(B)
  BY <1>4, <1>7, <1>8, TagCounts
<1>10. rest \cap TA = {} /\ rest \cap TB = {}
  BY <1>5, <1>7, <1>8
<1>11. Outgoing(boxes, v, c) = rest \cup TA
  <2>1. ASSUME NEW p \in Outgoing(boxes, v, c) PROVE p \in rest \cup TA
    <3>1. PICK k \in DOMAIN boxes : p \in {k} \X Abouts(boxes[k], v, c)
      BY OutgoingParts
    <3>2. CASE k = h
      BY <1>1, <1>2, <1>7, <3>1, <3>2
    <3>3. CASE k # h
      BY <1>5, <3>1, <3>3
    <3> QED
      BY <3>2, <3>3
  <2>2. ASSUME NEW p \in TA PROVE p \in Outgoing(boxes, v, c)
    <3>1. p \in {h} \X Abouts(boxes[h], v, c)
      BY <1>1, <1>2, <1>7
    <3> QED
      BY <3>1, OutgoingParts
  <2>3. rest \subseteq Outgoing(boxes, v, c)
    BY <1>5
  <2> QED
    BY <2>1, <2>2, <2>3
<1>12. DOMAIN more = DOMAIN boxes /\ \A k \in DOMAIN boxes : more[k] = IF k = h THEN new ELSE boxes[k]
  BY DEF Replaced
<1>13. Outgoing(more, v, c) = rest \cup TB
  <2>1. ASSUME NEW p \in Outgoing(more, v, c) PROVE p \in rest \cup TB
    <3>1. PICK k \in DOMAIN more : p \in {k} \X Abouts(more[k], v, c)
      BY OutgoingParts
    <3>2. CASE k = h
      BY <1>3, <1>8, <1>12, <3>1, <3>2
    <3>3. CASE k # h
      <4>1. k \in DOMAIN boxes /\ p \in {k} \X Abouts(boxes[k], v, c)
        BY <1>12, <3>1, <3>3
      <4>2. p \in Outgoing(boxes, v, c) /\ p[1] # h
        BY <3>3, <4>1, OutgoingParts
      <4> QED
        BY <1>5, <4>2
    <3> QED
      BY <3>2, <3>3
  <2>2. ASSUME NEW p \in TB PROVE p \in Outgoing(more, v, c)
    <3>1. p \in {h} \X Abouts(more[h], v, c) /\ h \in DOMAIN more
      BY <1>3, <1>8, <1>12
    <3> QED
      BY <3>1, OutgoingParts
  <2>3. ASSUME NEW p \in rest PROVE p \in Outgoing(more, v, c)
    <3>1. p \in Outgoing(boxes, v, c) /\ p[1] # h
      BY <1>5
    <3>2. PICK k \in DOMAIN boxes : p \in {k} \X Abouts(boxes[k], v, c)
      BY <3>1, OutgoingParts
    <3>3. k # h
      BY <3>1, <3>2
    <3>4. k \in DOMAIN more /\ p \in {k} \X Abouts(more[k], v, c)
      BY <1>12, <3>2, <3>3
    <3> QED
      BY <3>4, OutgoingParts
  <2> QED
    BY <2>1, <2>2, <2>3
<1>14. /\ Cardinality(rest \cup TA) = Cardinality(rest) + Cardinality(TA)
       /\ Cardinality(rest) \in Nat /\ Cardinality(TA) \in Nat
  BY <1>6, <1>9, <1>10, CountsAdd
<1>15. /\ Cardinality(rest \cup TB) = Cardinality(rest) + Cardinality(TB)
       /\ IsFiniteSet(rest \cup TB) /\ Cardinality(TB) \in Nat
  BY <1>6, <1>9, <1>10, CountsAdd
<1>16. CountAbout(boxes[h], v, c) = Cardinality(TA) /\ CountAbout(new, v, c) = Cardinality(TB)
  BY <1>1, <1>2, <1>3, <1>9 DEF CountAbout
<1>17. PICK ta \in Nat : ta = Cardinality(TA)
  BY <1>14
<1>18. PICK tb \in Nat : tb = Cardinality(TB)
  BY <1>15
<1>19. PICK r \in Nat : r = Cardinality(rest)
  BY <1>14
<1>20. /\ Cardinality(Outgoing(boxes, v, c)) = r + ta /\ Cardinality(Outgoing(more, v, c)) = r + tb
       /\ IsFiniteSet(Outgoing(more, v, c))
  BY <1>11, <1>13, <1>14, <1>15, <1>17, <1>18, <1>19
<1>21. CountAbout(boxes[h], v, c) = ta /\ CountAbout(new, v, c) = tb
  BY <1>16, <1>17, <1>18
<1> QED
  BY <1>20, <1>21

\* The messages Kafka was given.
Counted(bag) == IsFiniteSet(DOMAIN bag) /\ \A m \in DOMAIN bag : bag[m] \in Nat
Given(bag, message) ==
    [m \in DOMAIN bag \cup {message} |->
        (IF BagIn(m, bag) THEN bag[m] ELSE 0) + IF m = message THEN 1 ELSE 0]
AboutIn(bag, v, c) == {m \in DOMAIN bag : IsAbout(m, v, c)}

LEMMA SentIs == \A v, c : Sent(v, c) = Total(published, AboutIn(published, v, c))
BY DEF Sent, Total, AboutIn, BagToSet

LEMMA GivenCounts ==
    ASSUME NEW bag, Counted(bag), NEW message, NEW more, more = Given(bag, message), NEW v, NEW c
    PROVE  /\ Counted(more)
           /\ Total(bag, AboutIn(bag, v, c)) \in Nat
           /\ Total(more, AboutIn(more, v, c))
                 = Total(bag, AboutIn(bag, v, c)) + IF IsAbout(message, v, c) THEN 1 ELSE 0
<1>1. DOMAIN more = DOMAIN bag \cup {message}
  BY DEF Given
<1>2. ASSUME NEW m \in DOMAIN more
      PROVE  /\ m # message => m \in DOMAIN bag /\ more[m] = bag[m]
             /\ m = message => more[m] = IF message \in DOMAIN bag THEN bag[message] + 1 ELSE 1
  BY <1>1 DEF Given, BagIn, BagToSet, Counted
<1>3. Counted(more)
  <2>1. IsFiniteSet(DOMAIN more)
    BY <1>1, FS_AddElement DEF Counted
  <2>2. \A m \in DOMAIN more : more[m] \in Nat
    BY <1>1, <1>2 DEF Counted
  <2> QED
    BY <2>1, <2>2 DEF Counted
<1>4. PICK S : S = AboutIn(bag, v, c)
  OBVIOUS
<1>5. PICK T : T = AboutIn(more, v, c)
  OBVIOUS
<1>6. S \subseteq DOMAIN bag /\ IsFiniteSet(S) /\ NaturalOn(bag, S)
  BY <1>4, FS_Subset DEF AboutIn, Counted, NaturalOn
<1>7. T \subseteq DOMAIN more /\ IsFiniteSet(T) /\ NaturalOn(more, T)
  BY <1>3, <1>5, FS_Subset DEF AboutIn, Counted, NaturalOn
<1>8. Total(bag, S) \in Nat
  BY <1>6, SumRemove
<1>9. CASE ~IsAbout(message, v, c)
  <2>1. S = T /\ message \notin S
    BY <1>1, <1>4, <1>5, <1>9 DEF AboutIn
  <2>2. \A m \in S : bag[m] = more[m]
    BY <1>2, <1>7, <2>1
  <2>3. Total(bag, S) = Total(more, S)
    BY <1>6, <2>2, SumEqual
  <2> QED
    BY <1>3, <1>4, <1>5, <1>8, <1>9, <2>1, <2>3
<1>10. CASE IsAbout(message, v, c) /\ message \in DOMAIN bag
  <2>1. S = T /\ message \in S
    BY <1>1, <1>4, <1>5, <1>10 DEF AboutIn
  <2>2. \A m \in S : m # message => bag[m] = more[m]
    BY <1>2, <1>7, <2>1
  <2>3. Total(more, S) + bag[message] = Total(bag, S) + more[message]
    BY <1>6, <1>7, <2>1, <2>2, SumChange
  <2>4. more[message] = bag[message] + 1 /\ bag[message] \in Nat
    BY <1>1, <1>2, <1>10 DEF Counted
  <2>5. Total(more, S) \in Nat
    BY <1>7, <2>1, SumRemove
  <2> QED
    BY <1>3, <1>4, <1>5, <1>8, <1>10, <2>1, <2>3, <2>4, <2>5
<1>11. CASE IsAbout(message, v, c) /\ message \notin DOMAIN bag
  <2>1. T = S \cup {message} /\ message \notin S
    BY <1>1, <1>4, <1>5, <1>11 DEF AboutIn
  <2>2. \A m \in S : bag[m] = more[m]
    BY <1>2, <1>7, <2>1
  <2>3. Total(bag, S) = Total(more, S)
    BY <1>6, <2>2, SumEqual
  <2>4. Total(more, S \cup {message}) = more[message] + Total(more, S)
    BY <1>6, <1>7, <2>1, SumAdd
  <2>5. more[message] = 1
    BY <1>1, <1>2, <1>11
  <2> QED
    BY <1>3, <1>4, <1>5, <1>8, <1>11, <2>1, <2>3, <2>4, <2>5
<1> QED
  BY <1>9, <1>10, <1>11

\* The components of committed documents that call for an alert.
FoundIn(docs, v, c) ==
    {f \in UNION {{d} \X DOMAIN docs[d].scan : d \in DOMAIN docs} :
        /\ docs[f[1]].vendor = v
        /\ \E x \in CriticalVulnerabilities(docs[f[1]].scan[f[2]]) : x.cve = c}

LEMMA FindingsIs == \A v, c : Findings(v, c) = Cardinality(FoundIn(documents, v, c))
BY DEF Findings, FoundIn

LEMMA FoundParts ==
    ASSUME NEW docs, NEW v, NEW c, NEW f
    PROVE  f \in FoundIn(docs, v, c) <=>
              \E d \in DOMAIN docs : docs[d].vendor = v /\ f \in {d} \X FindingsIn(docs[d], c)
<1>1. ASSUME f \in FoundIn(docs, v, c)
      PROVE  \E d \in DOMAIN docs : docs[d].vendor = v /\ f \in {d} \X FindingsIn(docs[d], c)
  <2>1. PICK d \in DOMAIN docs : f \in {d} \X DOMAIN docs[d].scan
    BY <1>1 DEF FoundIn
  <2>2. /\ f = <<d, f[2]>> /\ f[2] \in DOMAIN docs[d].scan /\ docs[d].vendor = v
        /\ \E x \in CriticalVulnerabilities(docs[d].scan[f[2]]) : x.cve = c
    BY <1>1, <2>1 DEF FoundIn
  <2> QED
    BY <2>2 DEF FindingsIn
<1>2. ASSUME NEW d \in DOMAIN docs, docs[d].vendor = v, f \in {d} \X FindingsIn(docs[d], c)
      PROVE  f \in FoundIn(docs, v, c)
  <2>1. /\ f = <<d, f[2]>> /\ f[2] \in DOMAIN docs[d].scan
        /\ \E x \in CriticalVulnerabilities(docs[d].scan[f[2]]) : x.cve = c
    BY <1>2 DEF FindingsIn
  <2> QED
    BY <1>2, <2>1 DEF FoundIn
<1> QED
  BY <1>1, <1>2

LEMMA FoundGrows ==
    ASSUME NEW docs, NEW n \in Nat, DOMAIN docs = 1..n, NEW document \in Documents,
           NEW more, DOMAIN more = 1..n + 1, \A d \in 1..n : more[d] = docs[d], more[n + 1] = document,
           NEW v, NEW c, IsFiniteSet(FoundIn(docs, v, c))
    PROVE  /\ IsFiniteSet(FoundIn(more, v, c))
           /\ Cardinality(FoundIn(docs, v, c)) \in Nat /\ Cardinality(FindingsIn(document, c)) \in Nat
           /\ Cardinality(FoundIn(more, v, c)) = Cardinality(FoundIn(docs, v, c))
                 + IF document.vendor = v THEN Cardinality(FindingsIn(document, c)) ELSE 0
<1>1. PICK F : F = FoundIn(docs, v, c)
  OBVIOUS
<1>2. IsFiniteSet(FindingsIn(document, c)) /\ Cardinality(FindingsIn(document, c)) \in Nat
  BY AlertsOfDocument
<1>3. PICK k : k = n + 1
  OBVIOUS
<1>4. PICK new : new = IF document.vendor = v THEN {k} \X FindingsIn(document, c) ELSE {}
  OBVIOUS
<1>5. /\ IsFiniteSet(new)
      /\ Cardinality(new) = IF document.vendor = v THEN Cardinality(FindingsIn(document, c)) ELSE 0
  BY <1>2, <1>4, TagCounts, FS_EmptySet
<1>6. \A f \in F : f[1] \in 1..n
  <2> SUFFICES ASSUME NEW f \in F PROVE f[1] \in 1..n
    OBVIOUS
  <2>1. PICK d \in DOMAIN docs : f \in {d} \X FindingsIn(docs[d], c)
    BY <1>1, FoundParts
  <2> QED
    BY <2>1
<1>7. \A f \in new : f[1] = k
  BY <1>4
<1>8. k \notin 1..n
  BY <1>3
<1>9. F \cap new = {}
  BY <1>6, <1>7, <1>8
<1>10. FoundIn(more, v, c) = F \cup new
  <2>1. ASSUME NEW f \in FoundIn(more, v, c) PROVE f \in F \cup new
    <3>1. PICK d \in DOMAIN more : more[d].vendor = v /\ f \in {d} \X FindingsIn(more[d], c)
      BY FoundParts
    <3>2. CASE d \in 1..n
      <4>1. docs[d].vendor = v /\ f \in {d} \X FindingsIn(docs[d], c)
        BY <3>1, <3>2
      <4> QED
        BY <1>1, <3>2, <4>1, FoundParts
    <3>3. CASE d \notin 1..n
      <4>1. d = k /\ more[d] = document
        BY <1>3, <3>1, <3>3
      <4> QED
        BY <1>4, <3>1, <4>1
    <3> QED
      BY <3>2, <3>3
  <2>2. ASSUME NEW f \in F PROVE f \in FoundIn(more, v, c)
    <3>1. PICK d \in DOMAIN docs : docs[d].vendor = v /\ f \in {d} \X FindingsIn(docs[d], c)
      BY <1>1, FoundParts
    <3>2. d \in DOMAIN more /\ more[d] = docs[d]
      BY <3>1
    <3>3. more[d].vendor = v /\ f \in {d} \X FindingsIn(more[d], c)
      BY <3>1, <3>2
    <3> QED
      BY <3>2, <3>3, FoundParts
  <2>3. ASSUME NEW f \in new PROVE f \in FoundIn(more, v, c)
    <3>1. document.vendor = v /\ f \in {k} \X FindingsIn(document, c)
      BY <1>4
    <3>2. k \in DOMAIN more /\ more[k] = document
      BY <1>3
    <3> QED
      BY <3>1, <3>2, FoundParts
  <2> QED
    BY <2>1, <2>2, <2>3
<1>11. /\ IsFiniteSet(F \cup new) /\ Cardinality(F) \in Nat
       /\ Cardinality(F \cup new) = Cardinality(F) + Cardinality(new)
  BY <1>1, <1>5, <1>9, CountsAdd
<1> QED
  BY <1>1, <1>2, <1>5, <1>10, <1>11

------------------------------------------------------------------------------
(* Every finding is sent, about to be sent, or lost to a failure.          *)

\* The counts of what is sent, about to be sent and called for: they agree as long as
\* nothing was lost.
Books(bag, boxes, docs, lost) ==
    /\ Counted(bag) /\ \A h \in DOMAIN boxes : IsSequence(boxes[h])
    /\ \A v, c :
          /\ IsFiniteSet(Outgoing(boxes, v, c)) /\ IsFiniteSet(FoundIn(docs, v, c))
          /\ Total(bag, AboutIn(bag, v, c)) + Cardinality(Outgoing(boxes, v, c))
                <= Cardinality(FoundIn(docs, v, c))
          /\ lost = 0 => Total(bag, AboutIn(bag, v, c)) + Cardinality(Outgoing(boxes, v, c))
                = Cardinality(FoundIn(docs, v, c))

\* What is sent more and to be sent no more is what is called for more, or is lost.
Moved(bag, old, docs, bag2, new, docs2, lost) ==
    \A v, c : \E p, q \in Nat :
        /\ Total(bag2, AboutIn(bag2, v, c)) = Total(bag, AboutIn(bag, v, c)) + p
        /\ IsFiniteSet(FoundIn(docs2, v, c))
        /\ Cardinality(FoundIn(docs2, v, c)) = Cardinality(FoundIn(docs, v, c)) + q
        /\ p + CountAbout(new, v, c) <= CountAbout(old, v, c) + q
        /\ lost = 0 => p + CountAbout(new, v, c) = CountAbout(old, v, c) + q

\* A request has no alerts to send before its document is committed.
AlertInv ==
    /\ Books(published, Outboxes, documents, faults)
    /\ \A h \in Handlers : job[h].step = "commit" => job[h].alerts = <<>>

LEMMA BooksStep ==
    ASSUME NEW bag, NEW boxes, NEW docs, NEW lost, Books(bag, boxes, docs, lost),
           NEW h \in DOMAIN boxes, NEW box, IsSequence(box),
           NEW bag2, NEW boxes2, NEW docs2, NEW lost2,
           Counted(bag2), Replaced(boxes, h, box, boxes2), lost2 = 0 => lost = 0,
           Moved(bag, boxes[h], docs, bag2, box, docs2, lost2)
    PROVE  Books(bag2, boxes2, docs2, lost2)
<1>1. \A k \in DOMAIN boxes2 : IsSequence(boxes2[k])
  BY DEF Books, Replaced
<1>2. ASSUME NEW v, NEW c
      PROVE  /\ IsFiniteSet(Outgoing(boxes2, v, c)) /\ IsFiniteSet(FoundIn(docs2, v, c))
             /\ Total(bag2, AboutIn(bag2, v, c)) + Cardinality(Outgoing(boxes2, v, c))
                   <= Cardinality(FoundIn(docs2, v, c))
             /\ lost2 = 0 => Total(bag2, AboutIn(bag2, v, c)) + Cardinality(Outgoing(boxes2, v, c))
                   = Cardinality(FoundIn(docs2, v, c))
  <2>1. IsFiniteSet(Outgoing(boxes, v, c)) /\ IsSequence(boxes[h]) /\ IsFiniteSet(FoundIn(docs, v, c))
    BY DEF Books
  <2>2. /\ IsFiniteSet(Outgoing(boxes2, v, c))
        /\ \E r, a, b \in Nat :
              /\ CountAbout(boxes[h], v, c) = a /\ Cardinality(Outgoing(boxes, v, c)) = r + a
              /\ CountAbout(box, v, c) = b /\ Cardinality(Outgoing(boxes2, v, c)) = r + b
    BY <2>1, OutboxChanges
  <2>3. PICK p \in Nat, q \in Nat :
              /\ Total(bag2, AboutIn(bag2, v, c)) = Total(bag, AboutIn(bag, v, c)) + p
              /\ IsFiniteSet(FoundIn(docs2, v, c))
              /\ Cardinality(FoundIn(docs2, v, c)) = Cardinality(FoundIn(docs, v, c)) + q
              /\ p + CountAbout(box, v, c) <= CountAbout(boxes[h], v, c) + q
              /\ lost2 = 0 => p + CountAbout(box, v, c) = CountAbout(boxes[h], v, c) + q
    BY DEF Moved
  <2>4. PICK sent \in Nat : sent = Total(bag, AboutIn(bag, v, c))
    <3>1. IsFiniteSet(AboutIn(bag, v, c)) /\ NaturalOn(bag, AboutIn(bag, v, c))
      BY FS_Subset DEF Books, Counted, AboutIn, NaturalOn
    <3> QED
      BY <3>1, SumRemove
  <2>5. PICK found \in Nat : found = Cardinality(FoundIn(docs, v, c))
    BY <2>1, FS_CardinalityType
  <2>6. PICK r \in Nat, a \in Nat, b \in Nat :
              /\ CountAbout(boxes[h], v, c) = a /\ Cardinality(Outgoing(boxes, v, c)) = r + a
              /\ CountAbout(box, v, c) = b /\ Cardinality(Outgoing(boxes2, v, c)) = r + b
    BY <2>2
  <2>7. sent + (r + a) <= found /\ (lost = 0 => sent + (r + a) = found)
    BY <2>4, <2>5, <2>6 DEF Books
  <2>8. p + b <= a + q /\ (lost2 = 0 => p + b = a + q)
    BY <2>3, <2>6
  <2>9. /\ (sent + p) + (r + b) <= found + q
        /\ lost2 = 0 => (sent + p) + (r + b) = found + q
    BY <2>7, <2>8
  <2>10. /\ Total(bag2, AboutIn(bag2, v, c)) = sent + p
         /\ Cardinality(Outgoing(boxes2, v, c)) = r + b
         /\ Cardinality(FoundIn(docs2, v, c)) = found + q
    BY <2>3, <2>4, <2>5, <2>6
  <2> QED
    BY <2>2, <2>3, <2>9, <2>10
<1> QED
  BY <1>1, <1>2 DEF Books

\* Nothing but failures.
LEMMA BooksKept ==
    ASSUME NEW bag, NEW boxes, NEW docs, NEW lost, Books(bag, boxes, docs, lost),
           NEW lost2, lost2 = 0 => lost = 0
    PROVE  Books(bag, boxes, docs, lost2)
BY DEF Books

\* A message that is no alert on a CVE.
LEMMA BooksEvent ==
    ASSUME NEW bag, NEW boxes, NEW docs, NEW lost, Books(bag, boxes, docs, lost),
           NEW message, \A v, c : ~IsAbout(message, v, c)
    PROVE  Books(Given(bag, message), boxes, docs, lost)
<1>1. PICK more : more = Given(bag, message)
  OBVIOUS
<1>2. Counted(bag)
  BY DEF Books
<1>3. Counted(more)
  BY <1>1, <1>2, GivenCounts
<1>4. ASSUME NEW v, NEW c
      PROVE  Total(more, AboutIn(more, v, c)) = Total(bag, AboutIn(bag, v, c))
  <2>1. /\ Total(bag, AboutIn(bag, v, c)) \in Nat
        /\ Total(more, AboutIn(more, v, c))
              = Total(bag, AboutIn(bag, v, c)) + IF IsAbout(message, v, c) THEN 1 ELSE 0
    BY <1>1, <1>2, GivenCounts
  <2>2. ~IsAbout(message, v, c)
    OBVIOUS
  <2> QED
    BY <2>1, <2>2
<1> QED
  BY <1>1, <1>3, <1>4 DEF Books

\* A request drops what it has to send, at the price of a failure.
LEMMA BooksDrop ==
    ASSUME NEW bag, NEW boxes, NEW docs, NEW lost, Books(bag, boxes, docs, lost),
           NEW h \in DOMAIN boxes, NEW box, IsSequence(box), NEW lost2, lost2 # 0,
           \A v, c : CountAbout(box, v, c) <= CountAbout(boxes[h], v, c)
    PROVE  Books(bag, [boxes EXCEPT ![h] = box], docs, lost2)
<1>1. PICK boxes2 : Replaced(boxes, h, box, boxes2)
  BY DEF Replaced
<1>2. ASSUME NEW v, NEW c
      PROVE  \E p, q \in Nat :
              /\ Total(bag, AboutIn(bag, v, c)) = Total(bag, AboutIn(bag, v, c)) + p
              /\ IsFiniteSet(FoundIn(docs, v, c))
              /\ Cardinality(FoundIn(docs, v, c)) = Cardinality(FoundIn(docs, v, c)) + q
              /\ p + CountAbout(box, v, c) <= CountAbout(boxes[h], v, c) + q
              /\ lost2 = 0 => p + CountAbout(box, v, c) = CountAbout(boxes[h], v, c) + q
  <2>1. IsFiniteSet(Outgoing(boxes, v, c)) /\ IsSequence(boxes[h]) /\ IsFiniteSet(FoundIn(docs, v, c))
    BY DEF Books
  <2>2. CountAbout(boxes[h], v, c) \in Nat /\ CountAbout(box, v, c) \in Nat
    BY <1>1, <2>1, OutboxChanges
  <2>3. Cardinality(FoundIn(docs, v, c)) \in Nat
    BY <2>1, FS_CardinalityType
  <2>4. Total(bag, AboutIn(bag, v, c)) \in Nat
    <3>1. IsFiniteSet(AboutIn(bag, v, c)) /\ NaturalOn(bag, AboutIn(bag, v, c))
      BY FS_Subset DEF Books, Counted, AboutIn, NaturalOn
    <3> QED
      BY <3>1, SumRemove
  <2>5. /\ Total(bag, AboutIn(bag, v, c)) = Total(bag, AboutIn(bag, v, c)) + 0
        /\ Cardinality(FoundIn(docs, v, c)) = Cardinality(FoundIn(docs, v, c)) + 0
        /\ 0 + CountAbout(box, v, c) <= CountAbout(boxes[h], v, c) + 0
    BY <2>2, <2>3, <2>4
  <2> QED
    BY <2>1, <2>5
<1>3. Counted(bag)
  BY DEF Books
<1>4. Moved(bag, boxes[h], docs, bag, box, docs, lost2)
  BY <1>2 DEF Moved
<1>5. Books(bag, boxes2, docs, lost2)
  BY <1>1, <1>3, <1>4, BooksStep
<1> QED
  BY <1>1, <1>5 DEF Replaced

\* A request sends the first of its alerts.
LEMMA BooksSend ==
    ASSUME NEW bag, NEW boxes, NEW docs, NEW lost, Books(bag, boxes, docs, lost),
           NEW h \in DOMAIN boxes, boxes[h] # <<>>
    PROVE  /\ Books(Given(bag, Head(boxes[h])), [boxes EXCEPT ![h] = Tail(boxes[h])], docs, lost)
           /\ IsSequence(Tail(boxes[h]))
           /\ \A v, c : CountAbout(Tail(boxes[h]), v, c) <= CountAbout(boxes[h], v, c)
<1>1. PICK s : s = boxes[h]
  OBVIOUS
<1>2. PICK M : s \in Seq(M)
  BY <1>1 DEF Books, IsSequence
<1>3. PICK message : message = Head(s)
  OBVIOUS
<1>4. PICK t : t = Tail(s)
  OBVIOUS
<1>5. t \in Seq(M) /\ IsSequence(t)
  BY <1>1, <1>2, <1>4, AboutsTail DEF IsSequence
<1>6. PICK more : more = Given(bag, message)
  OBVIOUS
<1>7. Counted(bag)
  BY DEF Books
<1>8. Counted(more)
  BY <1>6, <1>7, GivenCounts
<1>9. ASSUME NEW v, NEW c
      PROVE  /\ CountAbout(t, v, c) \in Nat
             /\ CountAbout(s, v, c) = (IF IsAbout(message, v, c) THEN 1 ELSE 0) + CountAbout(t, v, c)
  <2>1. CountAbout(t, v, c) \in Nat
    BY <1>5, AboutsFinite
  <2>2. s # <<>>
    BY <1>1
  <2>3. CountAbout(s, v, c) = (IF IsAbout(Head(s), v, c) THEN 1 ELSE 0) + CountAbout(Tail(s), v, c)
    BY <1>2, <2>2, AboutsTail
  <2> QED
    BY <1>3, <1>4, <2>1, <2>3
<1>10. ASSUME NEW v, NEW c
       PROVE  \E p, q \in Nat :
              /\ Total(more, AboutIn(more, v, c)) = Total(bag, AboutIn(bag, v, c)) + p
              /\ IsFiniteSet(FoundIn(docs, v, c))
              /\ Cardinality(FoundIn(docs, v, c)) = Cardinality(FoundIn(docs, v, c)) + q
              /\ p + CountAbout(t, v, c) <= CountAbout(boxes[h], v, c) + q
              /\ lost = 0 => p + CountAbout(t, v, c) = CountAbout(boxes[h], v, c) + q
  <2>1. PICK p \in Nat : p = IF IsAbout(message, v, c) THEN 1 ELSE 0
    OBVIOUS
  <2>2. Total(more, AboutIn(more, v, c)) = Total(bag, AboutIn(bag, v, c)) + p
    BY <1>6, <1>7, <2>1, GivenCounts
  <2>3. IsFiniteSet(FoundIn(docs, v, c))
    BY DEF Books
  <2>4. Cardinality(FoundIn(docs, v, c)) = Cardinality(FoundIn(docs, v, c)) + 0
    BY <2>3, FS_CardinalityType
  <2>5. PICK b \in Nat : b = CountAbout(t, v, c)
    BY <1>9
  <2>6. CountAbout(boxes[h], v, c) = p + b
    BY <1>1, <1>9, <2>1, <2>5
  <2>7. /\ p + CountAbout(t, v, c) <= CountAbout(boxes[h], v, c) + 0
        /\ p + CountAbout(t, v, c) = CountAbout(boxes[h], v, c) + 0
    BY <2>5, <2>6
  <2> QED
    BY <2>2, <2>3, <2>4, <2>7
<1>11. PICK boxes2 : Replaced(boxes, h, t, boxes2)
  BY DEF Replaced
<1>12. Moved(bag, boxes[h], docs, more, t, docs, lost)
  BY <1>10 DEF Moved
<1>13. Books(more, boxes2, docs, lost)
  BY <1>5, <1>8, <1>11, <1>12, BooksStep
<1>14. ASSUME NEW v, NEW c PROVE CountAbout(t, v, c) <= CountAbout(s, v, c)
  <2>1. PICK b \in Nat : b = CountAbout(t, v, c)
    BY <1>9
  <2>2. CountAbout(s, v, c) = b \/ CountAbout(s, v, c) = 1 + b
    BY <1>9, <2>1
  <2> QED
    BY <2>1, <2>2
<1> QED
  BY <1>1, <1>3, <1>4, <1>5, <1>6, <1>11, <1>13, <1>14 DEF Replaced

\* A document is committed, and its alerts are about to be sent.
LEMMA BooksCommit ==
    ASSUME NEW bag, NEW boxes, NEW docs, NEW lost, Books(bag, boxes, docs, lost),
           NEW h \in DOMAIN boxes, boxes[h] = <<>>, NEW n \in Nat, DOMAIN docs = 1..n,
           NEW document \in Documents, NEW docs2, DOMAIN docs2 = 1..n + 1,
           \A d \in 1..n : docs2[d] = docs[d], docs2[n + 1] = document,
           NEW alerts, alerts = CriticalAlerts(document.vendor, document.scan)
    PROVE  Books(bag, [boxes EXCEPT ![h] = alerts], docs2, lost)
<1>1. PICK boxes2 : Replaced(boxes, h, alerts, boxes2)
  BY DEF Replaced
<1>2. IsSequence(alerts)
  BY AlertsOfDocument
<1>3. ASSUME NEW v, NEW c
      PROVE  \E p, q \in Nat :
              /\ Total(bag, AboutIn(bag, v, c)) = Total(bag, AboutIn(bag, v, c)) + p
              /\ IsFiniteSet(FoundIn(docs2, v, c))
              /\ Cardinality(FoundIn(docs2, v, c)) = Cardinality(FoundIn(docs, v, c)) + q
              /\ p + CountAbout(alerts, v, c) <= CountAbout(boxes[h], v, c) + q
              /\ lost = 0 => p + CountAbout(alerts, v, c) = CountAbout(boxes[h], v, c) + q
  <2>1. IsFiniteSet(FoundIn(docs, v, c))
    BY DEF Books
  <2>2. PICK q : q = IF document.vendor = v THEN Cardinality(FindingsIn(document, c)) ELSE 0
    OBVIOUS
  <2>3. /\ IsFiniteSet(FoundIn(docs2, v, c)) /\ Cardinality(FindingsIn(document, c)) \in Nat
        /\ Cardinality(FoundIn(docs2, v, c)) = Cardinality(FoundIn(docs, v, c)) + q
    <3>1. /\ IsFiniteSet(FoundIn(docs2, v, c)) /\ Cardinality(FindingsIn(document, c)) \in Nat
          /\ Cardinality(FoundIn(docs2, v, c)) = Cardinality(FoundIn(docs, v, c))
                 + IF document.vendor = v THEN Cardinality(FindingsIn(document, c)) ELSE 0
      BY <2>1, FoundGrows
    <3> QED
      BY <2>2, <3>1
  <2>4. q \in Nat
    BY <2>2, <2>3
  <2>5. CountAbout(alerts, v, c) = q
    BY ZenonT(40), <2>2, AlertsOfDocument
  <2>6. CountAbout(boxes[h], v, c) = 0
    BY AboutsNone
  <2>7. Total(bag, AboutIn(bag, v, c)) = Total(bag, AboutIn(bag, v, c)) + 0
    <3>1. IsFiniteSet(AboutIn(bag, v, c)) /\ NaturalOn(bag, AboutIn(bag, v, c))
      BY FS_Subset DEF Books, Counted, AboutIn, NaturalOn
    <3>2. Total(bag, AboutIn(bag, v, c)) \in Nat
      BY <3>1, SumRemove
    <3> QED
      BY <3>2
  <2>8. /\ 0 + CountAbout(alerts, v, c) <= CountAbout(boxes[h], v, c) + q
        /\ 0 + CountAbout(alerts, v, c) = CountAbout(boxes[h], v, c) + q
    BY <2>4, <2>5, <2>6
  <2> QED
    BY <2>3, <2>4, <2>7, <2>8
<1>4. Counted(bag)
  BY DEF Books
<1>5. Moved(bag, boxes[h], docs, bag, alerts, docs2, lost)
  BY <1>3 DEF Moved
<1>6. Books(bag, boxes2, docs2, lost)
  BY <1>1, <1>2, <1>4, <1>5, BooksStep
<1> QED
  BY <1>1, <1>6 DEF Replaced

------------------------------------------------------------------------------
(* The steps.                                                              *)

\* The request that steps has other alerts to send, the others the same.
LEMMA OutboxesAfter ==
    ASSUME SbomInv, NEW h \in Handlers, NEW j, Keeps(h, j)
    PROVE  /\ h \in DOMAIN Outboxes /\ Outboxes[h] = OutboxOf(job[h])
           /\ Outboxes' = [Outboxes EXCEPT ![h] = OutboxOf(j)]
           /\ \A k \in Handlers : job'[k] = IF k = h THEN j ELSE job[k]
<1>1. \A k \in Handlers : job'[k] = IF k = h THEN j ELSE job[k]
  BY OneSteps DEF Keeps
<1>2. Outboxes' = [k \in Handlers |-> OutboxOf(job'[k])]
  BY DEF Outboxes, OutboxOf
<1>3. Outboxes = [k \in Handlers |-> OutboxOf(job[k])]
  BY DEF Outboxes
<1>4. PICK box : box = OutboxOf(j)
  OBVIOUS
<1>5. PICK boxes : boxes = Outboxes'
  OBVIOUS
<1>6. boxes = [Outboxes EXCEPT ![h] = box]
  <2>1. \A k \in Handlers : boxes[k] = IF k = h THEN box ELSE Outboxes[k]
    <3> SUFFICES ASSUME NEW k \in Handlers PROVE boxes[k] = IF k = h THEN box ELSE Outboxes[k]
      OBVIOUS
    <3>1. boxes[k] = OutboxOf(job'[k]) /\ Outboxes[k] = OutboxOf(job[k])
      BY <1>2, <1>3, <1>5
    <3> QED
      BY <1>1, <1>4, <3>1
  <2>2. boxes = [k \in Handlers |-> boxes[k]]
    BY <1>2, <1>5
  <2> QED
    BY <1>3, <2>1, <2>2
<1> QED
  BY <1>1, <1>3, <1>4, <1>5, <1>6

LEMMA AlertsAfter ==
    ASSUME SbomInv, AlertInv, NEW h \in Handlers, NEW j, Keeps(h, j),
           j.step = "commit" => j.alerts = <<>>,
           Books(published', [Outboxes EXCEPT ![h] = OutboxOf(j)], documents', faults')
    PROVE  AlertInv'
<1>1. /\ Outboxes' = [Outboxes EXCEPT ![h] = OutboxOf(j)]
      /\ \A k \in Handlers : job'[k] = IF k = h THEN j ELSE job[k]
  BY OutboxesAfter
<1>2. Books(published', Outboxes', documents', faults')
  BY <1>1
<1>3. \A k \in Handlers : job'[k].step = "commit" => job'[k].alerts = <<>>
  BY <1>1 DEF AlertInv
<1>4. Books(published, Outboxes, documents, faults)'
  BY <1>2 DEF Books
<1> QED
  BY <1>3, <1>4 DEF AlertInv

\* A step of a request that sends no alert.
LEMMA AlertsQuiet ==
    ASSUME SbomInv, AlertInv, NEW h \in Handlers, NEW j, Keeps(h, j),
           j.step = "commit" => j.alerts = <<>>, OutboxOf(j) = OutboxOf(job[h]),
           UNCHANGED documents, Books(published', Outboxes, documents, faults')
    PROVE  AlertInv'
<1>1. h \in DOMAIN Outboxes /\ Outboxes[h] = OutboxOf(j)
  BY OutboxesAfter
<1>2. [Outboxes EXCEPT ![h] = OutboxOf(j)] = Outboxes
  BY <1>1 DEF Outboxes
<1>3. Books(published', [Outboxes EXCEPT ![h] = OutboxOf(j)], documents', faults')
  BY <1>2
<1> QED
  BY <1>3, AlertsAfter

LEMMA PublishGives ==
    ASSUME NEW message, Publish(message)
    PROVE  \/ published' = Given(published, message) /\ UNCHANGED faults
           \/ UNCHANGED published /\ Fault
BY DEF Publish, Given, Copies

\* A request that is at work has its own alerts to send.
LEMMA AtWork == \A j : j.step # "idle" => OutboxOf(j) = j.alerts
BY DEF OutboxOf, Idle

LEMMA AlertsKept ==
    ASSUME AlertInv, UNCHANGED <<documents, published, job, faults>>
    PROVE  AlertInv'
<1>1. Outboxes' = Outboxes
  BY DEF Outboxes, OutboxOf
<1>2. Books(published', Outboxes', documents', faults')
  BY <1>1 DEF AlertInv
<1>3. Books(published, Outboxes, documents, faults)'
  BY <1>2 DEF Books
<1>4. \A k \in Handlers : job'[k].step = "commit" => job'[k].alerts = <<>>
  BY DEF AlertInv
<1> QED
  BY <1>3, <1>4 DEF AlertInv

LEMMA AlertsIngest ==
    ASSUME SbomInv, AlertInv, NEW h \in Handlers, Ingest(h)
    PROVE  AlertInv'
<1>1. UNCHANGED <<documents, published, faults>> /\ job[h].step = "idle"
  BY StepIngest DEF Ingest
<1>2. PICK j : Keeps(h, j) /\ j.step = "commit" /\ j.alerts = <<>>
  BY StepIngest
<1>3. job[h] = Idle
  BY DEF Ingest
<1>4. OutboxOf(j) = <<>> /\ OutboxOf(job[h]) = <<>>
  BY <1>2, <1>3 DEF OutboxOf
<1>5. Books(published', Outboxes, documents, faults')
  BY <1>1 DEF AlertInv
<1> QED
  BY <1>1, <1>2, <1>4, <1>5, AlertsQuiet

LEMMA AlertsCommit ==
    ASSUME SbomInv, AlertInv, NEW h \in Handlers, Commit(h)
    PROVE  AlertInv'
<1>1. PICK s : s = job[h]
  OBVIOUS
<1>2. PICK n \in Nat : n = Len(documents)
  BY <1>1, StepCommit
<1>3. PICK document \in Documents : document = s.document
  BY <1>1, StepCommit
<1>4. /\ DOMAIN documents = 1..n /\ DOMAIN documents' = 1..n + 1
      /\ documents'[n + 1] = document
  BY <1>1, <1>2, <1>3, StepCommit
<1>5. PICK j : /\ Keeps(h, j) /\ j.step = "summary"
               /\ j.alerts = CriticalAlerts(document.vendor, document.scan)
  BY <1>1, <1>3, StepCommit
<1>6. \A d \in 1..n : documents'[d] = documents[d]
  BY <1>4, <1>5 DEF Keeps, Grows
<1>7. UNCHANGED <<published, faults>> /\ s.step = "commit"
  BY <1>1 DEF Commit
<1>8. h \in DOMAIN Outboxes /\ Outboxes[h] = <<>>
  <2>1. s.alerts = <<>>
    BY <1>1, <1>7 DEF AlertInv
  <2>2. OutboxOf(s) = <<>>
    BY <1>7, <2>1, AtWork
  <2> QED
    BY <1>1, <1>5, <2>2, OutboxesAfter
<1>9. PICK alerts : alerts = j.alerts
  OBVIOUS
<1>10. OutboxOf(j) = alerts
  BY <1>5, <1>9, AtWork
<1>11. PICK docs : docs = documents'
  OBVIOUS
<1>12. Books(published, [Outboxes EXCEPT ![h] = alerts], docs, faults)
  <2>1. Books(published, Outboxes, documents, faults)
    BY DEF AlertInv
  <2>2. DOMAIN docs = 1..n + 1 /\ (\A d \in 1..n : docs[d] = documents[d]) /\ docs[n + 1] = document
    BY <1>4, <1>6, <1>11
  <2>3. alerts = CriticalAlerts(document.vendor, document.scan)
    BY <1>5, <1>9
  <2> QED
    BY <1>4, <1>8, <2>1, <2>2, <2>3, BooksCommit
<1>13. Books(published', [Outboxes EXCEPT ![h] = OutboxOf(j)], documents', faults')
  BY <1>7, <1>10, <1>11, <1>12
<1> QED
  BY <1>5, <1>13, AlertsAfter

\* Reading the tier and the upsert.
LEMMA AlertsUpsert ==
    ASSUME SbomInv, AlertInv, NEW h \in Handlers, ReadSummary(h) \/ Mirror(h)
    PROVE  AlertInv'
<1>1. PICK s : s = job[h]
  OBVIOUS
<1>2. PICK u : u = UpsertVendorSubgraph(graph, s.document.vendor, s.tier, Range(s.document.scan))
  OBVIOUS
<1>3. PICK j : Keeps(h, j) /\ j.step \in {"mirror", "event"} /\ j.alerts = s.alerts
  <2>1. CASE ReadSummary(h)
    BY <1>1, <2>1, StepReadSummary
  <2>2. CASE Mirror(h)
    BY <1>1, <1>2, <2>2, StepMirror
  <2> QED
    BY <2>1, <2>2
<1>4. s.step \in {"summary", "mirror"} /\ UNCHANGED <<documents, published>>
  BY <1>1 DEF ReadSummary, Mirror
<1>5. UNCHANGED faults \/ Fault
  BY DEF ReadSummary, Mirror
<1>6. faults' = 0 => faults = 0
  BY <1>5, FaultCounts DEF SbomInv
<1>7. Books(published', Outboxes, documents, faults')
  <2>1. Books(published, Outboxes, documents, faults')
    BY <1>6, BooksKept DEF AlertInv
  <2> QED
    BY <1>4, <2>1
<1>8. OutboxOf(j) = OutboxOf(job[h])
  BY <1>1, <1>3, <1>4, AtWork
<1> QED
  BY <1>3, <1>4, <1>7, <1>8, AlertsQuiet

LEMMA AlertsEvent ==
    ASSUME SbomInv, AlertInv, NEW h \in Handlers, PublishIngestion(h)
    PROVE  AlertInv'
<1>1. PICK j : Keeps(h, j) /\ j.step = "alerts" /\ j.alerts = job[h].alerts
  BY StepPublishes
<1>2. UNCHANGED documents /\ job[h].step = "event"
  BY DEF PublishIngestion
<1>3. PICK event : event = IngestionEvent(job[h].document)
  OBVIOUS
<1>4. \/ published' = Given(published, event) /\ UNCHANGED faults
      \/ UNCHANGED published /\ Fault
  BY <1>3, PublishGives DEF PublishIngestion
<1>5. \A v, c : ~IsAbout(event, v, c)
  BY <1>3 DEF IngestionEvent, IsAbout
<1>6. Books(published', Outboxes, documents, faults')
  <2>1. CASE published' = Given(published, event) /\ UNCHANGED faults
    <3>1. Books(Given(published, event), Outboxes, documents, faults)
      BY <1>5, BooksEvent DEF AlertInv
    <3> QED
      BY <2>1, <3>1
  <2>2. CASE UNCHANGED published /\ Fault
    <3>1. faults' # 0
      BY <2>2, FaultCounts DEF SbomInv
    <3>2. Books(published, Outboxes, documents, faults')
      BY <3>1, BooksKept DEF AlertInv
    <3> QED
      BY <2>2, <3>2
  <2> QED
    BY <1>4, <2>1, <2>2
<1>7. OutboxOf(j) = OutboxOf(job[h])
  BY <1>1, <1>2, AtWork
<1> QED
  BY <1>1, <1>2, <1>6, <1>7, AlertsQuiet

LEMMA AlertsSend ==
    ASSUME SbomInv, AlertInv, NEW h \in Handlers, PublishAlert(h)
    PROVE  AlertInv'
<1>1. PICK j : Keeps(h, j) /\ j.step = "alerts" /\ j.alerts = Tail(job[h].alerts)
  BY StepPublishes
<1>2. UNCHANGED documents /\ job[h].step = "alerts" /\ job[h].alerts # <<>>
  BY DEF PublishAlert
<1>3. PICK alerts : alerts = job[h].alerts
  OBVIOUS
<1>4. h \in DOMAIN Outboxes /\ Outboxes[h] = alerts /\ alerts # <<>>
  BY <1>1, <1>2, <1>3, OutboxesAfter, AtWork
<1>5. PICK message : message = Head(alerts)
  OBVIOUS
<1>6. PICK rest : rest = Tail(alerts)
  OBVIOUS
<1>7. OutboxOf(j) = rest
  BY <1>1, <1>3, <1>6, AtWork
<1>8. Books(published, Outboxes, documents, faults)
  BY DEF AlertInv
<1>9. /\ Books(Given(published, message), [Outboxes EXCEPT ![h] = rest], documents, faults)
      /\ IsSequence(rest)
      /\ \A v, c : CountAbout(rest, v, c) <= CountAbout(Outboxes[h], v, c)
  BY <1>4, <1>5, <1>6, <1>8, BooksSend
<1>10. \/ published' = Given(published, message) /\ UNCHANGED faults
       \/ UNCHANGED published /\ Fault
  BY <1>3, <1>5, PublishGives DEF PublishAlert
<1>11. Books(published', [Outboxes EXCEPT ![h] = rest], documents, faults')
  <2>1. CASE published' = Given(published, message) /\ UNCHANGED faults
    BY <1>9, <2>1
  <2>2. CASE UNCHANGED published /\ Fault
    <3>1. faults' # 0
      BY <2>2, FaultCounts DEF SbomInv
    <3>2. Books(published, [Outboxes EXCEPT ![h] = rest], documents, faults')
      BY <1>4, <1>8, <1>9, <3>1, BooksDrop
    <3> QED
      BY <2>2, <3>2
  <2> QED
    BY <1>10, <2>1, <2>2
<1>12. Books(published', [Outboxes EXCEPT ![h] = OutboxOf(j)], documents', faults')
  BY <1>2, <1>7, <1>11
<1> QED
  BY <1>1, <1>12, AlertsAfter

LEMMA AlertsEnd ==
    ASSUME SbomInv, AlertInv, NEW h \in Handlers, Respond(h) \/ CutOff(h)
    PROVE  AlertInv'
<1>1. Keeps(h, Idle) /\ UNCHANGED documents /\ Idle.step # "commit"
  BY StepEnds DEF Idle
<1>2. UNCHANGED published
  BY DEF Respond, CutOff
<1>3. h \in DOMAIN Outboxes /\ Outboxes[h] = OutboxOf(job[h])
  BY <1>1, OutboxesAfter
<1>4. OutboxOf(Idle) = <<>>
  BY DEF OutboxOf
<1>5. CASE Respond(h)
  <2>1. job[h].step = "alerts" /\ job[h].alerts = <<>> /\ UNCHANGED faults
    BY <1>5 DEF Respond
  <2>2. OutboxOf(job[h]) = OutboxOf(Idle)
    BY <1>4, <2>1, AtWork
  <2>3. Books(published', Outboxes, documents, faults')
    BY <1>2, <2>1 DEF AlertInv
  <2> QED
    BY <1>1, <2>2, <2>3, AlertsQuiet
<1>6. CASE CutOff(h)
  <2>1. faults' # 0
    BY <1>6, FaultCounts DEF CutOff, SbomInv
  <2>2. Books(published, Outboxes, documents, faults)
    BY DEF AlertInv
  <2>3. PICK box : box = <<>>
    OBVIOUS
  <2>4. IsSequence(box) /\ IsSequence(Outboxes[h])
    <3>1. box \in Seq({})
      BY <2>3
    <3>2. IsSequence(box)
      BY <3>1 DEF IsSequence
    <3>3. IsSequence(Outboxes[h])
      BY <1>3, <2>2 DEF Books
    <3> QED
      BY <3>2, <3>3
  <2>5. \A v, c : CountAbout(box, v, c) <= CountAbout(Outboxes[h], v, c)
    <3> SUFFICES ASSUME NEW v, NEW c PROVE CountAbout(box, v, c) <= CountAbout(Outboxes[h], v, c)
      OBVIOUS
    <3>1. PICK M : Outboxes[h] \in Seq(M)
      BY <2>4 DEF IsSequence
    <3>2. CountAbout(Outboxes[h], v, c) \in Nat
      BY <3>1, AboutsFinite
    <3>3. CountAbout(box, v, c) = 0
      BY <2>3, AboutsNone
    <3> QED
      BY <3>2, <3>3
  <2>6. Books(published, [Outboxes EXCEPT ![h] = box], documents, faults')
    BY <1>3, <2>1, <2>2, <2>4, <2>5, BooksDrop
  <2>7. Books(published', [Outboxes EXCEPT ![h] = OutboxOf(Idle)], documents', faults')
    BY <1>1, <1>2, <1>4, <2>3, <2>6
  <2> QED
    BY <1>1, <2>7, AlertsAfter
<1> QED
  BY <1>5, <1>6

LEMMA AlertsNext == SbomInv /\ AlertInv /\ [Next]_vars => AlertInv'
<1> SUFFICES ASSUME SbomInv, AlertInv, [Next]_vars PROVE AlertInv'
  OBVIOUS
<1>1. ASSUME NEW h \in Handlers, Reject(h) PROVE AlertInv'
  BY <1>1, StepReject, AlertsKept DEF Reject
<1>2. CASE Retier \/ UNCHANGED vars
  BY <1>2, StepOther, AlertsKept DEF Retier, vars
<1> QED
  BY <1>1, <1>2, AlertsIngest, AlertsCommit, AlertsUpsert, AlertsEvent, AlertsSend, AlertsEnd
     DEF Next, Quiescent, Step

LEMMA AlertsInit == Init => AlertInv
<1> SUFFICES ASSUME Init PROVE AlertInv
  OBVIOUS
<1>1. documents = <<>> /\ job = [h \in Handlers |-> Idle] /\ faults = 0 /\ published = EmptyBag
  BY DEF Init
<1>2. DOMAIN published = {} /\ Counted(published)
  <2>1. DOMAIN published = {}
    BY <1>1 DEF EmptyBag, SetToBag
  <2> QED
    BY <2>1, FS_EmptySet DEF Counted
<1>3. \A h \in Handlers : Outboxes[h] = <<>>
  BY <1>1 DEF Outboxes, OutboxOf
<1>4. \A h \in DOMAIN Outboxes : IsSequence(Outboxes[h])
  <2>1. <<>> \in Seq({})
    OBVIOUS
  <2>2. IsSequence(<<>>)
    BY <2>1 DEF IsSequence
  <2> QED
    BY <1>3, <2>2 DEF Outboxes
<1>5. ASSUME NEW v, NEW c
      PROVE  /\ Outgoing(Outboxes, v, c) = {} /\ FoundIn(documents, v, c) = {}
             /\ AboutIn(published, v, c) = {}
  <2>1. Outgoing(Outboxes, v, c) = {}
    BY <1>3, OutgoingParts DEF Abouts, Outboxes
  <2>2. FoundIn(documents, v, c) = {}
    BY <1>1 DEF FoundIn
  <2> QED
    BY <1>2, <2>1, <2>2 DEF AboutIn
<1>6. ASSUME NEW v, NEW c
      PROVE  /\ IsFiniteSet(Outgoing(Outboxes, v, c)) /\ IsFiniteSet(FoundIn(documents, v, c))
             /\ Total(published, AboutIn(published, v, c)) = 0
             /\ Cardinality(Outgoing(Outboxes, v, c)) = 0 /\ Cardinality(FoundIn(documents, v, c)) = 0
  BY <1>5, FS_EmptySet, SumOfNone
<1>7. Books(published, Outboxes, documents, faults)
  BY <1>2, <1>4, <1>6 DEF Books
<1>8. \A h \in Handlers : job[h].step # "commit"
  BY <1>1 DEF Idle
<1> QED
  BY <1>7, <1>8 DEF AlertInv

\* ingest_sbom publishes after its commit what it counted before it: whatever overlaps,
\* fails or is cut off, no alert on a CVE is sent that a committed bill does not call
\* for, none is sent twice, and none is lost without a failure.
THEOREM AlertsMatch == Spec => []AlertsMatchFindings
<1>1. AlertInv => AlertsMatchFindings
  <2> SUFFICES ASSUME AlertInv PROVE AlertsMatchFindings
    OBVIOUS
  <2>1. ASSUME NEW v, NEW c
        PROVE  /\ Sent(v, c) + ToSend(v, c) <= Findings(v, c)
               /\ faults = 0 => Sent(v, c) + ToSend(v, c) = Findings(v, c)
    <3>1. /\ Sent(v, c) = Total(published, AboutIn(published, v, c))
          /\ ToSend(v, c) = Cardinality(Outgoing(Outboxes, v, c))
          /\ Findings(v, c) = Cardinality(FoundIn(documents, v, c))
      BY SentIs, ToSendIs, FindingsIs
    <3> QED
      BY <3>1 DEF AlertInv, Books
  <2> QED
    BY <2>1 DEF AlertsMatchFindings
<1> QED
  BY <1>1, AlwaysSbomInv, AlertsInit, AlertsNext, PTL DEF Spec
=============================================================================
