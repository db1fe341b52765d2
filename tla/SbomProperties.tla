--------------------------- MODULE SbomProperties ---------------------------
(* What SbomService is checked for.                                        *)
EXTENDS SbomService

Steps == {"idle", "commit", "summary", "mirror", "event", "alerts"}

\* Components have a URL of three parts and what is known of a vulnerability is in
\* the range of its columns, in the rows and in the graph.  The graph's vendors have
\* a committed bill, though maybe one of no components.
TypeOK ==
    /\ \A h \in Handlers : job[h].step \in Steps
    /\ \A r \in Rows :
          /\ Len(r.found.component.purl) = 3
          /\ \A v \in r.found.vulnerabilities :
                /\ v.severity \in {"Critical", "High", "Medium", "Low"}
                /\ v.ssvc \in {"Act", "Attend", "Track*", "Track"}
    /\ \A v \in DOMAIN graph.tiers : graph.tiers[v] \in NewTiers \cup {UnknownTier}
    /\ {p[1] : p \in graph.provides} \subseteq DOMAIN graph.tiers
    /\ DOMAIN graph.tiers \subseteq {documents[d].vendor : d \in DOMAIN documents}
    /\ DOMAIN graph.severity = {e[2] : e \in graph.at_risk}

\* graph.py: the graph mirrors the rows, which are authoritative: bills of several
\* vendors meet in its components, yet who is reached by a CVE along the graph has a
\* committed component with that very CVE.
GraphImpactIsReal ==
    \A e \in graph.at_risk : Impact(graph, e[2]) \subseteq CveImpact(e[2])

IsMirrored(document) ==
    \A s \in Range(document.scan) :
        /\ <<document.vendor, s.component.purl>> \in graph.provides
        /\ \A v \in s.vulnerabilities : <<s.component.purl, v.cve>> \in graph.at_risk

\* ingest_sbom mirrors after its commit and gives up when that fails: but every
\* document that is missing from the graph, in part or as a whole, is still being
\* mirrored or paid for by a failure of its own.
OneDocumentPerFault ==
    Cardinality({d \in DOMAIN documents : ~IsMirrored(documents[d])})
        <= faults + Cardinality({h \in Handlers : job[h].step \in {"summary", "mirror"}})

\* The alerts on a CVE of a vendor that are called for, sent, and about to be sent.
Findings(vendor, cve) ==
    Cardinality({f \in UNION {{d} \X DOMAIN documents[d].scan : d \in DOMAIN documents} :
        /\ documents[f[1]].vendor = vendor
        /\ \E v \in CriticalVulnerabilities(documents[f[1]].scan[f[2]]) : v.cve = cve})
IsAbout(m, vendor, cve) == m.kind = "cve" /\ m.vendor = vendor /\ m.cve = cve
Sent(vendor, cve) ==
    MapThenSumSet(LAMBDA m : published[m], {m \in BagToSet(published) : IsAbout(m, vendor, cve)})
ToSend(vendor, cve) ==
    Cardinality({p \in UNION {{h} \X DOMAIN job[h].alerts : h \in {k \in Handlers : job[k] # Idle}} :
        IsAbout(job[p[1]].alerts[p[2]], vendor, cve)})

\* What monitoring-service is told is what the answers call critical: no alert is
\* sent for anything else, or once too often, and when nothing failed each finding
\* of each committed bill has been sent or is about to be.
AlertsMatchFindings ==
    \A v \in Vendors, cve \in {c.id : c \in {PlantedCve} \cup UNION {Range(NvdDraws[n]) : n \in DOMAIN NvdDraws}} :
        /\ Sent(v, cve) + ToSend(v, cve) <= Findings(v, cve)
        /\ faults = 0 => Sent(v, cve) + ToSend(v, cve) = Findings(v, cve)
=============================================================================
