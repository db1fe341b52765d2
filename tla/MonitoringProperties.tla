------------------------ MODULE MonitoringProperties ------------------------
(***************************************************************************)
(* What monitoring-service promises, as invariants, action properties and  *)
(* liveness properties of MonitoringService.                               *)
(***************************************************************************)
EXTENDS MonitoringService

\* Dedup keys: the type of an alert and what it is about.
AlertTypes == {"POSTURE_DRIFT", "NEW_EXPOSED_SERVICE", "THREAT_INTEL_MATCH", "CRITICAL_CVE",
               "COMPLIANCE_GAP", "RISK_ANOMALY"}
Subjects == {"", "ftp", "rdp", "smtp", "telnet"} \cup {e.item : e \in Inbound}
Keys == AlertTypes \X Subjects

Row == [vendor : Vendors, key : Keys, severity : SeverityRanks,
        status : {"open", "acknowledged", "resolved"}, count : Nat \ {0},
        published : BOOLEAN, resolvedAt : BOOLEAN]

Steps == {"idle", "vendor", "select", "flush", "commit", "refresh", "publish", "flag"}

\* The type of the shared variables; a session holds rows of the same type.
TypeOK ==
    /\ DOMAIN alerts \subseteq 1..alertSeq /\ alertSeq \in Nat
    /\ \A n \in DOMAIN alerts : alerts[n] \in Row
    /\ \A p \in snapshots : p.vendor \in Vendors /\ p.at \in 1..clock
    /\ sent \in Seq([alert : Nat, severity : SeverityRanks,
                     status : {"open", "acknowledged", "resolved"}])
    /\ pc \in [Sessions -> Steps]
    /\ \A s \in Sessions : \A i \in DOMAIN sess[s].objs : sess[s].objs[i].row \in Row

------------------------------------------------------------------------------
(* Deduplication and the alert lifecycle (upsert_alert, routers/alerts.py).*)

Unresolved == {n \in DOMAIN alerts : alerts[n].status # "resolved"}

\* (vendor_id, dedup_key) is unique among unresolved alerts, although no
\* constraint of the table says so.
OneOpenAlert ==
    \A m, n \in Unresolved :
        alerts[m].vendor = alerts[n].vendor /\ alerts[m].key = alerts[n].key => m = n

------------------------------------------------------------------------------
(* Snapshots (sweep_vendor).                                               *)

Older(p) == {q \in snapshots : q.vendor = p.vendor /\ q.at < p.at}

\* The drift stored with a snapshot is the difference to the snapshot that
\* precedes it in observation order, and 0 for a vendor's first one.
DriftIsDelta ==
    \A p \in snapshots :
        \/ Older(p) = {} /\ p.drift = 0
        \/ \E q \in Older(p) :
              /\ \A r \in Older(p) : r.at <= q.at
              /\ p.drift = p.exposure - q.exposure

\* No deterioration goes unnoticed: a snapshot whose drift reaches the warning
\* threshold is committed with an alert at least as severe as the drift.
DriftAlerts ==
    \A p \in snapshots :
        p.drift >= DriftWarning =>
            \E n \in DOMAIN alerts :
                /\ alerts[n].vendor = p.vendor
                /\ alerts[n].key = <<"POSTURE_DRIFT", "">>
                /\ alerts[n].severity >= (IF p.drift >= DriftCritical THEN Critical ELSE High)

------------------------------------------------------------------------------
(* Publication (publish_alerts, _handle_event).                            *)

\* Only committed alerts are announced, and never as worse than they are: what
\* reaches incident-service survives a rollback of the sweep.
MessagesAreCommitted ==
    \A k \in DOMAIN sent :
        /\ sent[k].alert \in DOMAIN alerts
        /\ sent[k].severity <= alerts[sent[k].alert].severity

\* An alert that is marked published was announced with the severity it has: an
\* escalation always clears the mark.
PublishedIsAnnounced ==
    \A n \in DOMAIN alerts :
        alerts[n].published =>
            \E k \in DOMAIN sent :
                sent[k].alert = n /\ sent[k].severity = alerts[n].severity

\* No alert stays unannounced: again and again, every alert that was opened or
\* changed has been announced and is marked.
AlertsAnnounced == []<>(\A n \in DOMAIN alerts : alerts[n].published)

------------------------------------------------------------------------------
(* Sessions.                                                               *)

\* No session waits for ever for a row or for the broker.
EverySessionEnds == \A s \in Sessions : pc[s] # "idle" ~> pc[s] = "idle"
=============================================================================
