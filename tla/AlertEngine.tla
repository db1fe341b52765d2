----------------------------- MODULE AlertEngine -----------------------------
(***************************************************************************)
(* How monitoring-service turns posture readings and inbound events into   *)
(* alert specs: services/posture.py and services/alert_engine.py.  Pure    *)
(* functions, no state.                                                    *)
(*                                                                         *)
(* Points of the exposure index are counted in hundredths, and a posture   *)
(* score in tenths, as the code rounds them, so integers lose nothing.     *)
(***************************************************************************)
EXTENDS Integers, Sequences

\* Low, Medium, High and Critical.
SeverityRanks == 0..3
Medium == 1
High == 2
Critical == 3

\* settings.posture_drift_warning and settings.posture_drift_critical
DriftWarning == 800
DriftCritical == 2000

AtMost(n, cap) == IF n < cap THEN n ELSE cap

\* compute_exposure_index: 60% inverse posture, 25% indicators of compromise
\* (4 and more count as 4), 15% abuse reports (5 and more count as 5).
ExposureIndex(reading) ==
    (1000 - reading.posture) * 6
        + AtMost(reading.iocs, 4) * 625 + AtMost(reading.abuse, 5) * 300

\* The drift of a vendor's first snapshot is 0.
Drift(reading, prev) ==
    IF prev = {} THEN 0
    ELSE ExposureIndex(reading) - (CHOOSE p \in prev : TRUE).exposure

\* The boundary itself would not alert, or the first snapshot would.
DriftAboveWarning(reading, prev) == prev # {} /\ Drift(reading, prev) > DriftWarning
Drifted(reading, prev) == prev # {} /\ Drift(reading, prev) >= DriftWarning

\* Services exposed now and not in the previous snapshot; prev holds the
\* previous snapshot, or nothing.
NewServices(reading, prev) == reading.services \ UNION {p.services : p \in prev}

Raised(key, reading, prev) ==
    CASE key[1] = "POSTURE_DRIFT"       -> Drifted(reading, prev)
      [] key[1] = "NEW_EXPOSED_SERVICE" -> key[2] \in NewServices(reading, prev)
      [] key[1] = "THREAT_INTEL_MATCH"  -> reading.iocs > 0

SeverityOf(key, reading, prev) ==
    CASE key[1] = "POSTURE_DRIFT" ->
           IF Drift(reading, prev) >= DriftCritical THEN Critical ELSE High
      [] key[1] = "NEW_EXPOSED_SERVICE" -> High
      [] key[1] = "THREAT_INTEL_MATCH" -> IF reading.iocs >= 3 THEN High ELSE Medium

\* What a reading of vendor v says about one dedup key, the type of an alert and
\* what it is about: a spec or nothing.
Finding(v, key, reading, prev) ==
    IF Raised(key, reading, prev)
    THEN <<[vendor |-> v, key |-> key, severity |-> SeverityOf(key, reading, prev)]>>
    ELSE <<>>

\* evaluate_snapshot: the specs a reading of vendor v raises, those about
\* sensitive services (_SENSITIVE_SERVICES) in the order of sorted().
EvaluateSnapshot(v, reading, prev) ==
    LET Found(type, item) == Finding(v, <<type, item>>, reading, prev)
    IN  Found("POSTURE_DRIFT", "")
            \o Found("NEW_EXPOSED_SERVICE", "ftp") \o Found("NEW_EXPOSED_SERVICE", "rdp")
            \o Found("NEW_EXPOSED_SERVICE", "smtp") \o Found("NEW_EXPOSED_SERVICE", "telnet")
            \o Found("THREAT_INTEL_MATCH", "")

\* alert_from_event: an event of another service, at most one spec.  `item' is
\* the CVE or the framework; a compliant assessment without critical gaps and an
\* event of another kind raise nothing.
AlertFromEvent(e) ==
    LET One(type, item, severity) ==
            <<[vendor |-> e.vendor, key |-> <<type, item>>, severity |-> severity]>>
    IN  CASE e.kind = "cve" -> One("CRITICAL_CVE", e.item, Critical)
          [] e.kind = "compliance" /\ e.status = "Non-Compliant" ->
               One("COMPLIANCE_GAP", e.item, High)
          [] e.kind = "compliance" /\ e.status # "Non-Compliant" /\ e.gaps > 0 ->
               One("COMPLIANCE_GAP", e.item, Medium)
          [] e.kind = "anomaly" -> One("RISK_ANOMALY", "", High)
          [] OTHER -> <<>>
=============================================================================
