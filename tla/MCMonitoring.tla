---------------------------- MODULE MCMonitoring ----------------------------
(* Instances of MonitoringService for TLC. *)
EXTENDS MonitoringProperties, TLC

OneVendor == <<"v1">>
TwoVendors == <<"v1", "v2">>

Reading(posture, services, iocs) ==
    [posture |-> posture, services |-> services, iocs |-> iocs, abuse |-> 0]

\* A healthy vendor, one that has degraded by exactly the warning threshold, and one
\* far beyond the critical one with a sensitive service and indicators.
Healthy == Reading(900, {"https"}, 0)
Degraded == Reading(975, {"https"}, 2)
Exposed == [Reading(600, {"https", "rdp"}, 3) EXCEPT !.abuse = 6]
DriftingReadings == {Healthy, Degraded, Exposed}

\* An indicator that persists: every sweep raises the same finding.
Suspicious == Reading(900, {"https"}, 1)
OneReading == {Suspicious}

Cve == [kind |-> "cve", vendor |-> "v1", item |-> "CVE-1", status |-> "", gaps |-> 0]
Gap(status) ==
    [kind |-> "compliance", vendor |-> "v1", item |-> "ISO", status |-> status, gaps |-> 1]
ComplianceEvents == {Gap("Partially Compliant"), Gap("Non-Compliant")}
AllEvents == ComplianceEvents \cup
    {Cve, [Cve EXCEPT !.kind = "anomaly"], [Cve EXCEPT !.kind = "other"]}
NoEvents == {}

\* The uuids of the alerts sort as, or against, the order they were opened in.
Ascending(n) == n
Descending(n) == 0 - n

Symmetry == Permutations(Sweepers) \cup Permutations(Analysts)
=============================================================================
