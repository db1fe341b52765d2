----------------------------- MODULE RiskScore ------------------------------
(***************************************************************************)
(* risk-service without its database: the six sub-scores of a vendor, the  *)
(* vendor risk score made of them, its tier, and the dashboard.            *)
(*                                                                         *)
(* Scores are in hundredths, the precision of their columns; a sub-score   *)
(* is a goodness, 10000 for a healthy vendor, the vendor risk score (VRS)  *)
(* a risk.  Arithmetic is exact where the code's is in floating point.     *)
(***************************************************************************)
EXTENDS VendorLifecycle

FullScore == 10000
\* Sub-scores start from a hundred and are floored at 0.
Unfloored(score) == score
Floor(score) == IF score < 0 THEN 0 ELSE score

\* In percent.
Weights ==
    [questionnaire |-> 25, posture |-> 20, vulnerability |-> 20,
     breach |-> 15, threat |-> 15, compliance |-> 5]
Categories == DOMAIN Weights

WeightedGoodness(scores) == SumFunction([c \in Categories |-> Weights[c] * scores[c]])
ComputeVrs(scores) == RoundRatio(Floor(100 * FullScore - WeightedGoodness(scores)), 100)

TierBands == {<<7500, "Critical">>, <<5500, "High">>, <<3500, "Medium">>, <<0, "Low">>}
TierForVrs(vrs) ==
    CHOOSE tier \in Tiers :
        \E band \in TierBands :
            /\ band[2] = tier /\ vrs >= band[1]
            /\ \A b \in TierBands : vrs >= b[1] => band[1] >= b[1]

------------------------------------------------------------------------------
(* The sub-scores.  A CVE is its CVSS score in tenths and whether CISA     *)
(* lists it as exploited; cvesOf gives the list of each component.         *)

BreachHistoryScore(reports) == Floor(FullScore - 1500 * reports)
ThreatIntelScore(matches) == Floor(FullScore - 1000 * matches)

CvePenalty(cve) ==
    CASE cve.cvss >= 90 -> IF cve.kev THEN 6000 ELSE 4000
      [] cve.cvss \in 70..89 -> 2000
      [] cve.cvss \in 40..69 -> 1000
      [] cve.cvss < 40 -> 300
Penalties(cves) == SumFunction([i \in DOMAIN cves |-> CvePenalty(cves[i])])
VulnerabilityScore(stack, cvesOf) ==
    Floor(FullScore - SumFunction([i \in DOMAIN stack |-> Penalties(cvesOf[stack[i].component])]))

DocumentWeight(type) ==
    CASE type = "ISO27001_CERT" -> 4000
      [] type = "SOC2_REPORT" -> 3000
      [] type = "PCI_DSS_AOC" -> 2000
      [] OTHER -> 1000
EvidenceScore(ids, typeOf) ==
    Min({FullScore, SumFunction([d \in ids |-> DocumentWeight(typeOf[d])])})

------------------------------------------------------------------------------
(* What the anomaly model is given, and the dashboard over the latest row  *)
(* of each vendor: rows are [vendor, at, vrs, tier].                       *)

DeltaVsPrevious(vrs, previous) == IF previous = {} THEN 0 ELSE vrs - Max(previous)
Features(scores, vrs, tier, delta) ==
    [scores |-> scores, vrs |-> vrs, tier |-> TierRanks[tier], delta |-> delta]

LatestRows(rows) ==
    {r \in rows : \A s \in rows : s.vendor = r.vendor => s.at <= r.at}
VrsBuckets == {<<0, 2000>>, <<2000, 4000>>, <<4000, 6000>>, <<6000, 8000>>, <<8000, 10100>>}
RiskDashboard(rows) ==
    [tier_breakdown |->
        [t \in Tiers |-> Cardinality({r \in LatestRows(rows) : r.tier = t})],
     vrs_distribution |->
        [b \in VrsBuckets |->
            Cardinality({r \in LatestRows(rows) : b[1] <= r.vrs /\ r.vrs < b[2]})]]
=============================================================================
