---------------------------- MODULE MCAssessments ----------------------------
(* Instances of Assessments for TLC. *)
EXTENDS AssessmentProperties, ControlLibrary, TLC

AllLow == {[d \in Dimensions |-> "Low"]}
OfTheVendors == [posture |-> 6400, reports |-> 1, matches |-> 2]
OneExploited ==
    [log4j |-> <<[cvss |-> 100, kev |-> TRUE], [cvss |-> 90, kev |-> FALSE],
                 [cvss |-> 61, kev |-> TRUE]>>]
AllCertificates == [d \in 1..MaxRequests |-> "ISO27001_CERT"]
AnyDrop(features) == features.delta < 0

Ctl(fw, w) == [framework |-> fw, domain |-> 1, weight |-> w, number |-> 1]
TwoControls == {Ctl("SOC2", 5), Ctl("SOC2", 2)}
OneGap == [c \in TwoControls |-> IF c.weight = 5 THEN "gap" ELSE "met"]
Reviewed == {Ctl("SOC2", 5) :> "met"}

------------------------------------------------------------------------------
(* Facts about the pure definitions, over small sets of inputs.            *)

\* control_library/__init__.py and iso27001.py count the controls of ISO 27001.
ASSUME LibraryCounts ==
    /\ FrameworkControlCounts =
          [ISO27001 |-> 93, PCI_DSS |-> 77, SOC2 |-> 52, NDPR |-> 30, CBN |-> 29]
    /\ LibrarySize = 281
    /\ \A d \in 1..4 : <<37, 8, 14, 34>>[d] =
          Cardinality({c \in ControlsForFramework("ISO27001") : c.domain = d})

\* The report, made from rows, says what the engine said when it made them; with
\* statuses that do not apply, with none that does, and in the order of the gaps.
Shelf == {[framework |-> fw, domain |-> d, weight |-> w, number |-> 1] :
            <<fw, d, w>> \in {<<"SOC2", 1, 5>>, <<"SOC2", 2, 4>>, <<"SOC2", 2, 3>>, <<"CBN", 1, 2>>}}
ASSUME ReportAgreesWithEngine ==
    \A results \in [Shelf -> ControlStatuses] :
        LET rows == ControlResults(results) IN
        /\ {[framework |-> d.framework, domain |-> d.domain, gap |-> d.row.gap,
             partial |-> d.row.partial, score |-> d.row.score] : d \in DomainBreakdownFromRows(rows)}
           = {[framework |-> d.framework, domain |-> d.domain, gap |-> d.summary.gap,
               partial |-> d.summary.partial, score |-> d.score] : d \in DomainBreakdown(results)}
        /\ [i \in DOMAIN PrioritiseGaps(rows) |-> PrioritiseGaps(rows)[i].control] = RankGaps(results)
        /\ Summarise(results).critical =
              Cardinality({i \in DOMAIN RankGaps(results) : RankGaps(results)[i] \in CriticalGaps(results)})

\* A compliant vendor of the whole library may have critical gaps: every control is
\* met but the heaviest ones of a domain.
ASSUME CompliantWithCriticalGaps ==
    LET results == [c \in AllControls |->
                      IF c.framework = "NDPR" /\ c.weight >= CriticalGapWeight THEN "gap" ELSE "met"]
    IN  /\ StatusFromScore(ComplianceScore(results)) = "Compliant"
        /\ Summarise(results).critical = 20

\* A vendor without any good score is Critical, a perfect one Low, and a better
\* sub-score never raises the risk.
ASSUME VrsIsMonotone ==
    /\ TierForVrs(ComputeVrs([c \in Categories |-> 0])) = "Critical"
    /\ ComputeVrs([c \in Categories |-> FullScore]) = 0
    /\ \A s \in [Categories -> {0, 3333, FullScore}], c \in Categories :
          ComputeVrs(s) >= ComputeVrs([s EXCEPT ![c] = FullScore])

\* Every vendor that has a row is counted once in each part of the risk dashboard,
\* whatever its score; the compliance dashboard forgets the vendor whose rows are
\* not among the newest ones.
ASSUME Dashboards ==
    /\ \A vrs \in {0, 1999, 2000, 3500, 7500, 9999, 10000} :
          LET rows == {[vendor |-> v, at |-> t, vrs |-> IF t = 2 THEN vrs ELSE 0,
                        tier |-> TierForVrs(IF t = 2 THEN vrs ELSE 0)] : v \in {1, 2}, t \in {1, 2}}
              board == RiskDashboard(rows)
          IN  /\ board.tier_breakdown[TierForVrs(vrs)] = 2
              /\ SumFunction(board.vrs_distribution) = 2
    /\ LET row(v, t) == [vendor |-> v, at |-> t, score |-> 7000, status |-> StatusFromScore(7000)]
           rows == {row(1, 1), row(2, 2), row(2, 3), row(2, 4)}
       IN  /\ ComplianceDashboard(rows, 4).vendors = 2
           /\ ComplianceDashboard(rows, 3).vendors = 1
           /\ ComplianceDashboard(rows, 4).average = 7000
=============================================================================
