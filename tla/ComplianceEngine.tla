-------------------------- MODULE ComplianceEngine --------------------------
(***************************************************************************)
(* compliance-service's assessment engine and its report.  A control is a  *)
(* record [framework, domain, weight, number]; the results of an           *)
(* assessment give a status to each control in its scope.  Scores are in   *)
(* hundredths.  Texts (evidence, remediation, attestation) are left out.   *)
(***************************************************************************)
EXTENDS VendorLifecycle, SequencesExt

ControlStatuses == {"met", "partial", "gap", "not_applicable"}
CriticalGapWeight == 4

ResolveScope(library, framework) ==
    IF framework = "ALL" THEN library ELSE {c \in library : c.framework = framework}

\* overrides: a status for some control ids; those out of the scope are ignored.
EvaluateControls(library, framework, baseline, overrides) ==
    [c \in ResolveScope(library, framework) |->
        IF c \in DOMAIN overrides THEN overrides[c] ELSE baseline[c]]

With(results, status) == {c \in DOMAIN results : results[c] = status}
CriticalGaps(results) == {c \in With(results, "gap") : c.weight >= CriticalGapWeight}

WeightOf(controls) ==
    MapThenSumSet(LAMBDA w : w * Cardinality({c \in controls : c.weight = w}), 1..5)

\* Credit is counted in halves: a control that is met earns two.
ComplianceScore(results) ==
    LET possible == WeightOf(DOMAIN results \ With(results, "not_applicable"))
        earned == 2 * WeightOf(With(results, "met")) + WeightOf(With(results, "partial"))
    IN  IF possible = 0 THEN 10000 ELSE RoundRatio(5000 * earned, possible)

StatusFromScore(score) ==
    CASE score >= 8500 -> "Compliant"
      [] score \in 6000..8499 -> "Partially Compliant"
      [] score < 6000 -> "Non-Compliant"

FrameworkScores(results) ==
    [fw \in {c.framework : c \in DOMAIN results} |->
        ComplianceScore(RestrictDomain(results, LAMBDA c : c.framework = fw))]

Summarise(results) ==
    [total |-> Cardinality(DOMAIN results),
     compliant |-> Cardinality(With(results, "met")),
     partial |-> Cardinality(With(results, "partial")),
     gap |-> Cardinality(With(results, "gap")),
     critical |-> Cardinality(CriticalGaps(results))]

DomainRow(framework, domain, results) ==
    [framework |-> framework, domain |-> domain, summary |-> Summarise(results),
     score |-> ComplianceScore(results)]
DomainBreakdown(results) ==
    {DomainRow(c.framework, c.domain,
               RestrictDomain(results, LAMBDA d : d.framework = c.framework /\ d.domain = c.domain)) :
        c \in DOMAIN results}

\* Failing controls, critical gaps first, then gaps, then by descending weight.
GapKey(c, results) ==
    (IF c \in CriticalGaps(results) THEN 0 ELSE 20)
        + (IF results[c] = "gap" THEN 0 ELSE 10) + (5 - c.weight)
RankGaps(results) ==
    SetToSortSeq(With(results, "gap") \cup With(results, "partial"),
                 LAMBDA c, d : GapKey(c, results) < GapKey(d, results))

------------------------------------------------------------------------------
(* What run_assessment stores, and the report, which reads only the rows.  *)

Assessment(vendor, framework, results, actor) ==
    [vendor |-> vendor, framework |-> framework, actor |-> actor,
     score |-> ComplianceScore(results), status |-> StatusFromScore(ComplianceScore(results)),
     summary |-> Summarise(results), framework_scores |-> FrameworkScores(results)]
ControlResults(results) ==
    {[control |-> c, status |-> results[c], critical |-> c \in CriticalGaps(results)] :
        c \in DOMAIN results}

RowWeight(rows, status) == WeightOf({r.control : r \in {q \in rows : q.status = status}})
ReportDomain(rows) ==
    LET count(status) == Cardinality({r \in rows : r.status = status})
        met == RowWeight(rows, "met")
        partial == RowWeight(rows, "partial")
        possible == met + partial + RowWeight(rows, "gap")
    IN  [met |-> count("met"), partial |-> count("partial"), gap |-> count("gap"),
         not_applicable |-> count("not_applicable"),
         score |-> IF possible = 0 THEN 10000 ELSE RoundRatio(5000 * (2 * met + partial), possible)]
DomainBreakdownFromRows(rows) ==
    {[framework |-> d[1], domain |-> d[2],
      row |-> ReportDomain({r \in rows : <<r.control.framework, r.control.domain>> = d})] :
        d \in {<<r.control.framework, r.control.domain>> : r \in rows}}
PrioritiseGaps(rows) ==
    SetToSortSeq({r \in rows : r.status \in {"gap", "partial"}},
                 LAMBDA r, s :
                    \/ r.critical /\ ~s.critical
                    \/ r.critical = s.critical /\ r.status = "gap" /\ s.status # "gap"
                    \/ /\ r.critical = s.critical /\ r.status = s.status
                       /\ r.control.weight > s.control.weight)

\* The dashboard: the latest of the newest `limit' assessments of each vendor.
NewestRows(rows, limit) ==
    {a \in rows : Cardinality({b \in rows : b.at > a.at}) < limit}
LatestAssessments(rows, limit) ==
    {a \in NewestRows(rows, limit) :
        \A b \in NewestRows(rows, limit) : b.vendor = a.vendor => b.at <= a.at}
ComplianceDashboard(rows, limit) ==
    LET latest == LatestAssessments(rows, limit) IN
    [total |-> Cardinality(rows), vendors |-> Cardinality(latest),
     average |-> IF latest = {} THEN 0
                 ELSE RoundRatio(MapThenSumSet(LAMBDA a : a.score, latest), Cardinality(latest)),
     status_breakdown |->
        [s \in {"Compliant", "Partially Compliant", "Non-Compliant"} |->
            Cardinality({a \in latest : a.status = s})]]
=============================================================================
