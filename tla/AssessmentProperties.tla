------------------------ MODULE AssessmentProperties ------------------------
(* What Assessments is checked for.                                        *)
EXTENDS Assessments

Steps == {"idle", "questionnaire", "stack", "evidence", "flush", "commitScore", "update",
          "anomaly", "assess", "commitAssessment", "verdict"}

\* Every row has its six sub-scores, in the range of its columns, and every
\* assessment counts each control of its scope once.
TypeOK ==
    /\ position \in [Groups -> 0..Len(topic)] /\ committed \in [Groups -> 0..Len(topic)]
    /\ \A t \in Tasks : task[t].step \in Steps
    /\ \A r \in scores : /\ r.parts \in [Categories -> 0..FullScore]
                         /\ r.vrs \in 0..FullScore /\ r.tier \in Tiers
    /\ \A a \in assessments :
          LET summary == a.outcome.summary IN
          /\ summary.compliant + summary.partial + summary.gap <= summary.total
          /\ summary.total = Cardinality(ResolveScope(Library, a.outcome.framework))

Handled(g, i) ==
    \E r \in (IF g = "risk" THEN scores ELSE assessments) : r.trigger = i

\* handle_vendor_lifecycle_event: the position of an event may be committed before
\* its handler ends, and a handler may fail half way; but each read, crash or
\* exception costs at most the one event that was being handled.
OneLossPerFault ==
    \A g \in Groups :
        faults >= Cardinality({i \in 1..position[g] :
                                  Triggers(g, i) /\ ~Handled(g, i) /\ task[g].trigger # i})

\* TRIGGER_STATES: the consumers catch up, again and again: every event that calls
\* for it has led to a score, or an assessment, unless something failed.
ConsumersCatchUp ==
    []<>(faults > 0 \/ \A g \in Groups, i \in DOMAIN topic : Triggers(g, i) => Handled(g, i))

\* compute_for_vendor reads the questionnaire's score when the event is handled,
\* not when it was sent, and analysts compute scores meanwhile; but when nothing
\* failed and nothing is left to do, a vendor in a trigger state has a row of the
\* consumer.  If its questionnaire was completed, the newest one has the score
\* vendor-service would answer now, unless requests to vendor-service overlapped:
\* an answer that read the questionnaire earlier is still stored in a completed one.
Completed(v) ==
    LET mine == Vendor!OfVendor(v) IN mine # {} /\ questionnaires[Max(mine)].status = "COMPLETED"
Overlapping == \E g, h \in Handlers : g # h
FreshWhenDrained ==
    Drained /\ faults = 0 /\ failures = 0 =>
        \A v \in DOMAIN vendors :
            vendors[v].state \in TriggerStates.risk =>
                LET mine == {r \in scores : r.vendor = v /\ r.trigger > 0} IN
                \E r \in mine :
                    /\ \A q \in mine : q.at <= r.at
                    /\ Completed(v) /\ ~Overlapping => r.parts.questionnaire = CurrentScore(v)

\* RISK_SCORE_UPDATES and RISK_ANOMALY_ALERTS announce rows the consumer committed,
\* each at most once, whatever other computations of the vendor run meanwhile.
UpdatesAreRows ==
    \A m \in Range(updates) :
        Cardinality({i \in DOMAIN updates : updates[i] = m}) <=
            Cardinality({r \in scores : r.trigger > 0 /\ m = Message(m.kind, r)
                                        /\ (m.kind = "anomaly" => r.anomalous)})
=============================================================================
