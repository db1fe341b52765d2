------------------------------ MODULE MCVendor ------------------------------
(* Instances of VendorService for TLC. *)
EXTENDS VendorProperties, TLC

AllLow == {[d \in Dimensions |-> "Low"]}
SomePatches == {[service_criticality |-> "Medium"], [integration_depth |-> "Medium"],
                [service_criticality |-> "Low"]}

\* The counts question_bank.py:9-12 announces, for its 12 domains.
ASSUME QuestionCounts ==
    \A tier \in Tiers : Cardinality(QuestionsForTier(12, tier)) =
        [Critical |-> 36, High |-> 24, Medium |-> 18, Low |-> 12][tier]

\* A single answer is its own score; NA does not count; a third is rounded, and a
\* half to the even neighbour.
Response(answer) == [answer |-> answer, score |-> ScoreForAnswer(answer)]
ASSUME ScoreExamples ==
    /\ \A a \in Answers \ {"NA"} :
           QuestionnaireScore(<<Response(a), Response("NA")>>) = 100 * ScoreForAnswer(a)
    /\ QuestionnaireScore(<<Response("NA")>>) = 0
    /\ QuestionnaireScore(<<Response("YES"), Response("NO"), Response("NO")>>) = 3333
    /\ QuestionnaireScore([i \in 1..16 |-> Response(IF i = 1 THEN "PARTIAL" ELSE "NO")]) = 312
=============================================================================
