-------------------------- MODULE VendorLifecycle --------------------------
(***************************************************************************)
(* vendor-service without its database: the onboarding state machine, the  *)
(* risk tier, and the questionnaire a tier calls for with its score.       *)
(***************************************************************************)
EXTENDS Integers, Sequences, FiniteSets, FiniteSetsExt, Functions

States == {"INITIATED", "QUESTIONNAIRE_SENT", "QUESTIONNAIRE_COMPLETED",
           "ASSESSMENT_IN_PROGRESS", "ONBOARDED", "REJECTED"}
TerminalStates == {"ONBOARDED", "REJECTED"}

AllowedTransitions ==
    [state \in States |->
        CASE state = "INITIATED" -> {"QUESTIONNAIRE_SENT"}
          [] state = "QUESTIONNAIRE_SENT" -> {"QUESTIONNAIRE_COMPLETED"}
          [] state = "QUESTIONNAIRE_COMPLETED" -> {"ASSESSMENT_IN_PROGRESS"}
          [] state = "ASSESSMENT_IN_PROGRESS" -> TerminalStates
          [] OTHER -> {}]

ValidTransition(current, target) == target \in AllowedTransitions[current]

------------------------------------------------------------------------------
(* Tiering.                                                                *)

TierRanks == [Low |-> 0, Medium |-> 1, High |-> 2, Critical |-> 3]
Tiers == DOMAIN TierRanks
Dimensions == {"data_access_scope", "service_criticality", "integration_depth"}

TierOfRank(rank) == CHOOSE tier \in Tiers : TierRanks[tier] = rank
ComputeTier(dims) == TierOfRank(Max({TierRanks[dims[d]] : d \in Dimensions}))

------------------------------------------------------------------------------
(* The question bank.  A question is its domain, counted from 0, and its   *)
(* rank; the texts are left out.                                           *)

AllQuestions(domains) == (0..domains - 1) \X (1..3)

\* Half of the domains ask a second question at the Medium tier.
MaxRank(tier, domain) ==
    CASE tier = "Critical" -> 3
      [] tier = "High" -> 2
      [] tier = "Medium" -> IF domain % 2 = 0 THEN 2 ELSE 1
      [] tier = "Low" -> 1

QuestionsForTier(domains, tier) ==
    {q \in AllQuestions(domains) : q[2] <= MaxRank(tier, q[1])}

Unanswered == "none"
Answers == {"YES", "PARTIAL", "NO", "NA"}
NoScore == -1
ScoreForAnswer(answer) ==
    IF answer \in {Unanswered, "NA"} THEN NoScore
    ELSE [YES |-> 100, PARTIAL |-> 50, NO |-> 0][answer]

\* Python's round: to the nearest integer, a half to the even one.
RoundRatio(a, b) ==
    LET q == a \div b
        r == 2 * (a % b)
    IN  IF r > b \/ (r = b /\ q % 2 = 1) THEN q + 1 ELSE q

\* GET .../questionnaire/score, in hundredths: the average over the responses
\* that have a score, 0 when none has.
QuestionnaireScore(responses) ==
    LET scored == {q \in DOMAIN responses : responses[q].score # NoScore}
        total == FoldFunctionOnSet(+, 0, [q \in scored |-> responses[q].score], scored)
    IN  IF scored = {} THEN 0 ELSE RoundRatio(100 * total, Cardinality(scored))
=============================================================================
