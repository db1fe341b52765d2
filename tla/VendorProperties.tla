------------------------- MODULE VendorProperties --------------------------
(* What VendorService is checked for.                                      *)
EXTENDS VendorService

VendorRow == [dims : [Dimensions -> Tiers], tier : Tiers, state : States]
QuestionnaireRow(tier) ==
    [vendor : DOMAIN vendors, tier : {tier}, status : {"SENT", "IN_PROGRESS", "COMPLETED"},
     responses : [QuestionsForTier(NumDomains, tier) ->
                    [answer : Answers \cup {Unanswered}, score : {NoScore, 0, 50, 100}]]]

\* The committed rows keep the shape of the tables, and a questionnaire asks
\* what its own tier calls for, whatever tier the vendor has by now.
TypeOK ==
    /\ DOMAIN vendors \subseteq 1..MaxVendors
    /\ \A v \in DOMAIN vendors : vendors[v] \in VendorRow
    /\ DOMAIN questionnaires \subseteq 1..MaxRequests
    /\ \A q \in DOMAIN questionnaires :
           questionnaires[q] \in QuestionnaireRow(questionnaires[q].tier)
    /\ documents \subseteq [id : 1..MaxRequests, vendor : 1..MaxVendors]
    /\ files \subseteq 1..MaxRequests
    /\ pc \in [Handlers \cup Listers ->
                {"idle", "latest", "responses", "store", "commit", "refresh", "publish",
                 "count", "page"}]

\* update_responses: a completed questionnaire has an answer to every question,
\* although each request completes it from the responses it read itself.
CompletedIsAnswered ==
    \A q \in DOMAIN questionnaires :
        questionnaires[q].status = "COMPLETED" =>
            \A code \in DOMAIN questionnaires[q].responses :
                questionnaires[q].responses[code].answer # Unanswered

\* update_responses: the step that completes a questionnaire also leaves its
\* vendor at QUESTIONNAIRE_COMPLETED; one without the other is rolled back.
CompletionMovesVendor ==
    [][\A q \in DOMAIN questionnaires :
          questionnaires[q].status # "COMPLETED" /\ questionnaires'[q].status = "COMPLETED" =>
              vendors'[questionnaires[q].vendor].state = "QUESTIONNAIRE_COMPLETED"]_vars

\* Requests that move a vendor or answer for it load its whole row, and may commit
\* after a PATCH did: they leave its dimensions and tier alone.
OnlyPatchesRetier ==
    [][\A v \in DOMAIN vendors :
          \/ vendors'[v].dims = vendors[v].dims /\ vendors'[v].tier = vendors[v].tier
          \/ \E h \in Patchers : /\ pc[h] = "commit" /\ pc'[h] # "commit"
                                 /\ sess[h].op = "update" /\ sess[h].vendor = v]_vars

\* upload_document: a request may be cut off anywhere, or its commit may fail; what
\* it leaves behind is at worst a file without a row, never a row without its file.
DocumentsHaveFiles == \A d \in documents : d.id \in files

\* list_vendor_ids: vendors created while a client pages through the list move
\* the others back by one, and the count that ends the listing may be older than
\* its last page.  Each vendor created meanwhile hides at most one of those there
\* were when the listing began, unless it was cut short.
SkippedByCreation ==
    \A l \in Listers :
        LET seen == Range(listing[l].listed)
            known == listing[l].known
        IN  listing[l].complete =>
                Max({PortfolioLimit, Cardinality(known)}) - PortfolioLimit
                    + Cardinality(DOMAIN vendors \ known) >= Cardinality(known \ seen)

\* Lifecycle events announce committed, legal steps, each once or, when its request
\* is cut off or the broker is away, never; and no step stays pending.
ImplementsTopic == Topic!Spec

\* "ONBOARDED and REJECTED are terminal."  It fails when two requests decide on
\* the state they both loaded.
TerminalIsFinal ==
    [][\A v \in DOMAIN vendors :
          vendors[v].state \in TerminalStates => vendors'[v].state = vendors[v].state]_vars
=============================================================================
