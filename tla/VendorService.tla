--------------------------- MODULE VendorService ---------------------------
(***************************************************************************)
(* vendor-service: the requests that create, patch and move vendors,       *)
(* generate and answer questionnaires and upload documents, each with its  *)
(* own database session, and monitoring-service paging through the vendor  *)
(* list.                                                                   *)
(*                                                                         *)
(* Handlers await between statements, so requests interleave.  A request   *)
(* reads rows, changes them in memory and flushes them right before its    *)
(* commit, reading nothing in between: flush and commit are one step, and  *)
(* row locks only order these steps.  An UPDATE writes the columns whose   *)
(* value differs from the one read.                                        *)
(*                                                                         *)
(* Requests that are refused change nothing and are left out, as are audit *)
(* rows (record_audit_event is modelled in IncidentService).               *)
(***************************************************************************)
EXTENDS VendorLifecycle

CONSTANTS
    Handlers,      \* requests served at the same time
    Patchers,      \* those of them that may be a PATCH of a vendor
    Listers,       \* clients paging through the vendor list
    NewDims,       \* dimensions of the vendors that are created
    Patches,       \* dimensions a PATCH sets, each to a tier
    AnswersGiven,  \* answers that are given
    NumDomains,    \* domains of the question bank
    PageSize, PortfolioLimit,   \* of the vendor list's client
    MaxVendors,    \* bound: vendors created
    MaxRequests,   \* bound: requests, creations included
    ListingCost,   \* bound: the requests a listing counts for
    MaxFailures    \* bound: requests cut off, and publishes that fail

ASSUME HandlerAssumption ==
    Patchers \subseteq Handlers /\ Handlers \cap Listers = {}
ASSUME VendorDataAssumption ==
    /\ NewDims \subseteq [Dimensions -> Tiers]
    /\ \A p \in Patches : DOMAIN p \subseteq Dimensions /\ \A d \in DOMAIN p : p[d] \in Tiers
    /\ AnswersGiven \subseteq Answers
ASSUME VendorBoundAssumption ==
    /\ {MaxVendors, MaxRequests, ListingCost, MaxFailures} \subseteq Nat
    /\ {NumDomains, PageSize, PortfolioLimit} \subseteq Nat \ {0}

VARIABLES
    vendors,         \* committed vendors, numbered by created_at
    questionnaires,  \* committed questionnaires, numbered by created_at
    documents,       \* committed document rows
    files,           \* files of the document store, named by document
    seqs,            \* numbers taken so far, also by requests that rolled back
    topic,           \* VENDOR_LIFECYCLE_EVENTS
    pc, sess,        \* next step of each handler, and what it has in memory
    listing,         \* what each lister has collected
    requests, failures     \* counters of the bounds

dbVars == <<vendors, questionnaires, documents, files, seqs>>
boundVars == <<requests, failures>>
vars == <<dbVars, topic, pc, sess, listing, boundVars>>

Event(v, from, to, tier) == [vendor |-> v, from |-> from, to |-> to, tier |-> tier]

------------------------------------------------------------------------------
NoRow == [dims |-> <<>>, tier |-> "Low", state |-> ""]

\* read and row: the vendor as it was read and as it is now; q: the number of the
\* questionnaire or document at hand; qread and qrow: the questionnaire as it was
\* read and as it is now.
NoSession == [op |-> "none", vendor |-> 0, read |-> NoRow, row |-> NoRow,
              q |-> 0, qread |-> <<>>, qrow |-> <<>>]
NoListing == [page |-> 0, total |-> 0, listed |-> <<>>, known |-> {}, complete |-> FALSE]

NewVendor(dims) == [dims |-> dims, tier |-> ComputeTier(dims), state |-> "INITIATED"]
NoResponse == [answer |-> Unanswered, score |-> NoScore]
\* It would be wrong to ask what the vendor's tier calls for by now.
QuestionnaireOfRow(v, tier) ==
    [vendor |-> v, tier |-> tier, status |-> "SENT",
     responses |-> [q \in QuestionsForTier(NumDomains, vendors[v].tier) |-> NoResponse]]
NewQuestionnaire(v, tier) ==
    [vendor |-> v, tier |-> tier, status |-> "SENT",
     responses |-> [q \in QuestionsForTier(NumDomains, tier) |-> NoResponse]]

\* What an UPDATE leaves of a row; it would be wrong to write every column.
WholeRow(current, read, row) == row
Merge(current, read, row) ==
    [col \in DOMAIN current |-> IF row[col] # read[col] THEN row[col] ELSE current[col]]

MergeDims(current, read, row) ==
    [Merge(current, read, row) EXCEPT !.dims = Merge(current.dims, read.dims, row.dims)]
MergeResponses(current, read, row) ==
    [Merge(current, read, row) EXCEPT
        !.responses = [q \in DOMAIN @ |->
            Merge(current.responses[q], read.responses[q], row.responses[q])]]

\* A list request reads one page, newest first; page 1 is at offset 0.
Newest(S, k) == CHOOSE v \in S : Cardinality({w \in S : w > v}) = k - 1
PageOf(k) == {i \in (k - 1) * PageSize + 1..k * PageSize : i <= Cardinality(DOMAIN vendors)}
ListFromPage(k) ==
    [i \in 1..Cardinality(PageOf(k + 1)) |-> Newest(DOMAIN vendors, k * PageSize + i)]
ListVendors(k) ==
    LET first == (k - 1) * PageSize IN
    [i \in 1..Cardinality(PageOf(k)) |-> Newest(DOMAIN vendors, first + i)]

Init ==
    /\ vendors = <<>> /\ questionnaires = <<>>
    /\ documents = {} /\ files = {}
    /\ seqs = [vendor |-> 0, q |-> 0, document |-> 0]
    /\ topic = <<>>
    /\ pc = [h \in Handlers \cup Listers |-> "idle"]
    /\ sess = [h \in Handlers |-> NoSession]
    /\ listing = [l \in Listers |-> NoListing]
    /\ requests = 0 /\ failures = 0

------------------------------------------------------------------------------
(* Starting a request: the vendor is loaded and the request is validated.  *)

Move(h, step, record) ==
    /\ pc' = [pc EXCEPT ![h] = step]
    /\ sess' = [sess EXCEPT ![h] = record]

Finish(h) == Move(h, "idle", NoSession)

Take(seq, bound) == seqs[seq] < bound /\ seqs' = [seqs EXCEPT ![seq] = @ + 1]

Begin(h, step, record) ==
    /\ pc[h] = "idle"
    /\ requests < MaxRequests
    /\ requests' = requests + 1
    /\ Move(h, step, record)
    /\ UNCHANGED <<vendors, questionnaires, documents, files, topic, listing,
                   failures>>

\* POST /vendors
CreateVendor(h) ==
    \E dims \in NewDims :
        /\ Take("vendor", MaxVendors)
        /\ Begin(h, "commit", [NoSession EXCEPT
                    !.op = "create", !.vendor = seqs.vendor + 1, !.row = NewVendor(dims)])

\* A request about vendor v, which it loads first; row is what it makes of it.
Request(h, op, v, row, step, q) ==
    Begin(h, step, [NoSession EXCEPT !.op = op, !.vendor = v, !.read = vendors[v],
                                     !.row = row, !.q = q])

\* PATCH /vendors/{id}: the tier follows the dimensions.
UpdateVendor(h) ==
    \E v \in DOMAIN vendors, patch \in Patches :
        LET dims == [d \in Dimensions |->
                        IF d \in DOMAIN patch THEN patch[d] ELSE vendors[v].dims[d]]
        IN  /\ Request(h, "update", v,
                       [vendors[v] EXCEPT !.dims = dims, !.tier = ComputeTier(dims)],
                       "commit", 0)
            /\ UNCHANGED seqs

\* POST /vendors/{id}/transition
TransitionVendor(h) ==
    \E v \in DOMAIN vendors, target \in States :
        /\ ValidTransition(vendors[v].state, target)
        /\ Request(h, "transition", v, [vendors[v] EXCEPT !.state = target], "commit", 0)
        /\ UNCHANGED seqs

\* POST /vendors/{id}/questionnaire; created_at is the start of the transaction.
GenerateQuestionnaire(h) ==
    \E v \in DOMAIN vendors :
        /\ ValidTransition(vendors[v].state, "QUESTIONNAIRE_SENT")
        /\ Take("q", MaxRequests)
        /\ Request(h, "generate", v, [vendors[v] EXCEPT !.state = "QUESTIONNAIRE_SENT"],
                   "commit", seqs.q + 1)

\* PUT /vendors/{id}/questionnaire/responses
UpdateResponses(h) ==
    \E v \in DOMAIN vendors :
        Request(h, "answer", v, vendors[v], "latest", 0) /\ UNCHANGED seqs

\* POST /vendors/{id}/documents
UploadDocument(h) ==
    \E v \in DOMAIN vendors :
        /\ Take("document", MaxRequests)
        /\ Request(h, "upload", v, vendors[v], "store", seqs.document + 1)

------------------------------------------------------------------------------
(* The later steps.                                                        *)

\* _latest_questionnaire_or_404; a completed one is refused.
OfVendor(v) == {q \in DOMAIN questionnaires : questionnaires[q].vendor = v}
ReadLatest(h) ==
    /\ pc[h] = "latest"
    /\ LET mine == OfVendor(sess[h].vendor) IN
       IF mine = {} \/ questionnaires[Max(mine)].status = "COMPLETED"
       THEN Finish(h)
       ELSE Move(h, "responses", [sess[h] EXCEPT !.q = Max(mine),
                                                 !.qread = questionnaires[Max(mine)]])
    /\ UNCHANGED <<dbVars, topic, listing, boundVars>>

\* The responses come with a query of their own, and the payload is applied.
Answered(read, codes, answer) ==
    [q \in DOMAIN read |->
        IF q \in codes THEN [answer |-> answer, score |-> ScoreForAnswer(answer)] ELSE read[q]]

\* It would be wrong to look at the answers of the payload only.
PayloadAnswered(responses, codes) == codes # {}
FullyAnswered(responses, codes) ==
    \A q \in DOMAIN responses : responses[q].answer # Unanswered

\* A fully answered questionnaire is completed and moves its vendor; when it
\* may not, the answers are refused with it.
AlwaysComplete(state) == TRUE
MayComplete(state) == ValidTransition(state, "QUESTIONNAIRE_COMPLETED")
ReadResponses(h) ==
    /\ pc[h] = "responses"
    /\ \E codes \in SUBSET DOMAIN sess[h].qread.responses, answer \in AnswersGiven :
        LET read == [sess[h].qread EXCEPT !.responses = questionnaires[sess[h].q].responses]
            responses == Answered(read.responses, codes, answer)
            full == FullyAnswered(responses, codes)
        IN  IF full /\ ~MayComplete(sess[h].read.state)
            THEN Finish(h)
            ELSE Move(h, "commit",
                      [sess[h] EXCEPT
                         !.qread = read,
                         !.qrow = [read EXCEPT
                            !.responses = responses,
                            !.status = IF full THEN "COMPLETED" ELSE "IN_PROGRESS"],
                         !.row.state = IF full THEN "QUESTIONNAIRE_COMPLETED" ELSE @])
    /\ UNCHANGED <<dbVars, topic, listing, boundVars>>

\* The file is written first, so that every row has its file.
RowFirst(h) ==
    /\ pc[h] = "store"
    /\ documents' = documents \cup {[id |-> sess[h].q, vendor |-> sess[h].vendor]}
    /\ Move(h, "commit", sess[h])
    /\ UNCHANGED <<vendors, questionnaires, files, seqs, topic, listing, boundVars>>
StoreFile(h) ==
    /\ pc[h] = "store"
    /\ files' = files \cup {sess[h].q}
    /\ Move(h, "commit", sess[h])
    /\ UNCHANGED <<vendors, questionnaires, documents, seqs, topic, listing, boundVars>>

Moved(record) == record.op = "create" \/ record.row.state # record.read.state

Put(table, key, row) == [k \in DOMAIN table \cup {key} |-> IF k = key THEN row ELSE table[k]]

Commit(h) ==
    /\ pc[h] = "commit"
    /\ LET s == sess[h] IN
       /\ vendors' =
            IF s.op = "create" THEN Put(vendors, s.vendor, s.row)
            ELSE [vendors EXCEPT ![s.vendor] = MergeDims(@, s.read, s.row)]
       /\ questionnaires' =
            CASE s.op = "generate" ->
                   Put(questionnaires, s.q, NewQuestionnaire(s.vendor, s.read.tier))
              [] s.op = "answer" ->
                   [questionnaires EXCEPT ![s.q] = MergeResponses(@, s.qread, s.qrow)]
              [] OTHER -> questionnaires
       /\ documents' = IF s.op = "upload"
                       THEN documents \cup {[id |-> s.q, vendor |-> s.vendor]} ELSE documents
       /\ IF Moved(s)
          THEN Move(h, IF s.op = "transition" THEN "refresh" ELSE "publish", s)
          ELSE Finish(h)
    /\ UNCHANGED <<files, seqs, topic, listing, boundVars>>

\* transition_vendor reloads the row, and announces the tier it now has.
Refresh(h) ==
    /\ pc[h] = "refresh"
    /\ Move(h, "publish", [sess[h] EXCEPT !.row.tier = vendors[sess[h].vendor].tier])
    /\ UNCHANGED <<dbVars, topic, listing, boundVars>>

\* Sent, or not when the broker cannot be reached: nobody tries again.
\* It would be wrong to announce where the vendor is by now.
EventOfRow(s) == Event(s.vendor, s.read.state, vendors[s.vendor].state, s.row.tier)
EventOf(s) == Event(s.vendor, s.read.state, s.row.state, s.row.tier)
Publish(h) ==
    /\ pc[h] = "publish"
    /\ topic' = Append(topic, EventOf(sess[h]))
    /\ Finish(h)
    /\ UNCHANGED <<dbVars, listing, boundVars>>
PublishFails(h) ==
    /\ pc[h] = "publish"
    /\ failures < MaxFailures
    /\ failures' = failures + 1
    /\ Finish(h)
    /\ UNCHANGED <<dbVars, topic, listing, requests>>

\* A request is cut off where it is: the client goes away or the process dies.
Crash(h) ==
    /\ pc[h] # "idle"
    /\ failures < MaxFailures
    /\ failures' = failures + 1
    /\ Finish(h)
    /\ UNCHANGED <<dbVars, topic, listing, requests>>

------------------------------------------------------------------------------
(* monitoring-service's list_vendor_ids.                                   *)

Turn(l, step, record) ==
    /\ pc' = [pc EXCEPT ![l] = step]
    /\ listing' = [listing EXCEPT ![l] = record]
    /\ UNCHANGED <<dbVars, topic, sess, failures>>

StartListing(l) ==
    /\ pc[l] = "idle"
    /\ requests + ListingCost <= MaxRequests
    /\ requests' = requests + ListingCost
    /\ Turn(l, "count", [NoListing EXCEPT !.page = 1, !.known = DOMAIN vendors])

\* A list request counts the vendors before it reads the page.
CountVendors(l) ==
    /\ pc[l] = "count"
    /\ Turn(l, "page", [listing[l] EXCEPT !.total = Cardinality(DOMAIN vendors)])
    /\ UNCHANGED requests

LastPage(page, total, items) == items = <<>> \/ page * PageSize >= total
ReadPage(l) ==
    /\ pc[l] = "page"
    /\ LET items == ListVendors(listing[l].page)
           next == [listing[l] EXCEPT !.page = @ + 1, !.listed = @ \o items]
       IN  IF LastPage(listing[l].page, listing[l].total, items) \/ Len(next.listed) >= PortfolioLimit
           THEN Turn(l, "idle", [next EXCEPT !.complete = TRUE,
                                   !.listed = SubSeq(@, 1, IF Len(@) < PortfolioLimit
                                                           THEN Len(@) ELSE PortfolioLimit)])
           ELSE Turn(l, "count", next)
    /\ UNCHANGED requests

\* vendor-service cannot be reached: what was collected is returned.
ListingFails(l) ==
    /\ pc[l] \in {"count", "page"}
    /\ Turn(l, "idle", NoListing)
    /\ UNCHANGED requests

------------------------------------------------------------------------------
Start(h) ==
    \/ CreateVendor(h) \/ TransitionVendor(h) \/ GenerateQuestionnaire(h)
    \/ UpdateResponses(h) \/ UploadDocument(h)

Step(h) ==
    \/ ReadLatest(h) \/ ReadResponses(h) \/ StoreFile(h)
    \/ Commit(h) \/ Refresh(h) \/ Publish(h)

\* Nothing is running: the service waits for requests.
Quiescent == (\A h \in DOMAIN pc : pc[h] = "idle") /\ UNCHANGED vars

Action ==
    \/ \E h \in Patchers : UpdateVendor(h)
    \/ \E h \in Handlers : Start(h) \/ Step(h) \/ PublishFails(h) \/ Crash(h)
    \/ \E l \in Listers : StartListing(l) \/ CountVendors(l) \/ ReadPage(l) \/ ListingFails(l)

Next == Action \/ Quiescent

Spec == Init /\ [][Next]_vars

\* The event loop resumes every await that can complete.
FairSpec == Spec /\ \A h \in Handlers : WF_vars(Step(h))

------------------------------------------------------------------------------
(* VendorTopic's view: a request between its commit and its publication    *)
(* has a step pending; the tier of an event is left out.                   *)

StepOf(e) == [vendor |-> e.vendor, from |-> e.from, to |-> e.to]
Announced == [i \in DOMAIN topic |-> StepOf(topic[i])]
Pending ==
    {[by |-> h, step |-> StepOf(Event(sess[h].vendor, sess[h].read.state, sess[h].row.state, ""))] :
        h \in {g \in Handlers : pc[g] \in {"refresh", "publish"}}}

Topic == INSTANCE VendorTopic
    WITH VendorIds <- 1..MaxVendors, announced <- Announced, pending <- Pending
=============================================================================
