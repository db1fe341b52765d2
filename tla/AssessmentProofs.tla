------------------------- MODULE AssessmentProofs --------------------------
(***************************************************************************)
(* Proofs about the consumers of risk-service and compliance-service: they *)
(* lose an event only to a failure, and announce rows they have committed; *)
(* scores are in range; and when nothing is left to do, they are those of  *)
(* the questionnaires vendor-service has.                                  *)
(***************************************************************************)
EXTENDS AssessmentProperties, SumTheorems, NaturalsInduction, FiniteSetTheorems, TLAPS

(* Topics: sequences that are only appended to.                            *)

IsSeq(s) == s \in Seq({s[i] : i \in DOMAIN s})

\* Appending keeps what there was and adds one element at the end.
LEMMA AppendOne ==
    ASSUME NEW s, IsSeq(s), NEW e
    PROVE  /\ IsSeq(Append(s, e))
           /\ Len(s) \in Nat /\ DOMAIN s = 1..Len(s)
           /\ Len(Append(s, e)) = Len(s) + 1 /\ DOMAIN Append(s, e) = 1..Len(s) + 1
           /\ \A i \in 1..Len(s) : Append(s, e)[i] = s[i]
           /\ Append(s, e)[Len(s) + 1] = e
<1> DEFINE S == {s[i] : i \in DOMAIN s} \cup {e}
<1>1. s \in Seq(S) /\ e \in S
  <2>1. s \in Seq({s[i] : i \in DOMAIN s})
    BY DEF IsSeq
  <2>2. {s[i] : i \in DOMAIN s} \subseteq S
    OBVIOUS
  <2> HIDE DEF S
  <2>3. s \in Seq(S)
    BY <2>1, <2>2
  <2> QED
    BY <2>3 DEF S
<1> HIDE DEF S
<1>2. /\ Append(s, e) \in Seq(S)
      /\ Len(s) \in Nat /\ DOMAIN s = 1..Len(s)
      /\ Len(Append(s, e)) = Len(s) + 1 /\ DOMAIN Append(s, e) = 1..Len(s) + 1
      /\ \A i \in 1..Len(s) : Append(s, e)[i] = s[i]
      /\ Append(s, e)[Len(s) + 1] = e
  BY <1>1
<1>3. IsSeq(Append(s, e))
  <2> DEFINE a == Append(s, e)
  <2>1. a \in Seq(S)
    BY <1>2
  <2> HIDE DEF a
  <2>2. a \in Seq({a[i] : i \in DOMAIN a})
    BY <2>1
  <2> QED
    BY <2>2 DEF IsSeq, a
<1> QED
  BY <1>2, <1>3

\* vendor-service only appends to its topic.
LEMMA VendorAppends ==
    ASSUME Vendor!Action
    PROVE  topic' = topic \/ \E e : topic' = Append(topic, e)
<1>1. ASSUME NEW h, Vendor!Start(h) \/ Vendor!UpdateVendor(h)
      PROVE  topic' = topic
  BY <1>1 DEF Vendor!Start, Vendor!CreateVendor, Vendor!UpdateVendor, Vendor!TransitionVendor,
     Vendor!GenerateQuestionnaire, Vendor!UpdateResponses, Vendor!UploadDocument,
     Vendor!Request, Vendor!Begin
<1>2. ASSUME NEW h, Vendor!Step(h)
      PROVE  topic' = topic \/ \E e : topic' = Append(topic, e)
  BY <1>2 DEF Vendor!Step, Vendor!ReadLatest, Vendor!ReadResponses, Vendor!StoreFile,
     Vendor!Commit, Vendor!Refresh, Vendor!Publish
<1>3. ASSUME NEW h, Vendor!PublishFails(h) \/ Vendor!Crash(h)
      PROVE  topic' = topic
  BY <1>3 DEF Vendor!PublishFails, Vendor!Crash
<1>4. ASSUME NEW l, \/ Vendor!StartListing(l) \/ Vendor!CountVendors(l)
                    \/ Vendor!ReadPage(l) \/ Vendor!ListingFails(l)
      PROVE  topic' = topic
  BY <1>4 DEF Vendor!StartListing, Vendor!CountVendors, Vendor!ReadPage, Vendor!ListingFails,
     Vendor!Turn
<1> QED
  BY <1>1, <1>2, <1>3, <1>4 DEF Vendor!Action

------------------------------------------------------------------------------
(* A task between its steps.                                               *)

IsTask(r) ==
    r = [step |-> r.step, vendor |-> r.vendor, trigger |-> r.trigger, at |-> r.at,
         parts |-> r.parts, row |-> r.row]

\* A row that is about to be inserted is about the event that asked for it, and is
\* there when the handler goes on to publish.
TaskOK(r) ==
    /\ IsTask(r)
    /\ r.step = "idle" => r.trigger = 0
    /\ r.step \in {"commitScore", "commitAssessment", "update", "anomaly", "verdict"}
           => r.row.trigger = r.trigger
    /\ r.step \in {"update", "anomaly"} => r.row \in scores
    /\ r.step = "verdict" => r.row \in assessments

Positions ==
    /\ position \in [Groups -> Nat] /\ committed \in [Groups -> Nat]
    /\ \A g \in Groups : committed[g] <= position[g] /\ position[g] <= Len(topic)

ConsumerInv ==
    /\ IsSeq(topic)
    /\ Positions
    /\ DOMAIN task = Tasks
    /\ \A t \in Tasks : TaskOK(task[t])

\* The events whose handler ended without a row.
Missing(g) ==
    {i \in 1..position[g] : Triggers(g, i) /\ ~Handled(g, i) /\ task[g].trigger # i}

LossInv == ConsumerInv /\ faults \in Nat /\ OneLossPerFault

LEMMA GroupsAreTasks == Groups \subseteq Tasks
BY DEF Tasks

LEMMA RequestsAreNot ==
    ASSUME NEW t \in Scorers \cup Assessors PROVE t \notin Groups /\ t \in Tasks
BY TaskAssumption DEF Tasks

LEMMA MissingIsFinite ==
    ASSUME ConsumerInv, NEW g \in Groups
    PROVE  IsFiniteSet(Missing(g)) /\ Cardinality(Missing(g)) \in Nat
<1>1. position[g] \in Nat
  BY DEF ConsumerInv, Positions
<1>2. IsFiniteSet(1..position[g])
  BY <1>1, FS_Interval
<1>3. Missing(g) \subseteq 1..position[g]
  BY DEF Missing
<1> QED
  BY <1>2, <1>3, FS_Subset, FS_CardinalityType

\* A group loses nothing more, or one event to one more fault.
LEMMA LossKept ==
    ASSUME LossInv, NEW g \in Groups, faults' \in Nat, faults' >= faults,
           \/ Missing(g)' \subseteq Missing(g)
           \/ \E i : Missing(g)' \subseteq Missing(g) \cup {i} /\ faults' = faults + 1
    PROVE  faults' >= Cardinality(Missing(g)')
<1> DEFINE M == Missing(g)
           N == Missing(g)'
<1>1. IsFiniteSet(M) /\ Cardinality(M) \in Nat /\ faults >= Cardinality(M) /\ faults \in Nat
  BY MissingIsFinite DEF LossInv, OneLossPerFault, Missing
<1>2. N \subseteq M \/ \E i : N \subseteq M \cup {i} /\ faults' = faults + 1
  OBVIOUS
<1> SUFFICES faults' >= Cardinality(N)
  OBVIOUS
<1> HIDE DEF M, N
<1>3. CASE N \subseteq M
  <2>1. Cardinality(N) <= Cardinality(M) /\ Cardinality(N) \in Nat
    BY <1>1, <1>3, FS_Subset, FS_CardinalityType
  <2> QED
    BY <1>1, <2>1
<1>4. ASSUME NEW i, N \subseteq M \cup {i}, faults' = faults + 1
      PROVE  faults' >= Cardinality(N)
  <2>1. /\ IsFiniteSet(M \cup {i})
        /\ Cardinality(M \cup {i}) \in {Cardinality(M), Cardinality(M) + 1}
    BY <1>1, FS_AddElement
  <2>2. Cardinality(N) <= Cardinality(M \cup {i}) /\ Cardinality(N) \in Nat
    BY <1>4, <2>1, FS_Subset, FS_CardinalityType
  <2> QED
    BY <1>1, <1>4, <2>1, <2>2
<1> QED
  BY <1>2, <1>3, <1>4

\* What one task does to the invariant when the topic and the positions stay.
LEMMA TaskStep ==
    ASSUME LossInv, NEW t \in Tasks, NEW r, Proceed(t, r), TaskOK(r)',
           UNCHANGED <<topic, position, committed>>,
           scores \subseteq scores', assessments \subseteq assessments',
           faults' \in {faults, faults + 1},
           \/ r.trigger = task[t].trigger
           \/ t \notin Groups
           \/ faults' = faults + 1
           \/ \E i : i = task[t].trigger /\ Handled(t, i)'
    PROVE  LossInv'
<1>1. DOMAIN task' = Tasks /\ task'[t] = r /\ \A u \in Tasks \ {t} : task'[u] = task[u]
  BY DEF LossInv, ConsumerInv, Proceed
<1>2. \A u \in Tasks \ {t} : TaskOK(task[u])'
  BY <1>1 DEF LossInv, ConsumerInv, TaskOK, IsTask
<1>3. ConsumerInv'
  BY <1>1, <1>2 DEF LossInv, ConsumerInv, IsSeq, Positions
<1>4. faults' \in Nat /\ faults' >= faults
  BY DEF LossInv
<1>5. ASSUME NEW g \in Groups
      PROVE  \/ Missing(g)' \subseteq Missing(g)
             \/ \E i : Missing(g)' \subseteq Missing(g) \cup {i} /\ faults' = faults + 1
  <2>1. \A i : Triggers(g, i)' <=> Triggers(g, i)
    BY DEF Triggers, TriggerStates
  <2>2. \A i : Handled(g, i) => Handled(g, i)'
    BY DEF Handled
  <2>3. Missing(g)' \subseteq Missing(g) \cup {task[g].trigger}
    BY <2>1, <2>2 DEF Missing
  <2>4. CASE g # t \/ r.trigger = task[t].trigger
    <3>1. task'[g].trigger = task[g].trigger
      BY <2>4, <1>1, GroupsAreTasks
    <3>2. position' = position
      OBVIOUS
    <3>3. Missing(g)' \subseteq Missing(g)
      BY ONLY <2>1, <2>2, <3>1, <3>2 DEF Missing
    <3> QED
      BY <3>3
  <2>5. CASE g = t /\ \E i : i = task[t].trigger /\ Handled(t, i)'
    <3>1. PICK i : i = task[g].trigger /\ Handled(g, i)'
      BY <2>5
    <3>2. i \notin Missing(g)'
      BY <3>1 DEF Missing
    <3> QED
      BY <2>3, <3>1, <3>2
  <2> QED
    BY <2>3, <2>4, <2>5
<1>6. OneLossPerFault'
  BY <1>4, <1>5, LossKept DEF OneLossPerFault, Missing
<1> QED
  BY <1>3, <1>4, <1>6 DEF LossInv

LEMMA TaskInMemory == ASSUME LossInv, NEW t \in Tasks PROVE IsTask(task[t]) /\ TaskOK(task[t])
BY DEF LossInv, ConsumerInv, TaskOK

LEMMA NewTaskOK ==
    ASSUME NEW t, NEW v, NEW i
    PROVE  /\ TaskOK(NoTask)' /\ NoTask.trigger = 0 /\ NoTask.step = "idle"
           /\ TaskOK(NewTask(t, v, i))' /\ NewTask(t, v, i).trigger = i
           /\ NewTask(t, v, i).step \in {"questionnaire", "assess"}
<1>1. TaskOK(NoTask)' /\ NoTask.trigger = 0 /\ NoTask.step = "idle"
  BY DEF TaskOK, IsTask, NoTask
<1>2. PICK s \in {"questionnaire", "assess"} :
        s = IF t \in Scorers \cup {"risk"} THEN "questionnaire" ELSE "assess"
  OBVIOUS
<1>3. NewTask(t, v, i) = [NoTask EXCEPT !.step = s, !.vendor = v, !.trigger = i]
  BY <1>2 DEF NewTask
<1>4. NewTask(t, v, i) = [step |-> s, vendor |-> v, trigger |-> i, at |-> 0, parts |-> <<>>,
                          row |-> <<>>]
  BY <1>3 DEF NoTask
<1>5. PICK r : r = NewTask(t, v, i)
  OBVIOUS
<1>6. IsTask(r) /\ r.step = s /\ r.trigger = i
  BY <1>4, <1>5 DEF IsTask
<1>7. TaskOK(r)' /\ r.step \in {"questionnaire", "assess"}
  BY <1>6 DEF TaskOK, IsTask
<1> QED
  BY <1>1, <1>5, <1>6, <1>7

LEMMA StepReadPart ==
    ASSUME LossInv, NEW t \in Tasks, NEW step, NEW name, NEW answer,
           NEW next \in {"stack", "flush"}, ReadPart(t, step, name, answer, next)
    PROVE  LossInv'
<1>1. /\ UNCHANGED <<topic, position, committed, scores, assessments>>
      /\ task[t].step = step
  BY DEF ReadPart, vendorVars, busVars, rowVars
<1>2. ASSUME NEW v, Proceed(t, [task[t] EXCEPT !.parts = v, !.step = next]),
             faults' \in {faults, faults + 1}
      PROVE  LossInv'
  <2>1. PICK r : r = [task[t] EXCEPT !.parts = v, !.step = next]
    OBVIOUS
  <2>2. IsTask(r) /\ r.step = next /\ r.trigger = task[t].trigger
    <3>1. IsTask(task[t])
      BY TaskInMemory
    <3> QED
      BY <2>1, <3>1 DEF IsTask
  <2>3. TaskOK(r)'
    BY <2>2 DEF TaskOK, IsTask
  <2> QED
    BY <1>1, <1>2, <2>1, <2>2, <2>3, TaskStep
<1>3. CASE Fault /\ FinishTask(t)
  <2>1. Proceed(t, NoTask) /\ faults' = faults + 1
    BY <1>3 DEF FinishTask, Fault
  <2> QED
    BY <1>1, <2>1, NewTaskOK, TaskStep
<1> QED
  BY <1>2, <1>3 DEF ReadPart, Fault

LEMMA StepRead ==
    ASSUME LossInv, NEW t \in Tasks, ReadQuestionnaireScore(t) \/ ReadEvidence(t)
    PROVE  LossInv'
BY StepReadPart DEF ReadQuestionnaireScore, ReadEvidence

LEMMA StepReadTechStack ==
    ASSUME LossInv, NEW t \in Tasks, ReadTechStack(t)
    PROVE  LossInv'
<1>1. PICK n, w :
        Proceed(t, [task[t] EXCEPT !.at = n, !.step = "evidence", !.parts = w])
  <2>1. Proceed(t, [task[t] EXCEPT
            !.at = clock["risk"] + 1, !.step = "evidence",
            !.parts = Also(@, StackParts(task[t].vendor))])
    BY DEF ReadTechStack
  <2> QED
    BY <2>1
<1>2. PICK r : r = [task[t] EXCEPT !.at = n, !.step = "evidence", !.parts = w]
  OBVIOUS
<1>3. Proceed(t, r) /\ UNCHANGED <<topic, position, committed, scores, assessments, faults>>
  BY <1>1, <1>2 DEF ReadTechStack, vendorVars, busVars, rowVars
<1>4. IsTask(r) /\ r.step = "evidence" /\ r.trigger = task[t].trigger
  <2>1. IsTask(task[t])
    BY TaskInMemory
  <2> QED
    BY <1>2, <2>1 DEF IsTask
<1>5. TaskOK(r)'
  BY <1>4 DEF TaskOK, IsTask
<1> QED
  BY <1>3, <1>4, <1>5, TaskStep

LEMMA ScoreRowIs ==
    ASSUME NEW s
    PROVE  ScoreRow(s).trigger = s.trigger /\ ScoreRow(s).at = s.at
BY DEF ScoreRow

LEMMA StepFlush ==
    ASSUME LossInv, NEW t \in Tasks, FlushScore(t)
    PROVE  LossInv'
<1>1. PICK r : r = [task[t] EXCEPT !.row = ScoreRow(task[t]), !.step = "commitScore"]
  OBVIOUS
<1>2. Proceed(t, r) /\ UNCHANGED <<topic, position, committed, scores, assessments, faults>>
  BY <1>1 DEF FlushScore, vendorVars, busVars, rowVars
<1>3. /\ IsTask(r) /\ r.step = "commitScore" /\ r.trigger = task[t].trigger
      /\ r.row = ScoreRow(task[t])
  <2>1. IsTask(task[t])
    BY TaskInMemory
  <2> QED
    BY <1>1, <2>1 DEF IsTask
<1>4. r.row.trigger = r.trigger
  BY <1>3, ScoreRowIs
<1>5. TaskOK(r)'
  BY <1>3, <1>4 DEF TaskOK, IsTask
<1> QED
  BY <1>2, <1>3, <1>5, TaskStep

LEMMA StepCommitScore ==
    ASSUME LossInv, NEW t \in Tasks, CommitScore(t)
    PROVE  LossInv'
<1>1. /\ scores' = scores \cup {task[t].row} /\ task[t].step = "commitScore"
      /\ UNCHANGED <<topic, position, committed, assessments, faults>>
  BY DEF CommitScore, vendorVars, busVars
<1>2. IsTask(task[t]) /\ task[t].row.trigger = task[t].trigger
  BY <1>1 DEF LossInv, ConsumerInv, TaskOK
<1>3. CASE t \in Scorers
  <2>1. Proceed(t, NoTask) /\ t \notin Groups
    BY <1>3, RequestsAreNot DEF CommitScore, FinishTask
  <2> QED
    BY <1>1, <2>1, NewTaskOK, TaskStep
<1>4. CASE t \notin Scorers
  <2>1. PICK r : r = [task[t] EXCEPT !.step = "update"]
    OBVIOUS
  <2>2. Proceed(t, r)
    BY <1>4, <2>1 DEF CommitScore
  <2>3. /\ IsTask(r) /\ r.step = "update" /\ r.trigger = task[t].trigger
        /\ r.row = task[t].row
    BY <1>2, <2>1 DEF IsTask
  <2>4. TaskOK(r)'
    BY <1>1, <1>2, <2>3 DEF TaskOK, IsTask
  <2> QED
    BY <1>1, <2>2, <2>3, <2>4, TaskStep
<1> QED
  BY <1>3, <1>4

LEMMA StepPublish ==
    ASSUME LossInv, NEW t \in Tasks, PublishUpdate(t) \/ PublishAnomaly(t), t = "risk"
    PROVE  LossInv'
<1>1. /\ UNCHANGED <<topic, position, committed, scores, assessments>>
      /\ faults' \in {faults, faults + 1}
      /\ task[t].step \in {"update", "anomaly"}
  BY DEF PublishUpdate, PublishAnomaly, Publish, vendorVars, busVars, rowVars, Fault
<1>2. /\ IsTask(task[t]) /\ task[t].row.trigger = task[t].trigger
      /\ task[t].row \in scores
  BY <1>1, TaskInMemory DEF TaskOK
<1>3. \E i : i = task[t].trigger /\ Handled(t, i)'
  BY <1>1, <1>2 DEF Handled
<1>4. CASE FinishTask(t)
  <2>1. Proceed(t, NoTask)
    BY <1>4 DEF FinishTask
  <2> QED
    BY <1>1, <1>3, <2>1, NewTaskOK, TaskStep
<1>5. CASE Proceed(t, [task[t] EXCEPT !.step = "anomaly"])
  <2>1. PICK r : r = [task[t] EXCEPT !.step = "anomaly"]
    OBVIOUS
  <2>2. /\ IsTask(r) /\ r.step = "anomaly" /\ r.trigger = task[t].trigger
        /\ r.row = task[t].row
    BY <1>2, <2>1 DEF IsTask
  <2>3. TaskOK(r)'
    BY <1>1, <1>2, <2>2 DEF TaskOK, IsTask
  <2> QED
    BY <1>1, <1>5, <2>1, <2>2, <2>3, TaskStep
<1> QED
  BY <1>4, <1>5 DEF PublishUpdate, PublishAnomaly

LEMMA StepRequest ==
    ASSUME LossInv, NEW t \in Scorers \cup Assessors, RequestComputation(t) \/ CutOff(t)
    PROVE  LossInv'
<1>1. UNCHANGED <<topic, position, committed, scores, assessments, faults>>
  BY DEF RequestComputation, CutOff, vendorVars, busVars, rowVars
<1>2. t \in Tasks /\ t \notin Groups
  BY RequestsAreNot
<1>3. PICK r : Proceed(t, r) /\ TaskOK(r)'
  BY NewTaskOK DEF RequestComputation, CutOff, FinishTask
<1> QED
  BY <1>1, <1>2, <1>3, TaskStep

LEMMA StepAssess ==
    ASSUME LossInv, NEW t \in Tasks, NEW framework, NEW overrides, NEW actor,
           RunAssessment(t, framework, overrides, actor)
    PROVE  LossInv'
<1>1. PICK row : /\ row.trigger = task[t].trigger
                 /\ Proceed(t, [task[t] EXCEPT !.step = "commitAssessment", !.row = row])
  <2> DEFINE results == EvaluateControls(Library, framework, Baseline, overrides)
  <2>1. PICK row : row = [outcome |-> Assessment(task[t].vendor, framework, results, actor),
                          results |-> ControlResults(results),
                          at |-> clock'["compliance"], trigger |-> task[t].trigger]
    OBVIOUS
  <2>2. Proceed(t, [task[t] EXCEPT !.step = "commitAssessment", !.row = row])
    BY <2>1 DEF RunAssessment
  <2> QED
    BY <2>1, <2>2
<1>3. PICK r : r = [task[t] EXCEPT !.step = "commitAssessment", !.row = row]
  OBVIOUS
<1>4. Proceed(t, r)
  BY <1>1, <1>3
<1>5. UNCHANGED <<topic, position, committed, scores, assessments, faults>>
  BY DEF RunAssessment, vendorVars, busVars, rowVars
<1>6. IsTask(task[t])
  BY TaskInMemory
<1>7. IsTask(r) /\ r.step = "commitAssessment" /\ r.trigger = task[t].trigger /\ r.row = row
  BY <1>3, <1>6 DEF IsTask
<1>8. TaskOK(r)'
  BY <1>1, <1>7 DEF TaskOK, IsTask
<1> QED
  BY <1>4, <1>5, <1>7, <1>8, TaskStep

LEMMA StepCompliance ==
    ASSUME LossInv, NEW t \in Assessors \cup {"compliance"}, ComplianceStep(t)
    PROVE  LossInv'
<1>t. t \in Tasks /\ (t \in Groups => t = "compliance")
  BY RequestsAreNot DEF Tasks, Groups
<1>u. IsTask(task[t]) /\ TaskOK(task[t])
  BY <1>t, TaskInMemory
<1>1. CASE CommitAssessment(t)
  <2>1. /\ assessments' = assessments \cup {task[t].row} /\ task[t].step = "commitAssessment"
        /\ UNCHANGED <<topic, position, committed, scores, faults>>
    BY <1>1 DEF CommitAssessment, vendorVars, busVars
  <2>2. PICK r : r = [task[t] EXCEPT !.step = "verdict"]
    OBVIOUS
  <2>3. Proceed(t, r)
    BY <1>1, <2>2 DEF CommitAssessment
  <2>4. IsTask(r) /\ r.step = "verdict" /\ r.trigger = task[t].trigger /\ r.row = task[t].row
    BY <1>u, <2>2 DEF IsTask
  <2>5. TaskOK(r)'
    BY <1>u, <2>1, <2>4 DEF TaskOK, IsTask
  <2> QED
    BY <1>t, <2>1, <2>3, <2>4, <2>5, TaskStep
<1>2. CASE PublishAssessment(t)
  <2>1. /\ task[t].step = "verdict" /\ Proceed(t, NoTask)
        /\ UNCHANGED <<topic, position, committed, scores, assessments>>
        /\ faults' \in {faults, faults + 1}
    BY <1>2 DEF PublishAssessment, FinishTask, vendorVars, busVars, rowVars, Fault
  <2>2. t \notin Groups \/ \E i : i = task[t].trigger /\ Handled(t, i)'
    BY <1>t, <1>u, <2>1 DEF Handled, TaskOK
  <2> QED
    BY <1>t, <2>1, <2>2, NewTaskOK, TaskStep
<1> QED
  BY <1>1, <1>2 DEF ComplianceStep

\* An event is taken up, or passed over because it calls for nothing.
LEMMA StepFetch ==
    ASSUME LossInv, NEW g \in Groups, Fetch(g)
    PROVE  LossInv'
<1>1. PICK n : n = position[g] + 1
  OBVIOUS
<1>2. /\ position \in [Groups -> Nat] /\ committed \in [Groups -> Nat]
      /\ \A h \in Groups : committed[h] <= position[h] /\ position[h] <= Len(topic)
      /\ DOMAIN task = Tasks /\ g \in Tasks
  BY GroupsAreTasks DEF LossInv, ConsumerInv, Positions
<1>3. /\ task[g].step = "idle" /\ task[g].trigger = 0 /\ position[g] < Len(topic)
      /\ UNCHANGED <<topic, committed, scores, assessments, faults>>
      /\ position' = [position EXCEPT ![g] = n]
  <2>1. /\ task[g].step = "idle" /\ position[g] < Len(topic)
        /\ UNCHANGED <<topic, committed, scores, assessments, faults>>
        /\ position' = [position EXCEPT ![g] = n]
    BY <1>1 DEF Fetch, vendorVars, rowVars
  <2>2. TaskOK(task[g])
    BY <1>2, TaskInMemory
  <2> QED
    BY <2>1, <2>2 DEF TaskOK
<1>4. position'[g] = n /\ \A h \in Groups \ {g} : position'[h] = position[h]
  BY <1>2, <1>3
<1>5. \A i : Triggers(g, i)' <=> Triggers(g, i)
  BY <1>3 DEF Triggers, TriggerStates
<1>6. PICK r : /\ DOMAIN task' = Tasks /\ task'[g] = r
               /\ \A u \in Tasks \ {g} : task'[u] = task[u]
               /\ TaskOK(r)'
               /\ \/ Triggers(g, n) /\ r.trigger = n
                  \/ ~Triggers(g, n) /\ r.trigger = 0
  <2>1. CASE Triggers(g, n)
    <3>1. PICK r : r = NewTask(g, topic[n].vendor, n)
      OBVIOUS
    <3>2. Proceed(g, r)
      BY <2>1, <3>1, <1>4 DEF Fetch
    <3>3. TaskOK(r)' /\ r.trigger = n
      BY <3>1, NewTaskOK
    <3>4. DOMAIN task' = Tasks /\ task'[g] = r /\ \A u \in Tasks \ {g} : task'[u] = task[u]
      BY <1>2, <3>2 DEF Proceed
    <3> QED
      BY <2>1, <3>3, <3>4
  <2>2. CASE ~Triggers(g, n)
    <3>1. UNCHANGED task
      BY <2>2, <1>4 DEF Fetch
    <3>2. PICK r : r = task[g]
      OBVIOUS
    <3>3. TaskOK(r) /\ r.trigger = 0
      BY <3>2, <1>2, <1>3, TaskInMemory
    <3>4. TaskOK(r)'
      BY <3>3, <1>3 DEF TaskOK, IsTask
    <3> QED
      BY <1>2, <2>2, <3>1, <3>2, <3>3, <3>4
  <2> QED
    BY <2>1, <2>2
<1>7. DOMAIN task' = Tasks /\ task'[g] = r /\ \A u \in Tasks \ {g} : task'[u] = task[u]
  BY <1>6
<1>8. ConsumerInv'
  <2>1. Positions'
    <3>1. position' \in [Groups -> Nat] /\ committed' \in [Groups -> Nat]
      BY <1>1, <1>2, <1>3
    <3>2. position[g] \in Nat /\ committed[g] \in Nat /\ committed[g] <= position[g]
      BY <1>2
    <3>3. Len(topic) \in Nat
      BY AppendOne DEF LossInv, ConsumerInv
    <3>4. committed[g] <= n /\ n <= Len(topic)
      BY <1>1, <1>3, <3>2, <3>3
    <3> QED
      BY <1>2, <1>3, <1>4, <3>1, <3>4 DEF Positions
  <2>2. \A u \in Tasks \ {g} : TaskOK(task[u])'
    BY <1>3, <1>7 DEF LossInv, ConsumerInv, TaskOK, IsTask
  <2> QED
    BY <1>3, <1>6, <1>7, <2>1, <2>2 DEF LossInv, ConsumerInv, IsSeq
<1>9. ASSUME NEW h \in Groups PROVE Missing(h)' \subseteq Missing(h)
  <2>1. CASE h # g
    <3>1. task'[h] = task[h] /\ position'[h] = position[h]
      BY <2>1, <1>4, <1>7, GroupsAreTasks
    <3> QED
      BY <1>3, <3>1 DEF Missing, Triggers, TriggerStates, Handled
  <2>2. CASE h = g
    <3>1. ASSUME NEW i \in Missing(g)' PROVE i \in Missing(g)
      <4>1. /\ i \in 1..n /\ Triggers(g, i) /\ r.trigger # i /\ ~Handled(g, i)
        BY <1>3, <1>4, <1>5, <1>7, <3>1 DEF Missing, Handled
      <4>2. i # n
        BY <4>1, <1>6
      <4>3. i \in 1..position[g] /\ i # 0
        BY <4>1, <4>2, <1>1, <1>2
      <4> QED
        BY <4>1, <4>3, <1>3 DEF Missing
    <3> QED
      BY <2>2, <3>1
  <2> QED
    BY <2>1, <2>2
<1>10. faults' \in Nat /\ faults' >= faults
  BY <1>3 DEF LossInv
<1>11. OneLossPerFault'
  BY <1>9, <1>10, LossKept DEF OneLossPerFault, Missing
<1> QED
  BY <1>8, <1>10, <1>11 DEF LossInv

LEMMA StepRejoin ==
    ASSUME LossInv, NEW g \in Groups, Rejoin(g)
    PROVE  LossInv'
<1>1. PICK offset \in committed[g]..position[g] :
        /\ committed' = [committed EXCEPT ![g] = offset]
        /\ position' = [position EXCEPT ![g] = offset]
  BY DEF Rejoin
<1>2. /\ position \in [Groups -> Nat] /\ committed \in [Groups -> Nat]
      /\ \A h \in Groups : committed[h] <= position[h] /\ position[h] <= Len(topic)
      /\ DOMAIN task = Tasks /\ g \in Tasks
  BY GroupsAreTasks DEF LossInv, ConsumerInv, Positions
<1>3. /\ UNCHANGED <<topic, scores, assessments>> /\ faults' = faults + 1
      /\ task' = [task EXCEPT ![g] = NoTask]
  BY DEF Rejoin, Fault, FinishTask, Proceed, vendorVars, rowVars
<1>4. offset \in Nat /\ offset <= position[g]
  BY <1>2
<1>5. /\ position'[g] = offset /\ committed'[g] = offset
      /\ \A h \in Groups \ {g} : position'[h] = position[h] /\ committed'[h] = committed[h]
  BY <1>1, <1>2
<1>6. DOMAIN task' = Tasks /\ task'[g] = NoTask /\ \A u \in Tasks \ {g} : task'[u] = task[u]
  BY <1>2, <1>3
<1>7. ConsumerInv'
  <2>1. position' \in [Groups -> Nat] /\ committed' \in [Groups -> Nat]
    BY <1>1, <1>2, <1>4
  <2>2. Len(topic) \in Nat
    BY AppendOne DEF LossInv, ConsumerInv
  <2>3. offset <= offset /\ offset <= Len(topic)
    BY <1>2, <1>4, <2>2
  <2>4. Positions'
    BY <1>2, <1>3, <1>5, <2>1, <2>3 DEF Positions
  <2>5. \A u \in Tasks \ {g} : TaskOK(task[u])'
    BY <1>3, <1>6 DEF LossInv, ConsumerInv, TaskOK, IsTask
  <2> QED
    BY <1>3, <1>6, <2>4, <2>5, NewTaskOK DEF LossInv, ConsumerInv, IsSeq
<1>8. ASSUME NEW h \in Groups
      PROVE  Missing(h)' \subseteq Missing(h) \cup {task[h].trigger}
  <2>1. \A i : i \in 1..position'[h] => i \in 1..position[h]
    BY SMTT(30), <1>2, <1>4, <1>5
  <2> QED
    BY <1>3, <2>1 DEF Missing, Triggers, TriggerStates, Handled
<1>9. faults' \in Nat /\ faults' >= faults
  BY <1>3 DEF LossInv
<1>10. OneLossPerFault'
  BY <1>3, <1>8, <1>9, LossKept DEF OneLossPerFault, Missing
<1> QED
  BY <1>7, <1>9, <1>10 DEF LossInv

LEMMA StepVendor ==
    ASSUME LossInv, \/ Vendor!Action /\ UNCHANGED serviceVars
                    \/ AddTechStackComponent \/ UNCHANGED vars
    PROVE  LossInv'
<1>1. UNCHANGED <<position, committed, task, scores, assessments, faults>>
  BY DEF AddTechStackComponent, vars, serviceVars, busVars, rowVars
<1>2. topic' = topic \/ \E e : topic' = Append(topic, e)
  BY VendorAppends DEF AddTechStackComponent, vars, vendorVars
<1>3. /\ IsSeq(topic') /\ Len(topic) \in Nat /\ Len(topic') \in Nat /\ Len(topic) <= Len(topic')
      /\ \A i \in 1..Len(topic) : topic'[i] = topic[i]
  <2>1. IsSeq(topic) /\ Len(topic) \in Nat
    BY AppendOne DEF LossInv, ConsumerInv
  <2>2. CASE topic' = topic
    BY <2>1, <2>2
  <2>3. ASSUME NEW e, topic' = Append(topic, e)
        PROVE  /\ IsSeq(topic') /\ Len(topic') = Len(topic) + 1
               /\ \A i \in 1..Len(topic) : topic'[i] = topic[i]
    BY <2>1, <2>3, AppendOne
  <2> QED
    BY <1>2, <2>1, <2>2, <2>3
<1>4. Positions'
  <2>1. \A g \in Groups : position[g] \in Nat /\ position[g] <= Len(topic)
    BY DEF LossInv, ConsumerInv, Positions
  <2>2. \A g \in Groups : position[g] <= Len(topic')
    BY <1>3, <2>1
  <2> QED
    BY <1>1, <2>2 DEF LossInv, ConsumerInv, Positions
<1>5. ConsumerInv'
  BY <1>1, <1>3, <1>4 DEF LossInv, ConsumerInv, IsSeq, TaskOK, IsTask
<1>6. ASSUME NEW g \in Groups PROVE Missing(g)' \subseteq Missing(g)
  <2>1. \A i \in 1..position[g] : topic'[i] = topic[i]
    BY <1>3 DEF LossInv, ConsumerInv, Positions
  <2> QED
    BY <1>1, <2>1 DEF Missing, Triggers, TriggerStates, Handled
<1>7. faults' \in Nat /\ faults' >= faults
  BY <1>1 DEF LossInv
<1>8. OneLossPerFault'
  BY <1>6, <1>7, LossKept DEF OneLossPerFault, Missing
<1> QED
  BY <1>5, <1>7, <1>8 DEF LossInv

LEMMA LossInit == Init => LossInv
<1> SUFFICES ASSUME Init PROVE LossInv
  OBVIOUS
<1>1. /\ topic = <<>> /\ position = [g \in Groups |-> 0] /\ committed = [g \in Groups |-> 0]
      /\ task = [t \in Tasks |-> NoTask] /\ faults = 0
  BY DEF Init, Vendor!Init
<1>2. IsSeq(topic) /\ Len(topic) = 0
  BY <1>1 DEF IsSeq
<1>3. TaskOK(NoTask)
  BY DEF TaskOK, IsTask, NoTask
<1>4. ConsumerInv
  BY <1>1, <1>2, <1>3 DEF ConsumerInv, Positions
<1>5. \A g \in Groups : Missing(g) = {}
  BY <1>1 DEF Missing
<1>6. OneLossPerFault
  BY <1>1, <1>5, FS_EmptySet DEF OneLossPerFault, Missing
<1> QED
  BY <1>1, <1>4, <1>6 DEF LossInv

LEMMA LossNext == LossInv /\ [Next]_vars => LossInv'
<1> SUFFICES ASSUME LossInv, [Next]_vars PROVE LossInv'
  OBVIOUS
<1>t. /\ "risk" \in Tasks /\ "compliance" \in Tasks /\ "risk" \in Groups
      /\ "compliance" \in Groups
  BY DEF Tasks, Groups
<1>1. CASE VendorAction \/ AddTechStackComponent \/ Quiescent \/ UNCHANGED vars
  BY <1>1, StepVendor DEF VendorAction, Quiescent
<1>2. ASSUME NEW t \in Tasks, RiskStep(t) PROVE LossInv'
  BY <1>2, StepRead, StepReadTechStack, StepFlush, StepCommitScore DEF RiskStep
<1>3. CASE ConsumeRisk
  BY <1>t, <1>2, <1>3, StepFetch, StepPublish DEF ConsumeRisk
<1>4. CASE ConsumeCompliance
  BY <1>t, <1>4, StepFetch, StepAssess, StepCompliance DEF ConsumeCompliance, AssessBaseline
<1>5. ASSUME NEW g \in Groups, Rejoin(g) PROVE LossInv'
  BY <1>5, StepRejoin
<1>6. ASSUME NEW t \in Scorers, RequestComputation(t) \/ RiskStep(t) \/ CutOff(t)
      PROVE  LossInv'
  BY <1>2, <1>6, StepRequest, RequestsAreNot
<1>7. ASSUME NEW t \in Assessors,
             RequestComputation(t) \/ CreateAssessment(t) \/ ComplianceStep(t) \/ CutOff(t)
      PROVE  LossInv'
  BY <1>7, StepRequest, StepAssess, StepCompliance, RequestsAreNot DEF CreateAssessment
<1> QED
  BY <1>1, <1>3, <1>4, <1>5, <1>6, <1>7 DEF Next

\* Whatever number of events, consumers' deaths and failing reads: each costs a
\* group at most the one event it was handling.
THEOREM LossesAreFaults == Spec => []OneLossPerFault
<1>1. LossInv => OneLossPerFault
  BY DEF LossInv
<1> QED
  BY <1>1, LossInit, LossNext, PTL DEF Spec

------------------------------------------------------------------------------
(* Rows and their messages.                                                *)

Computing == {"evidence", "flush", "commitScore"}

\* Rows are told apart by the transaction that made them: computations that run at
\* the same time have different ones, and so have the rows there are.
RowInv ==
    /\ clock \in [Groups -> Nat]
    /\ IsFiniteSet(scores)
    /\ \A r \in scores : r.at \in 1..clock["risk"]
    /\ \A t \in Tasks : task[t].step \in Computing =>
          /\ task[t].at \in 1..clock["risk"]
          /\ \A r \in scores : r.at # task[t].at
          /\ \A u \in Tasks \ {t} : task[u].step \in Computing => task[u].at # task[t].at
    /\ \A t \in Tasks : task[t].step = "commitScore" => task[t].row.at = task[t].at
    /\ task["risk"].step # "idle" => task["risk"].trigger \in Nat \ {0}
    /\ task["risk"].step = "anomaly" => task["risk"].row.anomalous

\* What one task does to the rows when it inserts none and begins no transaction.
LEMMA RowsStay ==
    ASSUME LossInv, LossInv', RowInv, NEW t \in Tasks, NEW r,
           task'[t] = r, \A u \in Tasks \ {t} : task'[u] = task[u],
           clock' \in [Groups -> Nat], clock'["risk"] = clock["risk"], scores' = scores,
           r.step \in Computing => task[t].step \in Computing /\ r.at = task[t].at,
           r.step = "commitScore" => r.row.at = r.at,
           t = "risk" /\ r.step # "idle" => r.trigger \in Nat \ {0},
           t = "risk" /\ r.step = "anomaly" => r.row.anomalous
    PROVE  RowInv'
<1>1. \A u \in Tasks : task'[u].step \in Computing =>
          task[u].step \in Computing /\ task'[u].at = task[u].at
  OBVIOUS
<1>2. \A u \in Tasks : task'[u].step = "commitScore" => task'[u].row.at = task'[u].at
  BY DEF RowInv
<1>3. /\ task'["risk"].step # "idle" => task'["risk"].trigger \in Nat \ {0}
      /\ task'["risk"].step = "anomaly" => task'["risk"].row.anomalous
  <2>1. "risk" \in Tasks
    BY DEF Tasks, Groups
  <2>2. CASE t = "risk"
    BY <2>2
  <2>3. CASE t # "risk"
    <3>1. task'["risk"] = task["risk"]
      BY <2>1, <2>3
    <3> QED
      BY <3>1 DEF RowInv
  <2> QED
    BY <2>2, <2>3
<1>4. \A u \in Tasks : task'[u].step \in Computing =>
          /\ task'[u].at \in 1..clock'["risk"]
          /\ \A q \in scores' : q.at # task'[u].at
          /\ \A w \in Tasks \ {u} : task'[w].step \in Computing => task'[w].at # task'[u].at
  BY <1>1 DEF RowInv
<1> QED
  BY <1>2, <1>3, <1>4 DEF RowInv

\* The same for a step that sets what the task has in memory.
LEMMA RowsProceed ==
    ASSUME LossInv, LossInv', RowInv, NEW t \in Tasks, NEW r, Proceed(t, r),
           clock' = clock, scores' = scores,
           r.step \in Computing => task[t].step \in Computing /\ r.at = task[t].at,
           r.step = "commitScore" => r.row.at = r.at,
           t = "risk" /\ r.step # "idle" => r.trigger \in Nat \ {0},
           t = "risk" /\ r.step = "anomaly" => r.row.anomalous
    PROVE  RowInv'
<1>1. task'[t] = r /\ \A u \in Tasks \ {t} : task'[u] = task[u]
  BY DEF LossInv, ConsumerInv, Proceed
<1>2. clock' \in [Groups -> Nat] /\ clock'["risk"] = clock["risk"]
  BY DEF RowInv
<1> QED
  BY <1>1, <1>2, RowsStay

LEMMA RowsRead ==
    ASSUME LossInv, LossInv', RowInv, NEW t \in Tasks,
           ReadQuestionnaireScore(t) \/ ReadEvidence(t)
    PROVE  RowInv'
<1>1. /\ scores' = scores /\ clock' = clock
      /\ task[t].step # "idle"
  BY DEF ReadQuestionnaireScore, ReadEvidence, ReadPart, rowVars
<1>2. PICK next \in {"stack", "flush"} :
         /\ next = "flush" => task[t].step = "evidence"
         /\ \/ FinishTask(t)
            \/ \E v : Proceed(t, [task[t] EXCEPT !.parts = v, !.step = next])
  BY DEF ReadQuestionnaireScore, ReadEvidence, ReadPart
<1>3. CASE FinishTask(t)
  BY <1>1, <1>3, RowsProceed DEF FinishTask, NoTask, Computing
<1>4. ASSUME NEW v, Proceed(t, [task[t] EXCEPT !.parts = v, !.step = next])
      PROVE  RowInv'
  <2>1. PICK r : r = [task[t] EXCEPT !.parts = v, !.step = next]
    OBVIOUS
  <2>2. IsTask(task[t])
    BY TaskInMemory
  <2>3. r.step = next /\ r.trigger = task[t].trigger /\ r.at = task[t].at
    BY <2>1, <2>2 DEF IsTask
  <2>4. r.step \in Computing => task[t].step \in Computing /\ r.at = task[t].at
    BY <1>2, <2>3 DEF Computing
  <2>5. t = "risk" => r.trigger \in Nat \ {0}
    BY <1>1, <2>3 DEF RowInv
  <2> QED
    BY <1>1, <1>4, <2>1, <2>3, <2>4, <2>5, RowsProceed
<1> QED
  BY <1>2, <1>3, <1>4

LEMMA RowsReadStack ==
    ASSUME LossInv, LossInv', RowInv, NEW t \in Tasks, ReadTechStack(t)
    PROVE  RowInv'
<1>1. PICK n : n = clock["risk"] + 1
  OBVIOUS
<1>2. PICK w : /\ Proceed(t, [task[t] EXCEPT !.at = n, !.step = "evidence", !.parts = w])
               /\ clock' = [clock EXCEPT !["risk"] = n]
               /\ scores' = scores /\ task[t].step = "stack"
  <2>1. /\ Proceed(t, [task[t] EXCEPT
               !.at = clock["risk"] + 1, !.step = "evidence",
               !.parts = Also(@, StackParts(task[t].vendor))])
        /\ clock' = [clock EXCEPT !["risk"] = n]
        /\ scores' = scores /\ task[t].step = "stack"
    BY <1>1 DEF ReadTechStack, rowVars
  <2> QED
    BY <1>1, <2>1
<1>3. PICK r : r = [task[t] EXCEPT !.at = n, !.step = "evidence", !.parts = w]
  OBVIOUS
<1>4. IsTask(task[t])
  BY TaskInMemory
<1>5. r.step = "evidence" /\ r.trigger = task[t].trigger /\ r.at = n
  BY <1>3, <1>4 DEF IsTask
<1>6. task'[t] = r /\ \A u \in Tasks \ {t} : task'[u] = task[u]
  BY <1>2, <1>3 DEF LossInv, ConsumerInv, Proceed
<1>7. /\ clock["risk"] \in Nat /\ clock' \in [Groups -> Nat] /\ clock'["risk"] = n /\ n \in Nat
  BY <1>1, <1>2 DEF RowInv, Groups
<1>8. /\ \A i \in 1..clock["risk"] : i \in 1..n /\ i # n
      /\ n \in 1..n
  BY <1>1, <1>7
<1>9. \A q \in scores' : q.at \in 1..clock'["risk"] /\ q.at # n
  BY <1>2, <1>7, <1>8 DEF RowInv
<1>10. ASSUME NEW u \in Tasks, task'[u].step \in Computing
       PROVE  /\ task'[u].at \in 1..clock'["risk"]
              /\ \A q \in scores' : q.at # task'[u].at
              /\ \A x \in Tasks \ {u} : task'[x].step \in Computing => task'[x].at # task'[u].at
  <2>1. \A x \in Tasks \ {t} : task'[x].step \in Computing =>
            task'[x].at \in 1..clock'["risk"] /\ task'[x].at # n
    BY <1>6, <1>7, <1>8 DEF RowInv
  <2>2. CASE u = t
    BY <1>5, <1>6, <1>7, <1>8, <1>9, <2>1, <2>2
  <2>3. CASE u # t
    <3>1. /\ task'[u] = task[u] /\ \A q \in scores' : q.at # task'[u].at
      BY <1>2, <1>6, <1>10, <2>3 DEF RowInv
    <3>2. \A x \in Tasks \ {u} : task'[x].step \in Computing => task'[x].at # task'[u].at
      BY <1>5, <1>6, <1>10, <2>1, <2>3, <3>1 DEF RowInv
    <3> QED
      BY <1>10, <2>1, <2>3, <3>1, <3>2
  <2> QED
    BY <2>2, <2>3
<1>11. \A u \in Tasks : task'[u].step = "commitScore" => task'[u].row.at = task'[u].at
  BY <1>5, <1>6 DEF RowInv
<1>12. /\ task'["risk"].step # "idle" => task'["risk"].trigger \in Nat \ {0}
       /\ task'["risk"].step = "anomaly" => task'["risk"].row.anomalous
  <2>1. "risk" \in Tasks
    BY DEF Tasks, Groups
  <2>2. CASE t = "risk"
    BY <1>2, <1>5, <1>6, <2>2 DEF RowInv
  <2>3. CASE t # "risk"
    BY <1>6, <2>1, <2>3 DEF RowInv
  <2> QED
    BY <2>2, <2>3
<1> QED
  BY <1>2, <1>7, <1>9, <1>10, <1>11, <1>12 DEF RowInv

LEMMA RowsFlush ==
    ASSUME LossInv, LossInv', RowInv, NEW t \in Tasks, FlushScore(t)
    PROVE  RowInv'
<1>1. PICK row : row = ScoreRow(task[t])
  OBVIOUS
<1>2. PICK r : r = [task[t] EXCEPT !.row = row, !.step = "commitScore"]
  OBVIOUS
<1>3. /\ Proceed(t, r) /\ scores' = scores /\ clock' = clock /\ task[t].step = "flush"
  BY <1>1, <1>2 DEF FlushScore, rowVars
<1>4. IsTask(task[t])
  BY TaskInMemory
<1>5. r.step = "commitScore" /\ r.trigger = task[t].trigger /\ r.at = task[t].at /\ r.row = row
  BY <1>2, <1>4 DEF IsTask
<1>6. r.row.at = r.at
  BY <1>1, <1>5, ScoreRowIs
<1>7. t = "risk" => r.trigger \in Nat \ {0}
  BY <1>3, <1>5 DEF RowInv
<1> QED
  BY <1>3, <1>5, <1>6, <1>7, RowsProceed DEF Computing

LEMMA RowsCommit ==
    ASSUME LossInv, LossInv', RowInv, NEW t \in Tasks, CommitScore(t)
    PROVE  RowInv' /\ task[t].row \notin scores
<1>1. PICK row : row = task[t].row
  OBVIOUS
<1>2. /\ task[t].step = "commitScore" /\ scores' = scores \cup {row}
      /\ UNCHANGED clock
  BY <1>1 DEF CommitScore
<1>3. IsTask(task[t])
  BY TaskInMemory
<1>4. PICK r : /\ Proceed(t, r)
               /\ \/ r = NoTask
                  \/ r.step = "update" /\ r.trigger = task[t].trigger
  <2>1. CASE t \in Scorers
    BY <2>1 DEF CommitScore, FinishTask
  <2>2. CASE t \notin Scorers
    <3>1. PICK r : r = [task[t] EXCEPT !.step = "update"]
      OBVIOUS
    <3>2. Proceed(t, r)
      BY <2>2, <3>1 DEF CommitScore
    <3>3. r.step = "update" /\ r.trigger = task[t].trigger
      BY <3>1, <1>3 DEF IsTask
    <3> QED
      BY <3>2, <3>3
  <2> QED
    BY <2>1, <2>2
<1>5. r.step \in {"idle", "update"} /\ (r.step # "idle" => r.trigger = task[t].trigger)
  BY <1>4 DEF NoTask
<1>6. task'[t] = r /\ \A u \in Tasks \ {t} : task'[u] = task[u]
  BY <1>4 DEF LossInv, ConsumerInv, Proceed
<1>7. task[t].step \in Computing
  BY <1>2 DEF Computing
<1>8. /\ row.at = task[t].at /\ row.at \in 1..clock["risk"]
      /\ \A q \in scores : q.at # row.at
      /\ \A u \in Tasks \ {t} : task[u].step \in Computing => task[u].at # row.at
  BY <1>1, <1>2, <1>7 DEF RowInv
<1>9. \A u \in Tasks : task'[u].step \in Computing => u # t
  BY <1>5, <1>6 DEF Computing
<1>10. \A u \in Tasks : task'[u].step \in Computing =>
          /\ task'[u].at \in 1..clock'["risk"]
          /\ \A q \in scores' : q.at # task'[u].at
          /\ \A w \in Tasks \ {u} : task'[w].step \in Computing => task'[w].at # task'[u].at
  BY <1>2, <1>6, <1>8, <1>9 DEF RowInv
<1>11. \A u \in Tasks : task'[u].step = "commitScore" => task'[u].row.at = task'[u].at
  BY <1>5, <1>6 DEF RowInv
<1>12. /\ task'["risk"].step # "idle" => task'["risk"].trigger \in Nat \ {0}
       /\ task'["risk"].step = "anomaly" => task'["risk"].row.anomalous
  <2>1. "risk" \in Tasks
    BY DEF Tasks, Groups
  <2>2. CASE t = "risk"
    BY <1>2, <1>5, <1>6, <2>2 DEF RowInv
  <2>3. CASE t # "risk"
    BY <1>6, <2>1, <2>3 DEF RowInv
  <2> QED
    BY <2>2, <2>3
<1>13. IsFiniteSet(scores')
  BY <1>2, FS_AddElement DEF RowInv
<1>14. \A q \in scores' : q.at \in 1..clock'["risk"]
  BY <1>2, <1>8 DEF RowInv
<1>15. clock' \in [Groups -> Nat]
  BY <1>2 DEF RowInv
<1>16. row \notin scores
  BY <1>8
<1> QED
  BY <1>1, <1>10, <1>11, <1>12, <1>13, <1>14, <1>15, <1>16 DEF RowInv

LEMMA RowsPublish ==
    ASSUME LossInv, LossInv', RowInv, PublishUpdate("risk") \/ PublishAnomaly("risk")
    PROVE  RowInv'
<1>1. /\ scores' = scores /\ clock' = clock /\ task["risk"].step # "idle" /\ "risk" \in Tasks
  BY DEF PublishUpdate, PublishAnomaly, Publish, rowVars, Tasks, Groups
<1>2. CASE FinishTask("risk")
  BY <1>1, <1>2, RowsProceed DEF FinishTask, NoTask, Computing
<1>3. CASE /\ Proceed("risk", [task["risk"] EXCEPT !.step = "anomaly"])
           /\ task["risk"].row.anomalous
  <2>1. PICK r : r = [task["risk"] EXCEPT !.step = "anomaly"]
    OBVIOUS
  <2>2. IsTask(task["risk"])
    BY <1>1, TaskInMemory
  <2>3. r.step = "anomaly" /\ r.trigger = task["risk"].trigger /\ r.row = task["risk"].row
    BY <2>1, <2>2 DEF IsTask
  <2>4. r.trigger \in Nat \ {0} /\ r.row.anomalous /\ r.step \notin Computing
    BY <1>1, <1>3, <2>3 DEF RowInv, Computing
  <2> QED
    BY <1>1, <1>3, <2>1, <2>3, <2>4, RowsProceed
<1> QED
  BY <1>2, <1>3 DEF PublishUpdate, PublishAnomaly

LEMMA RowsRequest ==
    ASSUME LossInv, LossInv', RowInv, NEW t \in Scorers \cup Assessors,
           RequestComputation(t) \/ CutOff(t)
    PROVE  RowInv'
<1>1. UNCHANGED <<scores, clock>>
  BY DEF RequestComputation, CutOff, rowVars
<1>2. t \in Tasks /\ t # "risk"
  BY RequestsAreNot DEF Groups
<1>3. PICK r : Proceed(t, r) /\ r.step \in {"idle", "questionnaire", "assess"}
  BY NewTaskOK DEF RequestComputation, CutOff, FinishTask
<1>4. r.step \notin Computing /\ r.step # "commitScore"
  BY <1>3 DEF Computing
<1> QED
  BY <1>1, <1>2, <1>3, <1>4, RowsProceed

LEMMA RowsAssess ==
    ASSUME LossInv, LossInv', RowInv, NEW t \in Assessors \cup {"compliance"},
           NEW framework, NEW overrides, NEW actor,
           RunAssessment(t, framework, overrides, actor)
    PROVE  RowInv'
<1>1. t \in Tasks /\ t # "risk"
  BY RequestsAreNot DEF Tasks, Groups
<1>2. PICK row : Proceed(t, [task[t] EXCEPT !.step = "commitAssessment", !.row = row])
  BY DEF RunAssessment
<1>3. PICK r : r = [task[t] EXCEPT !.step = "commitAssessment", !.row = row]
  OBVIOUS
<1>4. IsTask(task[t])
  BY <1>1, TaskInMemory
<1>5. r.step = "commitAssessment"
  BY <1>3, <1>4 DEF IsTask
<1>6. PICK n : n = clock["compliance"] + 1
  OBVIOUS
<1>7. scores' = scores /\ clock' = [clock EXCEPT !["compliance"] = n]
  BY <1>6 DEF RunAssessment, rowVars
<1>8. clock' \in [Groups -> Nat] /\ clock'["risk"] = clock["risk"]
  BY <1>6, <1>7 DEF RowInv, Groups
<1>9. task'[t] = r /\ \A u \in Tasks \ {t} : task'[u] = task[u]
  BY <1>1, <1>2, <1>3 DEF LossInv, ConsumerInv, Proceed
<1>10. r.step \notin Computing /\ r.step # "commitScore"
  BY <1>5 DEF Computing
<1> QED
  BY <1>1, <1>7, <1>8, <1>9, <1>10, RowsStay

LEMMA RowsCompliance ==
    ASSUME LossInv, LossInv', RowInv, NEW t \in Assessors \cup {"compliance"},
           ComplianceStep(t)
    PROVE  RowInv'
<1>1. t \in Tasks /\ t # "risk"
  BY RequestsAreNot DEF Tasks, Groups
<1>2. UNCHANGED <<scores, clock>>
  BY DEF ComplianceStep, CommitAssessment, PublishAssessment, rowVars
<1>3. CASE CommitAssessment(t)
  <2>1. PICK r : r = [task[t] EXCEPT !.step = "verdict"]
    OBVIOUS
  <2>2. IsTask(task[t])
    BY <1>1, TaskInMemory
  <2>3. r.step = "verdict"
    BY <2>1, <2>2 DEF IsTask
  <2>4. Proceed(t, r)
    BY <1>3, <2>1 DEF CommitAssessment
  <2>5. r.step \notin Computing /\ r.step # "commitScore"
    BY <2>3 DEF Computing
  <2> QED
    BY <1>1, <1>2, <2>4, <2>5, RowsProceed
<1>4. CASE PublishAssessment(t)
  <2>1. Proceed(t, NoTask)
    BY <1>4 DEF PublishAssessment, FinishTask
  <2>2. NoTask.step \notin Computing /\ NoTask.step # "commitScore"
    BY DEF NoTask, Computing
  <2> QED
    BY <1>1, <1>2, <2>1, <2>2, RowsProceed
<1> QED
  BY <1>3, <1>4 DEF ComplianceStep

LEMMA RowsFetch ==
    ASSUME LossInv, LossInv', RowInv, NEW g \in Groups, Fetch(g)
    PROVE  RowInv'
<1>1. UNCHANGED <<scores, clock>> /\ g \in Tasks
  BY GroupsAreTasks DEF Fetch, rowVars
<1>2. position[g] \in Nat
  BY DEF LossInv, ConsumerInv, Positions
<1>3. PICK n : n = position'[g] /\ n \in Nat \ {0}
  BY <1>2 DEF Fetch, LossInv, ConsumerInv, Positions
<1>4. CASE Triggers(g, n)
  <2>1. PICK r : r = NewTask(g, topic[n].vendor, n)
    OBVIOUS
  <2>2. Proceed(g, r)
    BY <1>3, <1>4, <2>1 DEF Fetch
  <2>3. r.trigger = n /\ r.step \in {"questionnaire", "assess"}
    BY <2>1, NewTaskOK
  <2>4. r.step \notin Computing /\ r.step # "commitScore" /\ r.step # "anomaly"
    BY <2>3 DEF Computing
  <2> QED
    BY <1>1, <1>3, <2>2, <2>3, <2>4, RowsProceed
<1>5. CASE ~Triggers(g, n)
  <2>1. UNCHANGED task
    BY <1>3, <1>5 DEF Fetch
  <2> QED
    BY <1>1, <2>1 DEF RowInv
<1> QED
  BY <1>4, <1>5

LEMMA RowsRejoin ==
    ASSUME LossInv, LossInv', RowInv, NEW g \in Groups, Rejoin(g)
    PROVE  RowInv'
<1>1. UNCHANGED <<scores, clock>> /\ g \in Tasks /\ Proceed(g, NoTask)
  BY GroupsAreTasks DEF Rejoin, FinishTask, rowVars
<1>2. NoTask.step \notin Computing /\ NoTask.step = "idle"
  BY DEF NoTask, Computing
<1> QED
  BY <1>1, <1>2, RowsProceed

LEMMA RowsNext == LossInv /\ LossInv' /\ RowInv /\ [Next]_vars => RowInv'
<1> SUFFICES ASSUME LossInv, LossInv', RowInv, [Next]_vars PROVE RowInv'
  OBVIOUS
<1>t. /\ "risk" \in Tasks /\ "compliance" \in Tasks /\ "risk" \in Groups
      /\ "compliance" \in Groups
  BY DEF Tasks, Groups
<1>1. CASE VendorAction \/ AddTechStackComponent \/ Quiescent \/ UNCHANGED vars
  <2>1. UNCHANGED <<scores, clock, task>>
    BY <1>1 DEF VendorAction, AddTechStackComponent, Quiescent, vars, serviceVars, rowVars
  <2> QED
    BY <2>1 DEF RowInv
<1>2. ASSUME NEW t \in Tasks, RiskStep(t) PROVE RowInv'
  BY <1>2, RowsRead, RowsReadStack, RowsFlush, RowsCommit DEF RiskStep
<1>3. CASE ConsumeRisk
  BY <1>t, <1>2, <1>3, RowsFetch, RowsPublish DEF ConsumeRisk
<1>4. CASE ConsumeCompliance
  BY <1>t, <1>4, RowsFetch, RowsAssess, RowsCompliance DEF ConsumeCompliance, AssessBaseline
<1>5. ASSUME NEW g \in Groups, Rejoin(g) PROVE RowInv'
  BY <1>5, RowsRejoin
<1>6. ASSUME NEW t \in Scorers, RequestComputation(t) \/ RiskStep(t) \/ CutOff(t)
      PROVE  RowInv'
  BY <1>2, <1>6, RowsRequest, RequestsAreNot
<1>7. ASSUME NEW t \in Assessors,
             RequestComputation(t) \/ CreateAssessment(t) \/ ComplianceStep(t) \/ CutOff(t)
      PROVE  RowInv'
  BY <1>7, RowsRequest, RowsAssess, RowsCompliance DEF CreateAssessment
<1> QED
  BY <1>1, <1>3, <1>4, <1>5, <1>6, <1>7 DEF Next

\* own gives each message the row it announces, and no two messages of a kind the
\* same; the row at hand has not been announced.
IsOwn(own) ==
    /\ \A i \in DOMAIN updates :
          /\ own[i] \in scores /\ own[i].trigger > 0
          /\ updates[i].kind \in {"updated", "anomaly"}
          /\ updates[i] = Message(updates[i].kind, own[i])
          /\ updates[i].kind = "anomaly" => own[i].anomalous
          /\ task["risk"].step = "update" => own[i] # task["risk"].row
          /\ task["risk"].step = "anomaly" /\ updates[i].kind = "anomaly" =>
                own[i] # task["risk"].row
    /\ \A i, j \in DOMAIN updates :
          own[i] = own[j] /\ updates[i].kind = updates[j].kind => i = j

MessageInv == IsSeq(updates) /\ \E own \in [DOMAIN updates -> scores] : IsOwn(own)

\* A step that announces nothing, and takes up no row that has been announced.
LEMMA MessagesStay ==
    ASSUME MessageInv, updates' = updates, scores \subseteq scores',
           \/ task'["risk"].step \notin {"update", "anomaly"}
           \/ task'["risk"].row \notin scores
           \/ /\ task'["risk"].row = task["risk"].row
              /\ \/ task["risk"].step = "update"
                 \/ task["risk"].step = "anomaly" /\ task'["risk"].step = "anomaly"
    PROVE  MessageInv'
<1>1. PICK own \in [DOMAIN updates -> scores] : IsOwn(own)
  BY DEF MessageInv
<1>2. own \in [DOMAIN updates' -> scores']
  OBVIOUS
<1>3. IsOwn(own)'
  BY <1>1 DEF IsOwn, Message
<1>4. IsSeq(updates)'
  BY DEF MessageInv
<1> QED
  BY <1>2, <1>3, <1>4 DEF MessageInv

\* Publishing the row at hand.
LEMMA MessagesGrow ==
    ASSUME LossInv, RowInv, MessageInv, NEW kind \in {"updated", "anomaly"},
           task["risk"].step = (IF kind = "updated" THEN "update" ELSE "anomaly"),
           updates' = Append(updates, Message(kind, task["risk"].row)),
           scores' = scores,
           \/ task'["risk"].step \notin {"update", "anomaly"}
           \/ /\ kind = "updated" /\ task'["risk"].step = "anomaly"
              /\ task'["risk"].row = task["risk"].row
    PROVE  MessageInv'
<1>1. PICK own \in [DOMAIN updates -> scores] : IsOwn(own)
  BY DEF MessageInv
<1>2. PICK row : row = task["risk"].row
  OBVIOUS
<1>3. /\ row \in scores /\ row.trigger > 0 /\ (kind = "anomaly" => row.anomalous)
  <2>1. "risk" \in Tasks
    BY DEF Tasks, Groups
  <2>2. TaskOK(task["risk"])
    BY <2>1, TaskInMemory
  <2>3. row \in scores /\ row.trigger = task["risk"].trigger
    BY <1>2, <2>2 DEF TaskOK
  <2>4. task["risk"].trigger \in Nat \ {0} /\ (kind = "anomaly" => row.anomalous)
    BY <1>2 DEF RowInv
  <2> QED
    BY <2>3, <2>4
<1>4. PICK m : m = Message(kind, row)
  OBVIOUS
<1>5. m.kind = kind /\ m = Message(m.kind, row)
  BY <1>4 DEF Message
<1>6. PICK n : n = Len(updates) + 1
  OBVIOUS
<1>7. /\ Len(updates) \in Nat /\ DOMAIN updates = 1..Len(updates)
      /\ IsSeq(updates') /\ DOMAIN updates' = 1..n
      /\ \A i \in DOMAIN updates : updates'[i] = updates[i]
      /\ updates'[n] = m
  <2>1. IsSeq(updates) /\ updates' = Append(updates, m)
    BY <1>2, <1>4 DEF MessageInv
  <2> QED
    BY <1>6, <2>1, AppendOne
<1>8. n \notin DOMAIN updates /\ \A i \in DOMAIN updates' : i \in DOMAIN updates \/ i = n
  BY <1>6, <1>7
<1>9. PICK own2 : own2 = [i \in DOMAIN updates' |-> IF i = n THEN row ELSE own[i]]
  OBVIOUS
<1>10. own2 \in [DOMAIN updates' -> scores']
  BY <1>3, <1>8, <1>9
<1>11. /\ \A i \in DOMAIN updates : own2[i] = own[i]
       /\ own2[n] = row /\ n \in DOMAIN updates'
  BY <1>6, <1>7, <1>8, <1>9
<1>12. ASSUME NEW i \in DOMAIN updates, updates[i].kind = kind
       PROVE  own[i] # row
  BY <1>1, <1>2, <1>12 DEF IsOwn
<1>13. ASSUME NEW i \in DOMAIN updates'
       PROVE  /\ own2[i] \in scores' /\ own2[i].trigger > 0
              /\ updates'[i].kind \in {"updated", "anomaly"}
              /\ updates'[i] = Message(updates'[i].kind, own2[i])
              /\ updates'[i].kind = "anomaly" => own2[i].anomalous
              /\ task'["risk"].step = "update" => own2[i] # task'["risk"].row
              /\ task'["risk"].step = "anomaly" /\ updates'[i].kind = "anomaly" =>
                    own2[i] # task'["risk"].row
  <2>1. CASE i = n
    BY <1>2, <1>3, <1>5, <1>7, <1>11, <2>1
  <2>2. CASE i \in DOMAIN updates
    BY <1>1, <1>2, <1>7, <1>11, <2>2 DEF IsOwn
  <2> QED
    BY <1>8, <2>1, <2>2
<1>14. \A i, j \in DOMAIN updates' :
          own2[i] = own2[j] /\ updates'[i].kind = updates'[j].kind => i = j
  BY <1>1, <1>5, <1>7, <1>8, <1>11, <1>12 DEF IsOwn
<1>15. IsOwn(own2)'
  BY <1>13, <1>14 DEF IsOwn, Message
<1> QED
  BY <1>7, <1>10, <1>15 DEF MessageInv

\* Another task's step, or one of the consumer that does not publish next.
LEMMA MessagesOfOthers ==
    ASSUME LossInv, MessageInv, updates' = updates, scores \subseteq scores',
           task'["risk"] = task["risk"] \/ task'["risk"].step \notin {"update", "anomaly"}
    PROVE  MessageInv'
<1>1. CASE task'["risk"].step \notin {"update", "anomaly"}
  BY <1>1, MessagesStay
<1>2. CASE task'["risk"] = task["risk"] /\ task'["risk"].step \in {"update", "anomaly"}
  BY <1>2, MessagesStay
<1> QED
  BY <1>1, <1>2

LEMMA MessagesPublish ==
    ASSUME LossInv, RowInv, MessageInv, PublishUpdate("risk") \/ PublishAnomaly("risk")
    PROVE  MessageInv'
<1>1. PICK kind \in {"updated", "anomaly"} :
        /\ task["risk"].step = (IF kind = "updated" THEN "update" ELSE "anomaly")
        /\ Publish("risk", kind)
        /\ \/ FinishTask("risk")
           \/ kind = "updated" /\ Proceed("risk", [task["risk"] EXCEPT !.step = "anomaly"])
  BY DEF PublishUpdate, PublishAnomaly
<1>2. /\ scores' = scores
      /\ updates' = Append(updates, Message(kind, task["risk"].row)) \/ updates' = updates
  BY <1>1 DEF Publish, rowVars
<1>3. "risk" \in Tasks /\ DOMAIN task = Tasks
  BY DEF Tasks, Groups, LossInv, ConsumerInv
<1>4. CASE FinishTask("risk")
  <2>1. task'["risk"].step = "idle"
    BY <1>3, <1>4 DEF FinishTask, Proceed, NoTask
  <2> QED
    BY <1>1, <1>2, <2>1, MessagesGrow, MessagesStay
<1>5. CASE kind = "updated" /\ Proceed("risk", [task["risk"] EXCEPT !.step = "anomaly"])
  <2>1. PICK r : r = [task["risk"] EXCEPT !.step = "anomaly"]
    OBVIOUS
  <2>2. IsTask(task["risk"])
    BY <1>3, TaskInMemory
  <2>3. r.step = "anomaly" /\ r.row = task["risk"].row
    BY <2>1, <2>2 DEF IsTask
  <2>4. task'["risk"].step = "anomaly" /\ task'["risk"].row = task["risk"].row
    BY <1>3, <1>5, <2>1, <2>3 DEF Proceed
  <2>5. task["risk"].step = "update"
    BY <1>1, <1>5
  <2> QED
    BY <1>1, <1>2, <1>5, <2>4, <2>5, MessagesGrow, MessagesStay
<1> QED
  BY <1>1, <1>4, <1>5

\* A step of a computation.
LEMMA MessagesOfSteps ==
    ASSUME LossInv, LossInv', RowInv, MessageInv, NEW t \in Tasks, RiskStep(t)
    PROVE  MessageInv'
<1>1. updates' = updates /\ scores \subseteq scores'
  BY DEF RiskStep, ReadQuestionnaireScore, ReadEvidence, ReadPart, ReadTechStack, FlushScore,
     CommitScore, rowVars
<1>2. "risk" \in Tasks /\ DOMAIN task = Tasks /\ IsTask(task[t])
  BY TaskInMemory DEF Tasks, Groups, LossInv, ConsumerInv
<1>3. PICK r : Proceed(t, r)
  BY DEF RiskStep, ReadQuestionnaireScore, ReadEvidence, ReadPart, ReadTechStack, FlushScore,
     CommitScore, FinishTask
<1>4. CASE t # "risk"
  <2>1. task'["risk"] = task["risk"]
    BY <1>2, <1>3, <1>4 DEF Proceed
  <2> QED
    BY <1>1, <2>1, MessagesOfOthers
<1>5. CASE ReadQuestionnaireScore(t) \/ ReadEvidence(t)
  <2>1. PICK next \in {"stack", "flush"} :
          \/ FinishTask(t)
          \/ \E v : Proceed(t, [task[t] EXCEPT !.parts = v, !.step = next])
    BY <1>5 DEF ReadQuestionnaireScore, ReadEvidence, ReadPart
  <2>2. CASE FinishTask(t)
    BY <1>1, <1>2, <1>4, <2>2, MessagesOfOthers DEF FinishTask, Proceed, NoTask
  <2>3. ASSUME NEW v, Proceed(t, [task[t] EXCEPT !.parts = v, !.step = next])
        PROVE  MessageInv'
    <3>1. PICK q : q = [task[t] EXCEPT !.parts = v, !.step = next]
      OBVIOUS
    <3>2. q.step = next
      BY <1>2, <3>1 DEF IsTask
    <3>3. task'[t].step = next
      BY <1>2, <2>3, <3>1, <3>2 DEF Proceed
    <3> QED
      BY <1>1, <1>4, <3>3, MessagesOfOthers
  <2> QED
    BY <2>1, <2>2, <2>3
<1>6. CASE ReadTechStack(t)
  <2>1. PICK n, w : Proceed(t, [task[t] EXCEPT !.at = n, !.step = "evidence", !.parts = w])
    <3>1. Proceed(t, [task[t] EXCEPT
              !.at = clock["risk"] + 1, !.step = "evidence",
              !.parts = Also(@, StackParts(task[t].vendor))])
      BY <1>6 DEF ReadTechStack
    <3> QED
      BY <3>1
  <2>2. PICK q : q = [task[t] EXCEPT !.at = n, !.step = "evidence", !.parts = w]
    OBVIOUS
  <2>3. q.step = "evidence"
    BY <1>2, <2>2 DEF IsTask
  <2>4. task'[t].step = "evidence"
    BY <1>2, <2>1, <2>2, <2>3 DEF Proceed
  <2> QED
    BY <1>1, <1>4, <2>4, MessagesOfOthers
<1>7. CASE FlushScore(t)
  <2>1. PICK row : row = ScoreRow(task[t])
    OBVIOUS
  <2>2. PICK q : q = [task[t] EXCEPT !.row = row, !.step = "commitScore"]
    OBVIOUS
  <2>3. q.step = "commitScore"
    BY <1>2, <2>2 DEF IsTask
  <2>4. task'[t].step = "commitScore"
    BY <1>2, <1>7, <2>1, <2>2, <2>3 DEF FlushScore, Proceed
  <2> QED
    BY <1>1, <1>4, <2>4, MessagesOfOthers
<1>8. CASE CommitScore(t) /\ t = "risk"
  <2>1. task[t].row \notin scores
    BY <1>8, RowsCommit
  <2>2. "risk" \notin Scorers
    BY TaskAssumption DEF Groups
  <2>3. PICK q : q = [task[t] EXCEPT !.step = "update"]
    OBVIOUS
  <2>4. q.step = "update" /\ q.row = task[t].row
    BY <1>2, <2>3 DEF IsTask
  <2>5. task'["risk"].row = task[t].row
    BY <1>2, <1>8, <2>2, <2>3, <2>4 DEF CommitScore, Proceed
  <2> QED
    BY <1>1, <2>1, <2>5, MessagesStay
<1> QED
  BY <1>4, <1>5, <1>6, <1>7, <1>8 DEF RiskStep

LEMMA MessagesNext ==
    LossInv /\ LossInv' /\ RowInv /\ MessageInv /\ [Next]_vars => MessageInv'
<1> SUFFICES ASSUME LossInv, LossInv', RowInv, MessageInv, [Next]_vars PROVE MessageInv'
  OBVIOUS
<1>t. /\ "risk" \in Tasks /\ "risk" \in Groups /\ "compliance" \in Tasks /\ DOMAIN task = Tasks
  BY DEF Tasks, Groups, LossInv, ConsumerInv
<1>1. CASE VendorAction \/ AddTechStackComponent \/ Quiescent \/ UNCHANGED vars
  <2>1. UNCHANGED <<scores, updates, task>>
    BY <1>1 DEF VendorAction, AddTechStackComponent, Quiescent, vars, serviceVars, rowVars
  <2> QED
    BY <2>1, MessagesOfOthers
<1>2. ASSUME NEW g \in Groups, Fetch(g) PROVE MessageInv'
  <2>1. UNCHANGED <<scores, updates>> /\ g \in Tasks
    BY <1>2, GroupsAreTasks DEF Fetch, rowVars
  <2>2. task' = task \/ \E v, i : Proceed(g, NewTask(g, v, i))
    BY <1>2 DEF Fetch
  <2>3. CASE task' = task
    BY <2>1, <2>3, MessagesOfOthers
  <2>4. ASSUME NEW v, NEW i, Proceed(g, NewTask(g, v, i)) PROVE MessageInv'
    <3>1. task'[g] = NewTask(g, v, i) /\ \A u \in Tasks \ {g} : task'[u] = task[u]
      BY <1>t, <2>1, <2>4 DEF Proceed
    <3>2. task'[g].step \notin {"update", "anomaly"}
      BY <3>1, NewTaskOK
    <3> QED
      BY <1>t, <2>1, <3>1, <3>2, MessagesOfOthers
  <2> QED
    BY <2>2, <2>3, <2>4
<1>3. CASE ConsumeRisk
  BY <1>t, <1>2, <1>3, MessagesOfSteps, MessagesPublish DEF ConsumeRisk
<1>4. ASSUME NEW t \in Tasks, t # "risk", NEW r, Proceed(t, r), UNCHANGED <<scores, updates>>
      PROVE  MessageInv'
  <2>1. task'["risk"] = task["risk"]
    BY <1>t, <1>4 DEF Proceed
  <2> QED
    BY <1>4, <2>1, MessagesOfOthers
<1>5. ASSUME NEW t \in Tasks, t # "risk",
             \/ AssessBaseline /\ t = "compliance"
             \/ CreateAssessment(t) \/ ComplianceStep(t) \/ RequestComputation(t) \/ CutOff(t)
      PROVE  MessageInv'
  <2>1. UNCHANGED <<scores, updates>> /\ \E r : Proceed(t, r)
    BY <1>5 DEF AssessBaseline, CreateAssessment, RunAssessment, ComplianceStep,
       CommitAssessment, PublishAssessment, RequestComputation, CutOff, FinishTask, rowVars
  <2> QED
    BY <1>4, <1>5, <2>1
<1>6. CASE ConsumeCompliance
  <2>1. "compliance" \in Groups /\ "compliance" # "risk"
    BY DEF Groups
  <2> QED
    BY <1>t, <1>2, <1>5, <1>6, <2>1 DEF ConsumeCompliance
<1>7. ASSUME NEW g \in Groups, Rejoin(g) PROVE MessageInv'
  <2>1. UNCHANGED <<scores, updates>> /\ g \in Tasks /\ Proceed(g, NoTask)
    BY <1>7, GroupsAreTasks DEF Rejoin, FinishTask, rowVars
  <2>2. task'["risk"] = task["risk"] \/ task'["risk"].step = "idle"
    BY <1>t, <2>1 DEF Proceed, NoTask
  <2> QED
    BY <2>1, <2>2, MessagesOfOthers
<1>8. ASSUME NEW t \in Scorers, RequestComputation(t) \/ RiskStep(t) \/ CutOff(t)
      PROVE  MessageInv'
  <2>1. t \in Tasks /\ t # "risk"
    BY <1>t, RequestsAreNot
  <2> QED
    BY <1>5, <1>8, <2>1, MessagesOfSteps
<1>9. ASSUME NEW t \in Assessors,
             RequestComputation(t) \/ CreateAssessment(t) \/ ComplianceStep(t) \/ CutOff(t)
      PROVE  MessageInv'
  <2>1. t \in Tasks /\ t # "risk"
    BY <1>t, RequestsAreNot
  <2> QED
    BY <1>5, <1>9, <2>1
<1> QED
  BY <1>1, <1>3, <1>6, <1>7, <1>8, <1>9 DEF Next

LEMMA RowsInit == Init => RowInv /\ MessageInv
<1> SUFFICES ASSUME Init PROVE RowInv /\ MessageInv
  OBVIOUS
<1>1. /\ scores = {} /\ updates = <<>> /\ clock = [g \in Groups |-> 0]
      /\ task = [t \in Tasks |-> NoTask]
  BY DEF Init
<1>2. RowInv
  <2>1. IsFiniteSet(scores)
    BY <1>1, FS_EmptySet
  <2>2. \A t \in Tasks : task[t].step = "idle"
    BY <1>1 DEF NoTask
  <2>3. "risk" \in Tasks
    BY DEF Tasks, Groups
  <2> QED
    BY <1>1, <2>1, <2>2, <2>3 DEF RowInv, Computing
<1>3. MessageInv
  <2>1. IsSeq(updates) /\ DOMAIN updates = {}
    BY <1>1 DEF IsSeq
  <2>2. PICK own : own \in [DOMAIN updates -> scores]
    <3>1. [i \in DOMAIN updates |-> 0] \in [DOMAIN updates -> scores]
      BY <2>1
    <3> QED
      BY <3>1
  <2>3. IsOwn(own)
    BY <2>1 DEF IsOwn
  <2> QED
    BY <2>1, <2>2, <2>3 DEF MessageInv
<1> QED
  BY <1>2, <1>3

\* own matches the messages of one content with rows of that content.
LEMMA MessagesHaveRows ==
    ASSUME LossInv, RowInv, MessageInv
    PROVE  UpdatesAreRows
<1>1. PICK own \in [DOMAIN updates -> scores] : IsOwn(own)
  BY DEF MessageInv
<1> SUFFICES ASSUME NEW m \in Range(updates)
             PROVE  Cardinality({i \in DOMAIN updates : updates[i] = m}) <=
                      Cardinality({r \in scores : r.trigger > 0 /\ m = Message(m.kind, r)
                                                  /\ (m.kind = "anomaly" => r.anomalous)})
  BY DEF UpdatesAreRows
<1> DEFINE S == {i \in DOMAIN updates : updates[i] = m}
           R == {r \in scores : r.trigger > 0 /\ m = Message(m.kind, r)
                                /\ (m.kind = "anomaly" => r.anomalous)}
<1>2. IsFiniteSet(R)
  BY FS_Subset DEF RowInv
<1>3. \A i \in S : own[i] \in R /\ \A j \in S : own[i] = own[j] => i = j
  BY <1>1 DEF IsOwn
<1> HIDE DEF S, R
<1>4. PICK image : image = {own[i] : i \in S}
  OBVIOUS
<1>5. image \subseteq R /\ IsFiniteSet(image)
  BY <1>2, <1>3, <1>4, FS_Subset
<1>6. PICK f : f = [i \in S |-> own[i]]
  OBVIOUS
<1>7. f \in Injection(S, image) /\ f \in Surjection(S, image)
  <2>1. f \in [S -> image] /\ \A a, b \in S : f[a] = f[b] => a = b
    BY <1>3, <1>4, <1>6
  <2>2. \A r \in image : \E a \in S : f[a] = r
    BY <1>4, <1>6
  <2> QED
    BY <2>1, <2>2 DEF Injection, IsInjective, Surjection
<1>8. Cardinality(S) = Cardinality(image)
  BY <1>5, <1>7, FS_Injection
<1>9. Cardinality(image) <= Cardinality(R) /\ Cardinality(R) \in Nat
  BY <1>2, <1>5, FS_Subset, FS_CardinalityType
<1>10. Cardinality(S) <= Cardinality(R)
  BY <1>8, <1>9
<1> QED
  BY <1>10 DEF S, R

\* What risk-service announces is in its table, and each row is announced once.
THEOREM MessagesAreRows == Spec => []UpdatesAreRows
<1>1. LossInv /\ RowInv /\ MessageInv => UpdatesAreRows
  BY MessagesHaveRows
<1>2. Init => LossInv /\ RowInv /\ MessageInv
  BY LossInit, RowsInit
<1>3. /\ LossInv /\ RowInv /\ MessageInv /\ [Next]_vars
         => (LossInv /\ RowInv /\ MessageInv)'
  BY LossNext, RowsNext, MessagesNext
<1> QED
  BY <1>1, <1>2, <1>3, PTL DEF Spec

------------------------------------------------------------------------------
(* The scores.                                                              *)

\* A fold with + is the sum of SumTheorems.
LEMMA SumOnSet ==
    ASSUME NEW w, NEW S
    PROVE  FoldFunctionOnSet(+, 0, w, S) = Total(w, S)
BY DEF FoldFunctionOnSet, Total, MapThenSumSet

\* SumFunction adds up all the values of a function.
LEMMA SumOfValues ==
    ASSUME NEW f
    PROVE  SumFunction(f) = Total(f, DOMAIN f)
BY DEF SumFunction, SumFunctionOnSet, FoldFunctionOnSet, Total, MapThenSumSet

\* Python's round keeps a quotient in the range of its ends.
LEMMA RoundBounded ==
    ASSUME NEW a \in Nat, NEW b \in Nat \ {0}, NEW k \in Nat, a <= k * b
    PROVE  RoundRatio(a, b) \in 0..k
<1> DEFINE q == a \div b
           p == a % b
<1>1. q \in Nat /\ p \in 0..(b - 1) /\ a = (b * q) + p
  OBVIOUS
<1> HIDE DEF q, p
<1>2. RoundRatio(a, b) \in {q, q + 1} /\ (p = 0 => RoundRatio(a, b) = q)
  BY <1>1 DEF RoundRatio, q, p
<1>3. q <= k /\ (p > 0 => q + 1 <= k)
  BY <1>1
<1> QED
  BY <1>1, <1>2, <1>3

\* A quotient and a remainder.
LEMMA QuotientsAre ==
    ASSUME NEW b \in Nat \ {0}, NEW a \in Nat
    PROVE  \E q \in Nat, p \in 0..(b - 1) :
             /\ a = (b * q) + p
             /\ RoundRatio(a, b) = IF 2 * p > b \/ (2 * p = b /\ q % 2 = 1) THEN q + 1 ELSE q
<1>1. a \div b \in Nat /\ (a % b) \in 0..(b - 1) /\ a = (b * (a \div b)) + (a % b)
  OBVIOUS
<1>2. RoundRatio(a, b) = IF 2 * (a % b) > b \/ (2 * (a % b) = b /\ (a \div b) % 2 = 1)
                         THEN (a \div b) + 1 ELSE a \div b
  BY DEF RoundRatio
<1> QED
  BY <1>1, <1>2

\* ... and keeps the order.
LEMMA RoundMonotone ==
    ASSUME NEW b \in Nat \ {0}, NEW a \in Nat, NEW c \in Nat, a <= c
    PROVE  RoundRatio(a, b) <= RoundRatio(c, b)
<1>1. PICK q \in Nat, p \in 0..(b - 1) :
         /\ a = (b * q) + p
         /\ RoundRatio(a, b) = IF 2 * p > b \/ (2 * p = b /\ q % 2 = 1) THEN q + 1 ELSE q
  BY QuotientsAre
<1>2. PICK u \in Nat, v \in 0..(b - 1) :
         /\ c = (b * u) + v
         /\ RoundRatio(c, b) = IF 2 * v > b \/ (2 * v = b /\ u % 2 = 1) THEN u + 1 ELSE u
  BY QuotientsAre
<1>3. q <= u /\ (q = u => p <= v)
  <2>1. (b * q) + p <= (b * u) + v /\ p < b /\ v < b /\ p >= 0
    BY <1>1, <1>2
  <2>2. ASSUME q > u PROVE FALSE
    <3>1. PICK d \in Nat : q = u + 1 + d
      <4>1. q - u - 1 \in Nat /\ q = u + 1 + (q - u - 1)
        BY <2>2
      <4> QED
        BY <4>1
    <3>2. b * q = (b * u) + b + (b * d) /\ b * d >= 0
      BY <3>1
    <3> QED
      BY <2>1, <3>2
  <2> QED
    BY <2>1, <2>2
<1>4. RoundRatio(a, b) \in {q, q + 1} /\ RoundRatio(c, b) \in {u, u + 1}
  BY <1>1, <1>2
<1>5. CASE q < u
  BY <1>4, <1>5
<1>6. CASE q = u
  <2>1. (2 * p > b => 2 * v > b) /\ (2 * p = b => 2 * v = b \/ 2 * v > b)
    BY <1>3, <1>6
  <2> QED
    BY <1>1, <1>2, <1>6, <2>1
<1> QED
  BY <1>3, <1>5, <1>6

\* max(0, ...) of a number up to 100 is a sub-score.
LEMMA FloorRange ==
    ASSUME NEW x \in Int, x <= FullScore
    PROVE  Floor(x) \in 0..FullScore
BY DEF Floor, FullScore

\* Each CVE takes something off the vulnerability score, and never adds.
LEMMA PenaltyIsNatural == ASSUME NEW cve, cve.cvss \in Nat PROVE CvePenalty(cve) \in Nat
<1>1. \/ cve.cvss >= 90 \/ cve.cvss \in 70..89 \/ cve.cvss \in 40..69 \/ cve.cvss < 40
  OBVIOUS
<1> QED
  BY <1>1 DEF CvePenalty

\* So do the CVEs of one component together.
LEMMA PenaltiesAreNatural ==
    ASSUME NEW c \in Components
    PROVE  Penalties(CvesOf[c]) \in Nat
<1>1. PICK w : w = [i \in DOMAIN CvesOf[c] |-> CvePenalty(CvesOf[c][i])]
  OBVIOUS
<1>2. IsFiniteSet(DOMAIN w) /\ NaturalOn(w, DOMAIN w)
  BY <1>1, FeedAssumption, PenaltyIsNatural DEF NaturalOn
<1>3. Penalties(CvesOf[c]) = Total(w, DOMAIN w)
  BY <1>1, SumOfValues DEF Penalties
<1> QED
  BY <1>2, <1>3, SumRemove

\* compute_vulnerability_score, compute_evidence_score and the others: the sub-scores
\* are in range, whatever the feeds and the documents are.
LEMMA VulnerabilityRange ==
    ASSUME NEW stack, IsFiniteSet(DOMAIN stack),
           \A i \in DOMAIN stack : stack[i].component \in Components
    PROVE  VulnerabilityScore(stack, CvesOf) \in 0..FullScore
<1>1. PICK w : w = [i \in DOMAIN stack |-> Penalties(CvesOf[stack[i].component])]
  OBVIOUS
<1>2. DOMAIN w = DOMAIN stack /\ NaturalOn(w, DOMAIN w)
  BY <1>1, PenaltiesAreNatural DEF NaturalOn
<1>3. Total(w, DOMAIN w) \in Nat
  BY <1>2, SumRemove
<1>4. VulnerabilityScore(stack, CvesOf) = Floor(FullScore - Total(w, DOMAIN w))
  BY <1>1, SumOfValues DEF VulnerabilityScore
<1>5. FullScore - Total(w, DOMAIN w) \in Int /\ FullScore - Total(w, DOMAIN w) <= FullScore
  BY <1>3 DEF FullScore
<1> QED
  BY <1>4, <1>5, FloorRange

LEMMA EvidenceRange ==
    ASSUME NEW ids, IsFiniteSet(ids), NEW typeOf
    PROVE  EvidenceScore(ids, typeOf) \in 0..FullScore
<1>1. PICK w : w = [d \in ids |-> DocumentWeight(typeOf[d])]
  OBVIOUS
<1>2. DOMAIN w = ids /\ NaturalOn(w, ids)
  BY <1>1 DEF NaturalOn, DocumentWeight
<1>3. PICK n \in Nat : n = Total(w, ids)
  BY <1>2, SumRemove
<1>4. PICK m : m = Min({FullScore, n})
  OBVIOUS
<1>5. EvidenceScore(ids, typeOf) = m
  BY <1>1, <1>2, <1>3, <1>4, SumOfValues DEF EvidenceScore
<1>6. m \in {FullScore, n} /\ m <= FullScore
  <2>1. \E x \in {FullScore, n} : \A y \in {FullScore, n} : x <= y
    BY DEF FullScore
  <2> QED
    BY <1>4, <2>1 DEF Min
<1> QED
  BY <1>5, <1>6 DEF FullScore

\* An answer and its score, as update_responses stores them.
Answer == [answer : Answers \cup {Unanswered}, score : {NoScore, 0, 50, 100}]

\* questionnaire_score is a percentage, or 0 of nothing.
LEMMA QuestionnaireRange ==
    ASSUME NEW responses, IsFiniteSet(DOMAIN responses),
           \A q \in DOMAIN responses : responses[q].score \in {NoScore, 0, 50, 100}
    PROVE  QuestionnaireScore(responses) \in 0..FullScore
<1>1. PICK scored : scored = {q \in DOMAIN responses : responses[q].score # NoScore}
  OBVIOUS
<1>2. PICK w : w = [q \in scored |-> responses[q].score]
  OBVIOUS
<1>3. QuestionnaireScore(responses) =
        IF scored = {} THEN 0 ELSE RoundRatio(100 * Total(w, scored), Cardinality(scored))
  BY <1>1, <1>2, SumOnSet DEF QuestionnaireScore
<1>4. IsFiniteSet(scored) /\ \A q \in scored : w[q] \in 0..100
  BY <1>1, <1>2, FS_Subset DEF NoScore
<1>5. /\ Total(w, scored) \in Nat /\ Cardinality(scored) \in Nat
      /\ Total(w, scored) <= 100 * Cardinality(scored)
  BY <1>4, SumBounded
<1>6. CASE scored = {}
  BY <1>3, <1>6 DEF FullScore
<1>7. CASE scored # {}
  <2>1. Cardinality(scored) # 0
    BY <1>4, <1>7, FS_EmptySet
  <2>2. 100 * Total(w, scored) \in Nat /\ 100 * Total(w, scored) <= FullScore * Cardinality(scored)
    BY <1>5 DEF FullScore
  <2>3. FullScore \in Nat
    BY DEF FullScore
  <2>4. RoundRatio(100 * Total(w, scored), Cardinality(scored)) \in 0..FullScore
    BY <1>5, <2>1, <2>2, <2>3, RoundBounded
  <2> QED
    BY <1>3, <1>7, <2>4
<1> QED
  BY <1>6, <1>7

\* What the three feeds give.
LEMMA FeedRange ==
    /\ BreachHistoryScore(External.reports) \in 0..FullScore
    /\ ThreatIntelScore(External.matches) \in 0..FullScore
    /\ External.posture \in 0..FullScore
<1>1. External.reports \in Nat /\ External.matches \in Nat /\ External.posture \in 0..FullScore
  BY FeedAssumption
<1>2. /\ FullScore - 1500 * External.reports \in Int
      /\ FullScore - 1500 * External.reports <= FullScore
      /\ FullScore - 1000 * External.matches \in Int
      /\ FullScore - 1000 * External.matches <= FullScore
  BY <1>1 DEF FullScore
<1> QED
  BY <1>1, <1>2, FloorRange DEF BreachHistoryScore, ThreatIntelScore

\* The six sub-scores and their weights.
LEMMA CategoriesAre ==
    /\ Categories = {"questionnaire", "posture", "vulnerability", "breach", "threat", "compliance"}
    /\ IsFiniteSet(Categories)
    /\ \A c \in Categories : Weights[c] \in Nat
<1>1. Categories = {"questionnaire", "posture", "vulnerability", "breach", "threat", "compliance"}
  BY DEF Categories, Weights
<1>2. \A c \in Categories : Weights[c] \in Nat
  BY <1>1 DEF Weights
<1>3. IsFiniteSet({"questionnaire", "posture", "vulnerability", "breach", "threat", "compliance"})
  <2>1. IsFiniteSet({})
    BY FS_EmptySet
  <2>2. IsFiniteSet({} \cup {"questionnaire"})
    BY <2>1, FS_AddElement
  <2>3. IsFiniteSet({} \cup {"questionnaire"} \cup {"posture"})
    BY <2>2, FS_AddElement
  <2>4. IsFiniteSet({} \cup {"questionnaire"} \cup {"posture"} \cup {"vulnerability"})
    BY <2>3, FS_AddElement
  <2>5. IsFiniteSet({} \cup {"questionnaire"} \cup {"posture"} \cup {"vulnerability"}
                       \cup {"breach"})
    BY <2>4, FS_AddElement
  <2>6. IsFiniteSet({"questionnaire", "posture", "vulnerability", "breach"} \cup {"threat"})
    <3>1. {} \cup {"questionnaire"} \cup {"posture"} \cup {"vulnerability"} \cup {"breach"} =
            {"questionnaire", "posture", "vulnerability", "breach"}
      OBVIOUS
    <3>2. IsFiniteSet({"questionnaire", "posture", "vulnerability", "breach"})
      BY <2>5, <3>1
    <3> QED
      BY <3>2, FS_AddElement
  <2>7. IsFiniteSet({"questionnaire", "posture", "vulnerability", "breach"} \cup {"threat"}
                       \cup {"compliance"})
    BY <2>6, FS_AddElement
  <2>8. {"questionnaire", "posture", "vulnerability", "breach"} \cup {"threat"}
            \cup {"compliance"} =
          {"questionnaire", "posture", "vulnerability", "breach", "threat", "compliance"}
    OBVIOUS
  <2> QED
    BY <2>7, <2>8
<1> QED
  BY <1>1, <1>2, <1>3

\* The sub-scores compute_vrs is given.
SubScores == [Categories -> 0..FullScore]

\* The weighted sum of sub-scores is at most that of perfect ones.
LEMMA GoodnessIsNatural ==
    ASSUME NEW s \in SubScores
    PROVE  /\ WeightedGoodness(s) \in Nat
           /\ WeightedGoodness(s) = Total([c \in Categories |-> Weights[c] * s[c]], Categories)
           /\ NaturalOn([c \in Categories |-> Weights[c] * s[c]], Categories)
<1>1. PICK w : w = [c \in Categories |-> Weights[c] * s[c]]
  OBVIOUS
<1>2. DOMAIN w = Categories /\ NaturalOn(w, Categories)
  <2>1. \A c \in Categories : s[c] \in Nat /\ Weights[c] \in Nat
    BY CategoriesAre DEF SubScores
  <2>2. \A c \in Categories : Weights[c] * s[c] \in Nat
    BY <2>1
  <2> QED
    BY <1>1, <2>2 DEF NaturalOn
<1>3. WeightedGoodness(s) = Total(w, Categories)
  BY <1>1, <1>2, SumOfValues DEF WeightedGoodness
<1>4. Total(w, Categories) \in Nat
  BY <1>2, CategoriesAre, SumRemove
<1> QED
  BY <1>1, <1>2, <1>3, <1>4

\* compute_vrs in terms of that sum.
LEMMA VrsOfGoodness ==
    ASSUME NEW g \in Nat
    PROVE  /\ Floor(100 * FullScore - g) \in Nat
           /\ Floor(100 * FullScore - g) <= FullScore * 100
BY DEF Floor, FullScore

\* compute_vrs: the risk stays in the range of its column.
THEOREM VrsRange == \A s \in SubScores : ComputeVrs(s) \in 0..FullScore
<1> TAKE s \in SubScores
<1>1. PICK a \in Nat : a = Floor(100 * FullScore - WeightedGoodness(s)) /\ a <= FullScore * 100
  BY GoodnessIsNatural, VrsOfGoodness
<1>2. ComputeVrs(s) = RoundRatio(a, 100)
  BY <1>1 DEF ComputeVrs
<1>3. FullScore \in Nat
  BY DEF FullScore
<1> QED
  BY <1>1, <1>2, <1>3, RoundBounded

\* compute_vrs: better sub-scores never raise the risk.
THEOREM VrsMonotone ==
    \A s, better \in SubScores :
        (\A c \in Categories : s[c] <= better[c]) => ComputeVrs(better) <= ComputeVrs(s)
<1> TAKE s, better \in SubScores
<1> SUFFICES ASSUME \A c \in Categories : s[c] <= better[c]
             PROVE  ComputeVrs(better) <= ComputeVrs(s)
  OBVIOUS
<1>1. PICK w : w = [c \in Categories |-> Weights[c] * s[c]]
  OBVIOUS
<1>2. PICK u : u = [c \in Categories |-> Weights[c] * better[c]]
  OBVIOUS
<1>3. /\ NaturalOn(w, Categories) /\ NaturalOn(u, Categories)
      /\ WeightedGoodness(s) = Total(w, Categories) /\ WeightedGoodness(s) \in Nat
      /\ WeightedGoodness(better) = Total(u, Categories) /\ WeightedGoodness(better) \in Nat
  BY <1>1, <1>2, GoodnessIsNatural
<1>4. \A c \in Categories : w[c] <= u[c]
  <2> TAKE c \in Categories
  <2>1. s[c] \in Nat /\ better[c] \in Nat /\ Weights[c] \in Nat /\ s[c] <= better[c]
    BY CategoriesAre DEF SubScores
  <2>2. Weights[c] * s[c] <= Weights[c] * better[c]
    BY <2>1
  <2> QED
    BY <1>1, <1>2, <2>2
<1>5. WeightedGoodness(s) <= WeightedGoodness(better)
  BY <1>3, <1>4, CategoriesAre, SumMonotone
<1>6. /\ Floor(100 * FullScore - WeightedGoodness(s)) \in Nat
      /\ Floor(100 * FullScore - WeightedGoodness(better)) \in Nat
      /\ Floor(100 * FullScore - WeightedGoodness(better)) <=
           Floor(100 * FullScore - WeightedGoodness(s))
  BY <1>3, <1>5 DEF Floor, FullScore
<1> QED
  BY <1>6, RoundMonotone DEF ComputeVrs

\* tier_for_vrs: one band fits every score, and a higher score is never in a lower tier.
LEMMA TierOf ==
    ASSUME NEW vrs \in Nat
    PROVE  TierForVrs(vrs) = IF vrs >= 7500 THEN "Critical" ELSE IF vrs >= 5500 THEN "High"
                             ELSE IF vrs >= 3500 THEN "Medium" ELSE "Low"
<1>1. Tiers = {"Low", "Medium", "High", "Critical"}
  BY DEF Tiers, TierRanks
<1> DEFINE Fits(tier) == \E band \in TierBands :
            /\ band[2] = tier /\ vrs >= band[1]
            /\ \A b \in TierBands : vrs >= b[1] => band[1] >= b[1]
<1>2. \A tier : Fits(tier) <=>
         \/ tier = "Critical" /\ vrs >= 7500
         \/ tier = "High" /\ vrs >= 5500 /\ ~(vrs >= 7500)
         \/ tier = "Medium" /\ vrs >= 3500 /\ ~(vrs >= 5500)
         \/ tier = "Low" /\ ~(vrs >= 3500)
  BY DEF TierBands
<1>3. TierForVrs(vrs) = CHOOSE tier \in Tiers : Fits(tier)
  BY DEF TierForVrs
<1> HIDE DEF Fits
<1> QED
  BY <1>1, <1>2, <1>3

\* tier_for_vrs: a higher risk is never in a lower tier.
THEOREM TierMonotone ==
    \A vrs, higher \in Nat :
        vrs <= higher => /\ TierForVrs(vrs) \in Tiers
                         /\ TierRanks[TierForVrs(vrs)] <= TierRanks[TierForVrs(higher)]
BY TierOf DEF Tiers, TierRanks

\* A control has one status: the counts of an assessment fit in its scope.
LEMMA CountsFit ==
    ASSUME NEW results, IsFiniteSet(DOMAIN results)
    PROVE  /\ Summarise(results).total = Cardinality(DOMAIN results)
           /\ Summarise(results).compliant + Summarise(results).partial
                + Summarise(results).gap <= Summarise(results).total
<1> DEFINE M == With(results, "met")
           P == With(results, "partial")
           G == With(results, "gap")
           D == DOMAIN results
<1>1. /\ M \subseteq D /\ P \subseteq D /\ G \subseteq D
      /\ M \cap P = {} /\ (M \cup P) \cap G = {} /\ (M \cup P) \cup G \subseteq D
  BY DEF With
<1>2. /\ Summarise(results).total = Cardinality(D)
      /\ Summarise(results).compliant = Cardinality(M)
      /\ Summarise(results).partial = Cardinality(P) /\ Summarise(results).gap = Cardinality(G)
  BY DEF Summarise
<1>3. IsFiniteSet(D)
  OBVIOUS
<1> HIDE DEF M, P, G, D
<1>4. /\ IsFiniteSet(M) /\ IsFiniteSet(P) /\ IsFiniteSet(G) /\ IsFiniteSet(M \cup P)
      /\ IsFiniteSet((M \cup P) \cup G)
  BY <1>1, <1>3, FS_Subset, FS_Union
<1>5. /\ Cardinality(M) \in Nat /\ Cardinality(P) \in Nat /\ Cardinality(G) \in Nat
      /\ Cardinality(D) \in Nat
  BY <1>3, <1>4, FS_CardinalityType
<1>6. Cardinality(M \cup P) = Cardinality(M) + Cardinality(P)
  <2>1. Cardinality(M \cap P) = 0
    BY <1>1, FS_EmptySet
  <2>2. Cardinality(M \cup P) = Cardinality(M) + Cardinality(P) - Cardinality(M \cap P)
    BY <1>4, FS_Union
  <2> QED
    BY <1>5, <2>1, <2>2
<1>7. Cardinality((M \cup P) \cup G) = Cardinality(M) + Cardinality(P) + Cardinality(G)
  <2>1. Cardinality((M \cup P) \cap G) = 0
    BY <1>1, FS_EmptySet
  <2>2. Cardinality((M \cup P) \cup G) =
          Cardinality(M \cup P) + Cardinality(G) - Cardinality((M \cup P) \cap G)
    BY <1>4, FS_Union
  <2> QED
    BY <1>5, <1>6, <2>1, <2>2
<1>8. Cardinality((M \cup P) \cup G) <= Cardinality(D)
  BY <1>1, <1>3, FS_Subset
<1>9. Cardinality(M) + Cardinality(P) + Cardinality(G) <= Cardinality(D)
  BY <1>7, <1>8
<1> QED
  BY <1>2, <1>9 DEF D

\* A set of numbers with a bound has a greatest one.
LEMMA MaxBounded ==
    ASSUME NEW n \in Nat, NEW S \in SUBSET (1..n), S # {}
    PROVE  Max(S) \in S /\ \A y \in S : y <= Max(S)
<1> DEFINE T == {n - x : x \in S}
<1>1. T \subseteq Nat /\ T # {}
  <2>1. \A x \in S : n - x \in Nat
    OBVIOUS
  <2>2. \E x \in S : n - x \in T
    OBVIOUS
  <2> QED
    BY <2>1, <2>2
<1>2. \E t \in T : \A u \in T : ~(<<u, t>> \in OpToRel(<, Nat))
  <2> HIDE DEF T
  <2> QED
    BY <1>1, NatLessThanWellFounded, WFMin
<1>3. PICK x \in S : \A u \in T : ~(<<u, n - x>> \in OpToRel(<, Nat))
  BY <1>2
<1>4. \A y \in S : x >= y
  <2> TAKE y \in S
  <2>1. n - y \in T /\ n - y \in Nat /\ n - x \in Nat
    OBVIOUS
  <2>2. ~(n - y < n - x)
    BY <1>3, <2>1 DEF OpToRel
  <2> QED
    BY <2>2
<1>5. Max(S) \in S /\ \A y \in S : Max(S) >= y
  BY <1>4 DEF Max
<1> QED
  BY <1>5

------------------------------------------------------------------------------
(* One request of vendor-service, step by step.                             *)

\* The columns of a vendor, a request's session and a questionnaire.
IsRow(x) == x = [dims |-> x.dims, tier |-> x.tier, state |-> x.state]
IsSession(s) ==
    /\ s = [op |-> s.op, vendor |-> s.vendor, read |-> s.read, row |-> s.row,
            q |-> s.q, qread |-> s.qread, qrow |-> s.qrow]
    /\ IsRow(s.read) /\ IsRow(s.row)
IsSheet(x) ==
    /\ x = [vendor |-> x.vendor, tier |-> x.tier, status |-> x.status,
            responses |-> x.responses]
    /\ IsFiniteSet(DOMAIN x.responses)
    /\ \A q \in DOMAIN x.responses : x.responses[q] \in Answer

\* vendor-service's tables and sessions have the shape of their columns.
Shapes ==
    /\ seqs = [vendor |-> seqs.vendor, q |-> seqs.q, document |-> seqs.document]
    /\ seqs.vendor \in Nat /\ seqs.q \in Nat
    /\ \A v \in DOMAIN vendors : IsRow(vendors[v])
    /\ \A q \in DOMAIN questionnaires : q \in 1..seqs.q /\ IsSheet(questionnaires[q])
    /\ Handlers \subseteq DOMAIN pc /\ DOMAIN sess = Handlers
    /\ \A h \in Handlers : IsSession(sess[h])

\* One request moves on.
Turns(h, p, s) ==
    /\ pc'[h] = p /\ sess'[h] = s
    /\ DOMAIN pc' = DOMAIN pc /\ DOMAIN sess' = DOMAIN sess
    /\ \A g \in Handlers \ {h} : pc'[g] = pc[g] /\ sess'[g] = sess[g]

\* Moving a request, and ending it.
LEMMA MoveTurns ==
    ASSUME Shapes, NEW h \in Handlers, NEW p, NEW s, Vendor!Move(h, p, s)
    PROVE  Turns(h, p, s)
BY DEF Shapes, Vendor!Move, Turns

LEMMA NoSessionIs == IsSession(Vendor!NoSession) /\ Vendor!NoSession.op = "none"
BY DEF IsSession, IsRow, Vendor!NoSession, Vendor!NoRow

LEMMA FinishTurns ==
    ASSUME Shapes, NEW h \in Handlers, Vendor!Finish(h)
    PROVE  \E s : Turns(h, "idle", s) /\ IsSession(s) /\ s.op = "none"
BY MoveTurns, NoSessionIs DEF Vendor!Finish

\* What a request starts with.
Creates(s) ==
    /\ s.op = "create" /\ s.vendor = seqs.vendor + 1 /\ s.row.state = "INITIATED"
    /\ seqs' = [seqs EXCEPT !.vendor = @ + 1]
Loads(s) ==
    /\ s.op # "create" /\ s.vendor \in DOMAIN vendors /\ s.read = vendors[s.vendor]
Changes(p, s) ==
    \/ p = "commit" /\ s.op = "update" /\ s.row.state = s.read.state /\ seqs' = seqs
    \/ /\ p = "commit" /\ s.op = "transition" /\ seqs' = seqs
       /\ Vendor!ValidTransition(s.read.state, s.row.state)
    \/ /\ p = "commit" /\ s.op = "generate" /\ s.row.state = "QUESTIONNAIRE_SENT"
       /\ Vendor!ValidTransition(s.read.state, s.row.state)
       /\ s.q = seqs.q + 1 /\ seqs' = [seqs EXCEPT !.q = @ + 1]
    \/ p = "latest" /\ s.op = "answer" /\ s.row = s.read /\ seqs' = seqs
    \/ /\ p = "store" /\ s.op = "upload" /\ s.row = s.read
       /\ seqs' = [seqs EXCEPT !.document = @ + 1]

\* A request begins with the vendor it has read.
LEMMA RequestLoads ==
    ASSUME Shapes, NEW h \in Handlers, NEW op, NEW v \in DOMAIN vendors, NEW row, IsRow(row),
           NEW p, NEW q, Vendor!Request(h, op, v, row, p, q)
    PROVE  \E s : /\ Turns(h, p, s) /\ IsSession(s)
                  /\ s.op = op /\ s.vendor = v /\ s.read = vendors[v] /\ s.row = row /\ s.q = q
                  /\ UNCHANGED <<vendors, questionnaires, documents, topic, failures>>
<1>1. PICK s : s = [Vendor!NoSession EXCEPT !.op = op, !.vendor = v, !.read = vendors[v],
                                            !.row = row, !.q = q]
  OBVIOUS
<1>2. /\ Vendor!Move(h, p, s)
      /\ UNCHANGED <<vendors, questionnaires, documents, topic, failures>>
  BY <1>1 DEF Vendor!Request, Vendor!Begin
<1>3. s = [op |-> op, vendor |-> v, read |-> vendors[v], row |-> row, q |-> q,
           qread |-> <<>>, qrow |-> <<>>]
  BY <1>1 DEF Vendor!NoSession
<1>4. IsRow(vendors[v])
  BY DEF Shapes
<1>5. IsSession(s) /\ s.op = op /\ s.vendor = v /\ s.read = vendors[v] /\ s.row = row /\ s.q = q
  BY <1>3, <1>4 DEF IsSession
<1> QED
  BY <1>2, <1>5, MoveTurns

\* Each of the routes does one of these.
LEMMA Starts ==
    ASSUME Shapes, NEW h \in Handlers, Vendor!Start(h) \/ Vendor!UpdateVendor(h)
    PROVE  \E p, s : /\ Turns(h, p, s) /\ IsSession(s)
                     /\ \/ p = "commit" /\ Creates(s)
                        \/ Loads(s) /\ Changes(p, s)
                     /\ UNCHANGED <<vendors, questionnaires, documents, topic, failures>>
<1> DEFINE Rest == UNCHANGED <<vendors, questionnaires, documents, topic, failures>>
           Loaded(s, op, v, row, q) ==
                /\ s.op = op /\ s.vendor = v /\ s.read = vendors[v] /\ s.row = row /\ s.q = q
<1>1. CASE Vendor!CreateVendor(h)
  <2>1. PICK dims \in NewDims :
          /\ Vendor!Take("vendor", MaxVendors)
          /\ Vendor!Begin(h, "commit", [Vendor!NoSession EXCEPT
                  !.op = "create", !.vendor = seqs.vendor + 1, !.row = Vendor!NewVendor(dims)])
    BY <1>1 DEF Vendor!CreateVendor
  <2>2. PICK s : s = [Vendor!NoSession EXCEPT
                  !.op = "create", !.vendor = seqs.vendor + 1, !.row = Vendor!NewVendor(dims)]
    OBVIOUS
  <2>3. Vendor!Move(h, "commit", s) /\ Rest
    BY <2>1, <2>2 DEF Vendor!Begin
  <2>4. IsRow(Vendor!NewVendor(dims)) /\ Vendor!NewVendor(dims).state = "INITIATED"
    BY DEF IsRow, Vendor!NewVendor
  <2>5. IsSession(s) /\ s.op = "create" /\ s.vendor = seqs.vendor + 1 /\ s.row.state = "INITIATED"
    BY <2>2, <2>4 DEF IsSession, IsRow, Vendor!NoSession, Vendor!NoRow
  <2>6. seqs' = [seqs EXCEPT !.vendor = @ + 1]
    BY <2>1 DEF Vendor!Take
  <2> QED
    BY <2>3, <2>5, <2>6, MoveTurns DEF Creates
<1>r. \A v \in DOMAIN vendors : IsRow(vendors[v])
  BY DEF Shapes
<1>2. CASE Vendor!UpdateVendor(h)
  <2>1. PICK v, d, t :
          /\ v \in DOMAIN vendors
          /\ Vendor!Request(h, "update", v, [vendors[v] EXCEPT !.dims = d, !.tier = t], "commit", 0)
          /\ UNCHANGED seqs
    BY <1>2 DEF Vendor!UpdateVendor
  <2>2. PICK row : row = [vendors[v] EXCEPT !.dims = d, !.tier = t]
    OBVIOUS
  <2>3. IsRow(row) /\ row.state = vendors[v].state
    <3>1. PICK x : x = vendors[v] /\ IsRow(x)
      BY <1>r, <2>1
    <3>2. row = [x EXCEPT !.dims = d, !.tier = t]
      BY <2>2, <3>1
    <3>3. row = [dims |-> d, tier |-> t, state |-> x.state]
      BY <3>1, <3>2 DEF IsRow
    <3> QED
      BY <3>1, <3>3 DEF IsRow
  <2>4. PICK s : Turns(h, "commit", s) /\ IsSession(s) /\ Loaded(s, "update", v, row, 0) /\ Rest
    BY <2>1, <2>2, <2>3, RequestLoads
  <2>5. Loads(s)
    BY <2>1, <2>4 DEF Loads
  <2>6. Changes("commit", s)
    BY <2>1, <2>2, <2>3, <2>4 DEF Changes
  <2> QED
    BY <2>4, <2>5, <2>6
<1>3. CASE Vendor!TransitionVendor(h)
  <2>1. PICK v, target :
          /\ v \in DOMAIN vendors
          /\ Vendor!ValidTransition(vendors[v].state, target)
          /\ Vendor!Request(h, "transition", v, [vendors[v] EXCEPT !.state = target], "commit", 0)
          /\ UNCHANGED seqs
    BY <1>3 DEF Vendor!TransitionVendor
  <2>2. PICK row : row = [vendors[v] EXCEPT !.state = target]
    OBVIOUS
  <2>3. IsRow(row) /\ row.state = target
    BY <1>r, <2>1, <2>2 DEF IsRow
  <2>4. PICK s : Turns(h, "commit", s) /\ IsSession(s) /\ Loaded(s, "transition", v, row, 0) /\ Rest
    BY <2>1, <2>2, <2>3, RequestLoads
  <2>5. Loads(s)
    BY <2>1, <2>4 DEF Loads
  <2>6. Changes("commit", s)
    BY <2>1, <2>2, <2>3, <2>4 DEF Changes
  <2> QED
    BY <2>4, <2>5, <2>6
<1>4. CASE Vendor!GenerateQuestionnaire(h)
  <2>1. PICK v :
          /\ v \in DOMAIN vendors
          /\ Vendor!ValidTransition(vendors[v].state, "QUESTIONNAIRE_SENT")
          /\ Vendor!Request(h, "generate", v,
                            [vendors[v] EXCEPT !.state = "QUESTIONNAIRE_SENT"],
                            "commit", seqs.q + 1)
          /\ seqs' = [seqs EXCEPT !.q = @ + 1]
    BY <1>4 DEF Vendor!GenerateQuestionnaire, Vendor!Take
  <2>2. PICK row : row = [vendors[v] EXCEPT !.state = "QUESTIONNAIRE_SENT"]
    OBVIOUS
  <2>3. IsRow(row) /\ row.state = "QUESTIONNAIRE_SENT"
    BY <1>r, <2>1, <2>2 DEF IsRow
  <2>4. PICK s : /\ Turns(h, "commit", s) /\ IsSession(s)
                 /\ Loaded(s, "generate", v, row, seqs.q + 1) /\ Rest
    BY <2>1, <2>2, <2>3, RequestLoads
  <2>5. Loads(s)
    BY <2>1, <2>4 DEF Loads
  <2>6. Changes("commit", s)
    BY <2>1, <2>2, <2>3, <2>4 DEF Changes
  <2> QED
    BY <2>4, <2>5, <2>6
<1>5. CASE Vendor!UpdateResponses(h)
  <2>1. PICK v :
          /\ v \in DOMAIN vendors
          /\ Vendor!Request(h, "answer", v, vendors[v], "latest", 0)
          /\ UNCHANGED seqs
    BY <1>5 DEF Vendor!UpdateResponses
  <2>2. PICK row : row = vendors[v]
    OBVIOUS
  <2>3. IsRow(row)
    BY <1>r, <2>1, <2>2 DEF IsRow
  <2>4. PICK s : Turns(h, "latest", s) /\ IsSession(s) /\ Loaded(s, "answer", v, row, 0) /\ Rest
    BY <2>1, <2>2, <2>3, RequestLoads
  <2>5. Loads(s)
    BY <2>1, <2>4 DEF Loads
  <2>6. Changes("latest", s)
    BY <2>1, <2>2, <2>3, <2>4 DEF Changes
  <2> QED
    BY <2>4, <2>5, <2>6
<1>6. CASE Vendor!UploadDocument(h)
  <2>1. PICK v :
          /\ v \in DOMAIN vendors
          /\ Vendor!Request(h, "upload", v, vendors[v], "store", seqs.document + 1)
          /\ seqs' = [seqs EXCEPT !.document = @ + 1]
    BY <1>6 DEF Vendor!UploadDocument, Vendor!Take
  <2>2. PICK row : row = vendors[v]
    OBVIOUS
  <2>3. IsRow(row)
    BY <1>r, <2>1, <2>2 DEF IsRow
  <2>4. PICK s : /\ Turns(h, "store", s) /\ IsSession(s)
                 /\ Loaded(s, "upload", v, row, seqs.document + 1) /\ Rest
    BY <2>1, <2>2, <2>3, RequestLoads
  <2>5. Loads(s)
    BY <2>1, <2>4 DEF Loads
  <2>6. Changes("store", s)
    BY <2>1, <2>2, <2>3, <2>4 DEF Changes
  <2> QED
    BY <2>4, <2>5, <2>6
<1> QED
  BY <1>1, <1>2, <1>3, <1>4, <1>5, <1>6 DEF Vendor!Start

\* A vendor with questionnaires has a latest one.
LEMMA NewestIs ==
    ASSUME Shapes, NEW v, Vendor!OfVendor(v) # {}
    PROVE  Max(Vendor!OfVendor(v)) \in Vendor!OfVendor(v)
<1>1. Vendor!OfVendor(v) \subseteq 1..seqs.q /\ seqs.q \in Nat
  BY DEF Shapes, Vendor!OfVendor
<1> QED
  BY <1>1, MaxBounded

\* What reading changes: nothing of the tables, and nothing of what was read.
Still == UNCHANGED <<vendors, questionnaires, documents, seqs, topic, failures>>
Same(s, r) == s.op = r.op /\ s.vendor = r.vendor /\ s.read = r.read

\* update_responses looks up the latest questionnaire, and refuses a completed one.
LEMMA LatestIsRead ==
    ASSUME Shapes, NEW h \in Handlers, Vendor!ReadLatest(h)
    PROVE  /\ pc[h] = "latest" /\ Still
           /\ \E p, s : /\ Turns(h, p, s) /\ IsSession(s)
                        /\ \/ p = "idle" /\ s.op = "none"
                           \/ /\ p = "responses" /\ Same(s, sess[h]) /\ s.row = sess[h].row
                              /\ s.q \in Vendor!OfVendor(s.vendor)
                              /\ s.q = Max(Vendor!OfVendor(s.vendor))
                              /\ s.qread = questionnaires[s.q] /\ s.qread.status # "COMPLETED"
<1>1. pc[h] = "latest" /\ Still
  BY DEF Vendor!ReadLatest, Vendor!dbVars, Vendor!boundVars, Still
<1>2. PICK mine : mine = Vendor!OfVendor(sess[h].vendor)
  OBVIOUS
<1>3. PICK q : q = Max(mine)
  OBVIOUS
<1>4. \/ Vendor!Finish(h)
      \/ /\ mine # {} /\ questionnaires[q].status # "COMPLETED"
         /\ Vendor!Move(h, "responses", [sess[h] EXCEPT !.q = q, !.qread = questionnaires[q]])
  BY <1>2, <1>3 DEF Vendor!ReadLatest, Max, Vendor!Max
<1>5. CASE Vendor!Finish(h)
  BY <1>1, <1>5, FinishTurns
<1>6. CASE /\ mine # {} /\ questionnaires[q].status # "COMPLETED"
           /\ Vendor!Move(h, "responses", [sess[h] EXCEPT !.q = q, !.qread = questionnaires[q]])
  <2>1. PICK s : s = [sess[h] EXCEPT !.q = q, !.qread = questionnaires[q]]
    OBVIOUS
  <2>2. Turns(h, "responses", s)
    BY <1>6, <2>1, MoveTurns
  <2>3. IsSession(sess[h])
    BY DEF Shapes
  <2>4. /\ IsSession(s) /\ Same(s, sess[h]) /\ s.row = sess[h].row
        /\ s.q = q /\ s.qread = questionnaires[q]
    <3>1. PICK x : x = sess[h] /\ IsSession(x)
      BY <2>3
    <3>2. s = [op |-> x.op, vendor |-> x.vendor, read |-> x.read, row |-> x.row,
               q |-> q, qread |-> questionnaires[q], qrow |-> x.qrow]
      BY <2>1, <3>1 DEF IsSession
    <3> QED
      BY <3>1, <3>2 DEF IsSession, Same
  <2>5. q \in Vendor!OfVendor(s.vendor) /\ q = Max(Vendor!OfVendor(s.vendor))
    BY <1>2, <1>3, <1>6, <2>4, NewestIs DEF Same
  <2> QED
    BY <1>1, <1>6, <2>2, <2>4, <2>5
<1> QED
  BY <1>4, <1>5, <1>6

\* The sheet a request is about to store.
Filled(s) ==
    /\ s.q \in DOMAIN questionnaires /\ IsSheet(s.qrow)
    /\ DOMAIN s.qrow.responses = DOMAIN questionnaires[s.q].responses

\* Each answer has one of the scores of its column.
LEMMA ScoresAre ==
    ASSUME NEW answer \in AnswersGiven
    PROVE  [answer |-> answer, score |-> Vendor!ScoreForAnswer(answer)] \in Answer
BY VendorAssumption DEF Answer, Answers, Unanswered, NoScore, Vendor!ScoreForAnswer,
   Vendor!Unanswered, Vendor!NoScore

\* update_responses answers some questions, and may complete the questionnaire.
LEMMA ResponsesAreRead ==
    ASSUME Shapes, NEW h \in Handlers, Vendor!ReadResponses(h),
           sess[h].q \in DOMAIN questionnaires, IsSheet(sess[h].qread)
    PROVE  /\ pc[h] = "responses" /\ Still
           /\ \E p, s : /\ Turns(h, p, s) /\ IsSession(s)
                        /\ \/ p = "idle" /\ s.op = "none"
                           \/ /\ p = "commit" /\ Same(s, sess[h]) /\ s.q = sess[h].q /\ Filled(s)
                              /\ s.qread.status = sess[h].qread.status
                              /\ s.qread.vendor = sess[h].qread.vendor
                              /\ s.qrow.vendor = sess[h].qread.vendor
                              /\ \/ /\ s.qrow.status = "IN_PROGRESS"
                                    /\ s.row.state = sess[h].row.state
                                 \/ /\ s.qrow.status = "COMPLETED"
                                    /\ s.row.state = "QUESTIONNAIRE_COMPLETED"
                                    /\ Vendor!ValidTransition(s.read.state, s.row.state)
<1>1. pc[h] = "responses" /\ Still
  BY DEF Vendor!ReadResponses, Vendor!dbVars, Vendor!boundVars, Still
<1>2. PICK x : x = sess[h] /\ IsSession(x) /\ IsSheet(x.qread) /\ x.q \in DOMAIN questionnaires
  BY DEF Shapes
<1>3. PICK old : old = questionnaires[x.q].responses
  OBVIOUS
<1>4. IsFiniteSet(DOMAIN old) /\ \A q \in DOMAIN old : old[q] \in Answer
  BY <1>2, <1>3 DEF Shapes, IsSheet
<1>5. PICK read : read = [x.qread EXCEPT !.responses = old]
  OBVIOUS
<1>6. PICK u : u = x.qread /\ IsSheet(u)
  BY <1>2
<1>7. read = [vendor |-> u.vendor, tier |-> u.tier, status |-> u.status, responses |-> old]
  BY <1>5, <1>6 DEF IsSheet
<1> DEFINE next(responses, full) ==
              [x EXCEPT !.qread = read,
                        !.qrow = [read EXCEPT !.responses = responses,
                                    !.status = IF full THEN "COMPLETED" ELSE "IN_PROGRESS"],
                        !.row.state = IF full THEN "QUESTIONNAIRE_COMPLETED" ELSE @]
<1>8. PICK codes, answer, responses, full :
        /\ answer \in AnswersGiven /\ full \in BOOLEAN
        /\ responses = Vendor!Answered(old, codes, answer)
        /\ IF full /\ ~Vendor!MayComplete(x.read.state)
           THEN Vendor!Finish(h) ELSE Vendor!Move(h, "commit", next(responses, full))
  <2>1. PICK codes \in SUBSET DOMAIN sess[h].qread.responses, answer \in AnswersGiven :
          LET rd == [sess[h].qread EXCEPT !.responses = questionnaires[sess[h].q].responses]
              responses == Vendor!Answered(rd.responses, codes, answer)
              full == Vendor!FullyAnswered(responses, codes)
          IN  IF full /\ ~Vendor!MayComplete(sess[h].read.state)
              THEN Vendor!Finish(h)
              ELSE Vendor!Move(h, "commit",
                      [sess[h] EXCEPT
                         !.qread = rd,
                         !.qrow = [rd EXCEPT
                            !.responses = responses,
                            !.status = IF full THEN "COMPLETED" ELSE "IN_PROGRESS"],
                         !.row.state = IF full THEN "QUESTIONNAIRE_COMPLETED" ELSE @])
    BY DEF Vendor!ReadResponses
  <2>2. PICK responses : responses = Vendor!Answered(old, codes, answer)
    OBVIOUS
  <2>3. read.responses = old
    BY <1>7
  <2>4. read = [sess[h].qread EXCEPT !.responses = questionnaires[sess[h].q].responses]
    BY <1>2, <1>3, <1>5
  <2>5. PICK full \in BOOLEAN : full = Vendor!FullyAnswered(responses, codes)
    BY DEF Vendor!FullyAnswered
  <2>6. IF full /\ ~Vendor!MayComplete(x.read.state)
        THEN Vendor!Finish(h)
        ELSE Vendor!Move(h, "commit", next(responses, full))
    BY <1>2, <2>1, <2>2, <2>3, <2>4, <2>5
  <2> HIDE DEF next
  <2> QED
    BY <2>2, <2>6
<1>9. CASE Vendor!Finish(h)
  BY <1>1, <1>9, FinishTurns
<1>10. CASE ~Vendor!Finish(h)
  <2>1. PICK status, state :
          /\ status = (IF full THEN "COMPLETED" ELSE "IN_PROGRESS")
          /\ state = (IF full THEN "QUESTIONNAIRE_COMPLETED" ELSE x.row.state)
    OBVIOUS
  <2>2. PICK qrow : qrow = [read EXCEPT !.responses = responses,
                              !.status = IF full THEN "COMPLETED" ELSE "IN_PROGRESS"]
    OBVIOUS
  <2>a. qrow = [vendor |-> u.vendor, tier |-> u.tier, status |-> status,
                responses |-> responses]
    <3>1. qrow = [read EXCEPT !.responses = responses, !.status = status]
      BY <2>1, <2>2
    <3> QED
      BY <1>7, <3>1
  <2>b. PICK row : row = [x.row EXCEPT !.state = state]
    OBVIOUS
  <2>c. row = [dims |-> x.row.dims, tier |-> x.row.tier, state |-> state]
    BY <1>2, <2>b DEF IsSession, IsRow
  <2>d. PICK s : s = [x EXCEPT !.qread = read, !.qrow = qrow, !.row.state = state]
    OBVIOUS
  <2>3. s = [op |-> x.op, vendor |-> x.vendor, read |-> x.read, row |-> row,
             q |-> x.q, qread |-> read, qrow |-> qrow]
    BY <1>2, <2>b, <2>d DEF IsSession
  <2>4. s = next(responses, full)
    BY <2>1, <2>2, <2>d
  <2>5. Turns(h, "commit", s)
    BY <1>8, <1>10, <2>4, MoveTurns
  <2>6. IsSession(s) /\ Same(s, sess[h]) /\ s.q = sess[h].q
    BY <1>2, <2>c, <2>3 DEF IsSession, IsRow, Same
  <2>7. DOMAIN responses = DOMAIN old /\ \A q \in DOMAIN responses : responses[q] \in Answer
    BY <1>4, <1>8, ScoresAre DEF Vendor!Answered
  <2>8. IsSheet(qrow) /\ Filled(s)
    BY <1>2, <1>3, <1>4, <2>a, <2>3, <2>7 DEF IsSheet, Filled
  <2>9. /\ s.qread.status = sess[h].qread.status /\ s.qread.vendor = sess[h].qread.vendor
        /\ s.qrow.vendor = sess[h].qread.vendor
    BY <1>2, <1>6, <1>7, <2>a, <2>3
  <2>10. \/ s.qrow.status = "IN_PROGRESS" /\ s.row.state = sess[h].row.state
         \/ /\ s.qrow.status = "COMPLETED" /\ s.row.state = "QUESTIONNAIRE_COMPLETED"
            /\ Vendor!ValidTransition(s.read.state, s.row.state)
    BY <1>2, <1>8, <1>10, <2>1, <2>a, <2>c, <2>3 DEF Vendor!MayComplete
  <2> QED
    BY <1>1, <2>5, <2>6, <2>8, <2>9, <2>10
<1> QED
  BY <1>9, <1>10

------------------------------------------------------------------------------
(* What is invariant.                                                       *)

\* A questionnaire is generated under a number of its own, and what an answer stores
\* has the questions of its questionnaire.
Generating(h) == pc[h] = "commit" /\ sess[h].op = "generate"
HandlerTypes(h) ==
    /\ pc[h] \in {"latest", "responses"} => sess[h].op = "answer"
    /\ pc[h] = "store" => sess[h].op = "upload"
    /\ pc[h] = "responses" => sess[h].q \in DOMAIN questionnaires /\ IsSheet(sess[h].qread)
    /\ pc[h] = "commit" /\ sess[h].op = "answer" => Filled(sess[h])
    /\ Generating(h) => sess[h].q \in 1..seqs.q /\ sess[h].q \notin DOMAIN questionnaires
SheetInv ==
    /\ Shapes
    /\ IsFiniteSet(documents)
    /\ \A h \in Handlers : HandlerTypes(h)
    /\ \A g, h \in Handlers : g # h /\ Generating(g) /\ Generating(h) => sess[g].q # sess[h].q

Known == {"questionnaire", "posture", "breach", "threat", "vulnerability"}
ScoreTyped(r) == r.parts \in SubScores /\ r.vrs \in 0..FullScore /\ r.tier \in Tiers
AssessmentTyped(a) ==
    LET summary == a.outcome.summary IN
    /\ summary.compliant + summary.partial + summary.gap <= summary.total
    /\ summary.total = Cardinality(ResolveScope(Library, a.outcome.framework))
TaskTyped(r) ==
    /\ r.step \in Steps
    /\ r.step = "questionnaire" => r.parts = <<>>
    /\ r.step = "stack" => r.parts \in [{"questionnaire"} -> 0..FullScore]
    /\ r.step = "evidence" => r.parts \in [Known -> 0..FullScore]
    /\ r.step = "flush" => r.parts \in SubScores
    /\ r.step = "commitScore" => ScoreTyped(r.row)
    /\ r.step = "commitAssessment" => AssessmentTyped(r.row)
TypeInv ==
    /\ IsSeq(techStack) /\ \A i \in DOMAIN techStack : techStack[i].component \in Components
    /\ \A t \in Tasks : TaskTyped(task[t])
    /\ \A r \in scores : ScoreTyped(r)
    /\ \A a \in assessments : AssessmentTyped(a)

\* Every state a vendor is in has been announced, or is about to be.
Announces(h, v) ==
    /\ pc[h] \in {"refresh", "publish"}
    /\ sess[h].vendor = v /\ sess[h].row.state = vendors[v].state
Announced(v) == \E i \in DOMAIN topic : topic[i].vendor = v /\ topic[i].to = vendors[v].state
EventInv ==
    /\ failures \in Nat
    /\ failures = 0 =>
          \A v \in DOMAIN vendors : Announced(v) \/ \E h \in Handlers : Announces(h, v)

\* Requests one at a time.
Late == {"QUESTIONNAIRE_COMPLETED", "ASSESSMENT_IN_PROGRESS", "ONBOARDED", "REJECTED"}
Reading(h) == pc[h] \in {"latest", "responses", "store", "commit"} /\ sess[h].op # "create"
AtHand(s) ==
    /\ s.q \in Vendor!OfVendor(s.vendor) /\ s.q = Max(Vendor!OfVendor(s.vendor))
    /\ questionnaires[s.q].status # "COMPLETED"
    /\ s.qread.status = questionnaires[s.q].status /\ s.qread.vendor = questionnaires[s.q].vendor
HandlerSeq(h) ==
    LET s == sess[h] IN
    /\ pc[h] = "commit" /\ s.op = "create" =>
          s.vendor \in 1..seqs.vendor /\ s.vendor \notin DOMAIN vendors
    /\ Reading(h) =>
          /\ s.vendor \in DOMAIN vendors /\ s.read = vendors[s.vendor]
          /\ s.read.state \in Late => s.row.state \in Late
    /\ pc[h] \in {"latest", "responses"} => s.row.state = s.read.state
    /\ pc[h] = "responses" => AtHand(s)
    /\ pc[h] = "commit" /\ s.op = "answer" =>
          /\ AtHand(s) /\ s.qrow.vendor = s.qread.vendor
          /\ s.qrow.status = "COMPLETED" => s.read.state \notin Late
    /\ Generating(h) => s.read.state \notin Late
    /\ pc[h] \in {"refresh", "publish"} =>
          s.vendor \in DOMAIN vendors /\ vendors[s.vendor].state = s.row.state
SeqInv ==
    /\ DOMAIN vendors \subseteq 1..seqs.vendor
    /\ \A h \in Handlers : HandlerSeq(h)
    /\ \A i \in DOMAIN topic : topic[i].to \in Late =>
          topic[i].vendor \in DOMAIN vendors /\ vendors[topic[i].vendor].state \in Late
AloneInv == Overlapping \/ SeqInv

Requested(r) ==
    /\ r.trigger \in DOMAIN topic /\ Triggers("risk", r.trigger)
    /\ r.vendor = topic[r.trigger].vendor
Fresh(v, parts) == Completed(v) => parts["questionnaire"] = CurrentScore(v)
Undisturbed == faults = 0 /\ ~Overlapping
TaskFresh(t, r) ==
    /\ t \in Scorers => r.trigger = 0
    /\ t = "risk" /\ r.step # "idle" => Requested(r)
    /\ r.step = "commitScore" => r.row.vendor = r.vendor
    /\ Undisturbed /\ t = "risk" =>
          /\ r.step \in {"stack", "evidence", "flush"} => Fresh(r.vendor, r.parts)
          /\ r.step = "commitScore" => Fresh(r.vendor, r.row.parts)
RowFresh(r) ==
    /\ r.trigger = 0 \/ Requested(r)
    /\ Undisturbed => r.trigger = 0 \/ Fresh(r.vendor, r.parts)
FreshInv ==
    /\ \A t \in Tasks : TaskFresh(t, task[t])
    /\ \A r \in scores : RowFresh(r)

------------------------------------------------------------------------------
(* Merges: what an UPDATE leaves of the columns.                            *)

\* What an UPDATE leaves of a row.
Column(c, r, w) == IF w # r THEN w ELSE c

\* A merge keeps the columns of a vendor ...
LEMMA MergeRow ==
    ASSUME NEW c, IsRow(c), NEW r, NEW w
    PROVE  /\ IsRow(Vendor!MergeDims(c, r, w))
           /\ Vendor!MergeDims(c, r, w).state = Column(c.state, r.state, w.state)
<1>1. PICK m : m = [col \in DOMAIN c |-> IF w[col] # r[col] THEN w[col] ELSE c[col]]
  OBVIOUS
<1>2. DOMAIN c = {"dims", "tier", "state"}
  BY DEF IsRow
<1>3. m = [dims |-> m.dims, tier |-> m.tier, state |-> m.state]
  BY <1>1, <1>2
<1>4. m.state = Column(c.state, r.state, w.state)
  BY <1>1, <1>2 DEF Column
<1>5. PICK d : d = Vendor!Merge(c.dims, r.dims, w.dims)
  OBVIOUS
<1>6. Vendor!MergeDims(c, r, w) = [m EXCEPT !.dims = d]
  BY <1>1, <1>5 DEF Vendor!MergeDims, Vendor!Merge
<1>7. PICK x : x = [m EXCEPT !.dims = d]
  OBVIOUS
<1>8. IsRow(x) /\ x.state = m.state
  BY <1>3, <1>7 DEF IsRow
<1> QED
  BY <1>4, <1>6, <1>7, <1>8

\* ... of an answer ...
LEMMA MergeAnswer ==
    ASSUME NEW c \in Answer, NEW r, NEW w \in Answer
    PROVE  Vendor!Merge(c, r, w) \in Answer
<1>1. PICK m : m = [col \in DOMAIN c |-> IF w[col] # r[col] THEN w[col] ELSE c[col]]
  OBVIOUS
<1>2. DOMAIN c = {"answer", "score"}
  BY DEF Answer
<1>3. m = [answer |-> m["answer"], score |-> m["score"]]
  BY <1>1, <1>2
<1>4. m["answer"] \in {c["answer"], w["answer"]} /\ m["score"] \in {c["score"], w["score"]}
  BY <1>1, <1>2
<1>5. m \in Answer
  BY <1>3, <1>4 DEF Answer
<1> QED
  BY <1>1, <1>5 DEF Vendor!Merge

\* ... and of a questionnaire, which stays completed if it is.
LEMMA MergeSheet ==
    ASSUME NEW c, IsSheet(c), NEW r, NEW w, IsSheet(w),
           DOMAIN w.responses = DOMAIN c.responses
    PROVE  LET m == Vendor!MergeResponses(c, r, w) IN
           /\ IsSheet(m) /\ DOMAIN m.responses = DOMAIN c.responses
           /\ m.vendor = Column(c.vendor, r.vendor, w.vendor)
           /\ m.status = Column(c.status, r.status, w.status)
<1>1. PICK m : m = [col \in DOMAIN c |-> IF w[col] # r[col] THEN w[col] ELSE c[col]]
  OBVIOUS
<1>2. DOMAIN c = {"vendor", "tier", "status", "responses"}
  BY DEF IsSheet
<1>3. m = [vendor |-> m.vendor, tier |-> m.tier, status |-> m.status, responses |-> m.responses]
  BY <1>1, <1>2
<1>4. /\ m.vendor = Column(c.vendor, r.vendor, w.vendor)
      /\ m.status = Column(c.status, r.status, w.status)
      /\ DOMAIN m.responses = DOMAIN c.responses
  BY <1>1, <1>2 DEF Column
<1>5. PICK a : a = [q \in DOMAIN m.responses |->
                      Vendor!Merge(c.responses[q], r.responses[q], w.responses[q])]
  OBVIOUS
<1>6. DOMAIN a = DOMAIN c.responses /\ \A q \in DOMAIN a : a[q] \in Answer
  <2>1. ASSUME NEW q \in DOMAIN a
        PROVE  /\ a[q] = Vendor!Merge(c.responses[q], r.responses[q], w.responses[q])
               /\ c.responses[q] \in Answer /\ w.responses[q] \in Answer
    BY <1>4, <1>5, <2>1 DEF IsSheet
  <2> QED
    BY <1>4, <1>5, <2>1, MergeAnswer
<1>7. Vendor!MergeResponses(c, r, w) = [m EXCEPT !.responses = a]
  BY <1>1, <1>5 DEF Vendor!MergeResponses, Vendor!Merge
<1>8. PICK x : x = [m EXCEPT !.responses = a]
  OBVIOUS
<1>9. x = [vendor |-> m.vendor, tier |-> m.tier, status |-> m.status, responses |-> a]
  BY <1>3, <1>8
<1>10. IsSheet(x)
  BY <1>6, <1>9 DEF IsSheet
<1>11. x.vendor = m.vendor /\ x.status = m.status /\ x.responses = a
  BY <1>9
<1>12. Vendor!MergeResponses(c, r, w) = x
  BY <1>7, <1>8
<1> QED
  BY <1>4, <1>6, <1>10, <1>11, <1>12

\* A questionnaire has finitely many questions, none of them answered at first.
LEMMA QuestionsAreFinite ==
    ASSUME NEW tier
    PROVE  IsFiniteSet(Vendor!QuestionsForTier(NumDomains, tier))
<1>n. PICK n \in Int : n = NumDomains - 1
  BY VendorAssumption
<1>1. IsFiniteSet(0..n)
  BY FS_Interval
<1>m. PICK m \in Int : m = 3
  OBVIOUS
<1>a. IsFiniteSet(1..m)
  BY FS_Interval
<1>2. IsFiniteSet((0..n) \X (1..m))
  BY <1>1, <1>a, FS_Product
<1>3. Vendor!QuestionsForTier(NumDomains, tier) \subseteq ((0..n) \X (1..m))
  BY <1>n, <1>m DEF Vendor!QuestionsForTier, Vendor!AllQuestions
<1> QED
  BY <1>2, <1>3, FS_Subset

LEMMA NewSheet ==
    ASSUME NEW v, NEW tier
    PROVE  /\ IsSheet(Vendor!NewQuestionnaire(v, tier))
           /\ Vendor!NewQuestionnaire(v, tier).vendor = v
           /\ Vendor!NewQuestionnaire(v, tier).status = "SENT"
<1>1. PICK x, a :
        /\ a = [q \in Vendor!QuestionsForTier(NumDomains, tier) |-> Vendor!NoResponse]
        /\ x = [vendor |-> v, tier |-> tier, status |-> "SENT", responses |-> a]
  OBVIOUS
<1>2. Vendor!NoResponse \in Answer
  BY DEF Answer, Vendor!NoResponse, Unanswered, NoScore, Vendor!Unanswered, Vendor!NoScore
<1>3. IsFiniteSet(DOMAIN a) /\ \A q \in DOMAIN a : a[q] \in Answer
  BY <1>1, <1>2, QuestionsAreFinite
<1>4. IsSheet(x) /\ x.vendor = v /\ x.status = "SENT"
  BY <1>1, <1>3 DEF IsSheet
<1>5. Vendor!NewQuestionnaire(v, tier) = x
  BY <1>1 DEF Vendor!NewQuestionnaire
<1> QED
  BY <1>4, <1>5

\* What a commit leaves of the tables.
VendorStored(s) ==
    /\ \A v \in DOMAIN vendors' : IsRow(vendors'[v])
    /\ DOMAIN vendors' = DOMAIN vendors \cup (IF s.op = "create" THEN {s.vendor} ELSE {})
    /\ \A v \in DOMAIN vendors : v # s.vendor => vendors'[v] = vendors[v]
    /\ s.op = "create" => vendors'[s.vendor] = s.row
    /\ s.op # "create" /\ s.vendor \in DOMAIN vendors =>
          vendors'[s.vendor].state = Column(vendors[s.vendor].state, s.read.state, s.row.state)
SheetStored(s) ==
    /\ \A q \in DOMAIN questionnaires :
          q \in DOMAIN questionnaires'
          /\ (q # s.q => questionnaires'[q] = questionnaires[q])
    /\ s.op = "generate" =>
          /\ DOMAIN questionnaires' = DOMAIN questionnaires \cup {s.q}
          /\ IsSheet(questionnaires'[s.q])
          /\ questionnaires'[s.q].vendor = s.vendor /\ questionnaires'[s.q].status = "SENT"
    /\ s.op = "answer" =>
          /\ DOMAIN questionnaires' = DOMAIN questionnaires
          /\ IsSheet(questionnaires'[s.q])
          /\ DOMAIN questionnaires'[s.q].responses = DOMAIN questionnaires[s.q].responses
          /\ questionnaires'[s.q].vendor =
                Column(questionnaires[s.q].vendor, s.qread.vendor, s.qrow.vendor)
          /\ questionnaires'[s.q].status =
                Column(questionnaires[s.q].status, s.qread.status, s.qrow.status)
    /\ s.op \notin {"generate", "answer"} => questionnaires' = questionnaires

\* The two UPDATEs of a commit.
LEMMA VendorIsStored ==
    ASSUME Shapes, NEW s, IsSession(s),
           vendors' = IF s.op = "create" THEN Vendor!Put(vendors, s.vendor, s.row)
                      ELSE [vendors EXCEPT ![s.vendor] = Vendor!MergeDims(@, s.read, s.row)]
    PROVE  VendorStored(s)
<1>1. \A v \in DOMAIN vendors : IsRow(vendors[v])
  BY DEF Shapes
<1>2. CASE s.op = "create"
  <2>1. vendors' = [k \in DOMAIN vendors \cup {s.vendor} |->
                      IF k = s.vendor THEN s.row ELSE vendors[k]]
    BY <1>2 DEF Vendor!Put
  <2>2. /\ DOMAIN vendors' = DOMAIN vendors \cup {s.vendor}
        /\ vendors'[s.vendor] = s.row
        /\ \A v \in DOMAIN vendors : v # s.vendor => vendors'[v] = vendors[v]
    BY <2>1
  <2>3. \A v \in DOMAIN vendors' : IsRow(vendors'[v])
    <3>1. IsRow(s.row)
      BY DEF IsSession
    <3> QED
      BY <1>1, <2>2, <3>1
  <2> QED
    BY <1>2, <2>2, <2>3 DEF VendorStored
<1>3. CASE s.op # "create"
  <2>1. PICK m : m = Vendor!MergeDims(vendors[s.vendor], s.read, s.row)
    OBVIOUS
  <2>2. vendors' = [vendors EXCEPT ![s.vendor] = m]
    BY <1>3, <2>1
  <2>3. /\ DOMAIN vendors' = DOMAIN vendors
        /\ s.vendor \in DOMAIN vendors => vendors'[s.vendor] = m
        /\ \A v \in DOMAIN vendors : v # s.vendor => vendors'[v] = vendors[v]
    BY <2>2
  <2>4. s.vendor \in DOMAIN vendors =>
          /\ IsRow(m)
          /\ m.state = Column(vendors[s.vendor].state, s.read.state, s.row.state)
    BY <1>1, <2>1, MergeRow
  <2>5. \A v \in DOMAIN vendors' : IsRow(vendors'[v])
    BY <1>1, <2>3, <2>4
  <2> QED
    BY <1>3, <2>3, <2>4, <2>5 DEF VendorStored
<1> QED
  BY <1>2, <1>3

LEMMA SheetIsStored ==
    ASSUME Shapes, NEW s, IsSession(s), s.op = "answer" => Filled(s),
           questionnaires' =
             CASE s.op = "generate" ->
                    Vendor!Put(questionnaires, s.q, Vendor!NewQuestionnaire(s.vendor, s.read.tier))
               [] s.op = "answer" ->
                    [questionnaires EXCEPT ![s.q] = Vendor!MergeResponses(@, s.qread, s.qrow)]
               [] OTHER -> questionnaires
    PROVE  SheetStored(s)
<1>1. \A q \in DOMAIN questionnaires : IsSheet(questionnaires[q])
  BY DEF Shapes
<1>2. CASE s.op = "generate"
  <2>1. PICK n : /\ n = Vendor!NewQuestionnaire(s.vendor, s.read.tier)
                 /\ IsSheet(n) /\ n.vendor = s.vendor /\ n.status = "SENT"
    BY NewSheet
  <2>2. questionnaires' = [k \in DOMAIN questionnaires \cup {s.q} |->
                             IF k = s.q THEN n ELSE questionnaires[k]]
    BY <1>2, <2>1 DEF Vendor!Put
  <2>3. /\ DOMAIN questionnaires' = DOMAIN questionnaires \cup {s.q}
        /\ questionnaires'[s.q] = n
        /\ \A q \in DOMAIN questionnaires : q # s.q => questionnaires'[q] = questionnaires[q]
    BY <2>2
  <2> QED
    BY <1>2, <2>1, <2>3 DEF SheetStored
<1>3. CASE s.op = "answer"
  <2>1. PICK c, m : c = questionnaires[s.q] /\ m = Vendor!MergeResponses(c, s.qread, s.qrow)
    OBVIOUS
  <2>2. s.q \in DOMAIN questionnaires /\ IsSheet(c) /\ IsSheet(s.qrow)
        /\ DOMAIN s.qrow.responses = DOMAIN c.responses
    BY <1>1, <1>3, <2>1 DEF Filled
  <2>3. /\ IsSheet(m) /\ DOMAIN m.responses = DOMAIN c.responses
        /\ m.vendor = Column(c.vendor, s.qread.vendor, s.qrow.vendor)
        /\ m.status = Column(c.status, s.qread.status, s.qrow.status)
    BY <2>1, <2>2, MergeSheet
  <2>4. questionnaires' = [questionnaires EXCEPT ![s.q] = m]
    BY <1>3, <2>1
  <2>5. /\ DOMAIN questionnaires' = DOMAIN questionnaires
        /\ questionnaires'[s.q] = m
        /\ \A q \in DOMAIN questionnaires : q # s.q => questionnaires'[q] = questionnaires[q]
    BY <2>2, <2>4
  <2> QED
    BY <1>3, <2>1, <2>3, <2>5 DEF SheetStored
<1>4. CASE s.op \notin {"generate", "answer"}
  <2>1. questionnaires' = questionnaires
    BY <1>4
  <2> QED
    BY <1>4, <2>1 DEF SheetStored
<1> QED
  BY <1>2, <1>3, <1>4

\* A request that ends, or goes on with what it has.
Ends(p, s) == p = "idle" /\ IsSession(s) /\ s.op = "none"
MovedTo(s) == s.op = "create" \/ s.row.state # s.read.state

\* A commit stores what the request has, and goes on to the event if the vendor moved.
LEMMA CommitIs ==
    ASSUME Shapes, NEW h \in Handlers, Vendor!Commit(h),
           sess[h].op = "answer" => Filled(sess[h]), IsFiniteSet(documents)
    PROVE  /\ pc[h] = "commit" /\ UNCHANGED <<seqs, topic, failures>>
           /\ VendorStored(sess[h]) /\ SheetStored(sess[h]) /\ IsFiniteSet(documents')
           /\ \E p, s : /\ Turns(h, p, s) /\ IsSession(s)
                        /\ \/ ~MovedTo(sess[h]) /\ Ends(p, s)
                           \/ /\ MovedTo(sess[h])
                              /\ p \in {"refresh", "publish"} /\ s = sess[h]
<1>1. PICK s : s = sess[h] /\ IsSession(s)
  BY DEF Shapes
<1>2. VendorStored(s)
  BY <1>1, VendorIsStored DEF Vendor!Commit
<1>3. SheetStored(s)
  <2>1. questionnaires' =
             CASE s.op = "generate" ->
                    Vendor!Put(questionnaires, s.q, Vendor!NewQuestionnaire(s.vendor, s.read.tier))
               [] s.op = "answer" ->
                    [questionnaires EXCEPT ![s.q] = Vendor!MergeResponses(@, s.qread, s.qrow)]
               [] OTHER -> questionnaires
    BY <1>1 DEF Vendor!Commit
  <2> QED
    BY <1>1, <2>1, SheetIsStored
<1>4. IsFiniteSet(documents')
  <2>1. documents' = documents \/ \E d : documents' = documents \cup {d}
    BY DEF Vendor!Commit
  <2> QED
    BY <2>1, FS_AddElement
<1>5. pc[h] = "commit" /\ UNCHANGED <<seqs, topic, failures>>
  BY DEF Vendor!Commit, Vendor!boundVars
<1>6. \/ MovedTo(s) /\ \E p \in {"refresh", "publish"} : Vendor!Move(h, p, s)
      \/ ~MovedTo(s) /\ Vendor!Finish(h)
  BY <1>1 DEF Vendor!Commit, Vendor!Moved, MovedTo
<1>7. CASE ~MovedTo(s) /\ Vendor!Finish(h)
  BY <1>1, <1>2, <1>3, <1>4, <1>5, <1>7, FinishTurns DEF Ends
<1>8. CASE MovedTo(s) /\ \E p \in {"refresh", "publish"} : Vendor!Move(h, p, s)
  BY <1>1, <1>2, <1>3, <1>4, <1>5, <1>8, MoveTurns
<1> QED
  BY <1>6, <1>7, <1>8

\* The other steps of a request.
LEMMA StoreIs ==
    ASSUME Shapes, NEW h \in Handlers, Vendor!StoreFile(h)
    PROVE  /\ pc[h] = "store" /\ Still
           /\ Turns(h, "commit", sess[h]) /\ IsSession(sess[h])
BY MoveTurns DEF Vendor!StoreFile, Vendor!boundVars, Still, Shapes

LEMMA RefreshIs ==
    ASSUME Shapes, NEW h \in Handlers, Vendor!Refresh(h)
    PROVE  /\ pc[h] = "refresh" /\ Still
           /\ \E s : /\ Turns(h, "publish", s) /\ IsSession(s) /\ Same(s, sess[h])
                     /\ s.row.state = sess[h].row.state
<1>1. PICK x : x = sess[h] /\ IsSession(x)
  BY DEF Shapes
<1>2. PICK t : t = vendors[x.vendor].tier
  OBVIOUS
<1>3. PICK s : s = [x EXCEPT !.row.tier = t]
  OBVIOUS
<1>4. pc[h] = "refresh" /\ Still /\ Turns(h, "publish", s)
  BY <1>1, <1>2, <1>3, MoveTurns DEF Vendor!Refresh, Vendor!dbVars, Vendor!boundVars, Still
<1>5. PICK row : row = [x.row EXCEPT !.tier = t]
  OBVIOUS
<1>6. IsRow(row) /\ row.state = x.row.state
  BY <1>1, <1>5 DEF IsSession, IsRow
<1>7. s = [op |-> x.op, vendor |-> x.vendor, read |-> x.read, row |-> row,
           q |-> x.q, qread |-> x.qread, qrow |-> x.qrow]
  BY <1>1, <1>3, <1>5 DEF IsSession
<1>8. IsSession(s) /\ Same(s, sess[h]) /\ s.row.state = sess[h].row.state
  BY <1>1, <1>6, <1>7 DEF IsSession, Same
<1> QED
  BY <1>4, <1>8

LEMMA PublishIs ==
    ASSUME Shapes, NEW h \in Handlers, Vendor!Publish(h)
    PROVE  /\ pc[h] = "publish"
           /\ UNCHANGED <<vendors, questionnaires, documents, seqs, failures>>
           /\ \E e : /\ topic' = Append(topic, e)
                     /\ e.vendor = sess[h].vendor /\ e.to = sess[h].row.state
           /\ \E s : Turns(h, "idle", s) /\ Ends("idle", s)
<1>1. PICK e : e = Vendor!EventOf(sess[h])
  OBVIOUS
<1>2. e.vendor = sess[h].vendor /\ e.to = sess[h].row.state
  BY <1>1 DEF Vendor!EventOf, Vendor!Event
<1>3. /\ pc[h] = "publish" /\ topic' = Append(topic, e) /\ Vendor!Finish(h)
      /\ UNCHANGED <<vendors, questionnaires, documents, seqs, failures>>
  BY <1>1 DEF Vendor!Publish, Vendor!dbVars, Vendor!boundVars
<1> QED
  BY <1>2, <1>3, FinishTurns DEF Ends

LEMMA FailureIs ==
    ASSUME Shapes, NEW h \in Handlers, Vendor!PublishFails(h) \/ Vendor!Crash(h)
    PROVE  /\ failures' = failures + 1
           /\ UNCHANGED <<vendors, questionnaires, documents, seqs, topic>>
           /\ \E s : Turns(h, "idle", s) /\ Ends("idle", s)
BY FinishTurns DEF Vendor!PublishFails, Vendor!Crash, Vendor!dbVars, Ends

\* What a step of vendor-service does to request h, which goes on to p with s.
Begun(h, p, s) ==
    /\ pc[h] = "idle"
    /\ UNCHANGED <<vendors, questionnaires, documents, topic, failures>>
    /\ \/ p = "commit" /\ Creates(s)
       \/ Loads(s) /\ Changes(p, s)
Ended(h, p, s) == pc[h] \in {"latest", "responses"} /\ Still /\ Ends(p, s)
Failed(h, p, s) ==
    /\ UNCHANGED <<vendors, questionnaires, documents, seqs, topic>> /\ failures' = failures + 1
    /\ Ends(p, s)
Looked(h, p, s) ==
    /\ pc[h] = "latest" /\ Still
    /\ p = "responses" /\ Same(s, sess[h]) /\ s.row = sess[h].row
    /\ s.q \in Vendor!OfVendor(s.vendor) /\ s.q = Max(Vendor!OfVendor(s.vendor))
    /\ s.qread = questionnaires[s.q] /\ s.qread.status # "COMPLETED"
Replied(h, p, s) ==
    /\ pc[h] = "responses" /\ Still
    /\ p = "commit" /\ Same(s, sess[h]) /\ s.q = sess[h].q /\ Filled(s)
    /\ s.qread.status = sess[h].qread.status /\ s.qread.vendor = sess[h].qread.vendor
    /\ s.qrow.vendor = sess[h].qread.vendor
    /\ \/ s.qrow.status = "IN_PROGRESS" /\ s.row.state = sess[h].row.state
       \/ /\ s.qrow.status = "COMPLETED" /\ s.row.state = "QUESTIONNAIRE_COMPLETED"
          /\ Vendor!ValidTransition(s.read.state, s.row.state)
Stored(h, p, s) == pc[h] = "store" /\ Still /\ p = "commit" /\ s = sess[h]
Committed(h, p, s) ==
    /\ pc[h] = "commit" /\ UNCHANGED <<seqs, topic, failures>>
    /\ VendorStored(sess[h]) /\ SheetStored(sess[h]) /\ IsFiniteSet(documents')
    /\ \/ ~MovedTo(sess[h]) /\ Ends(p, s)
       \/ MovedTo(sess[h]) /\ p \in {"refresh", "publish"} /\ s = sess[h]
Refreshed(h, p, s) ==
    /\ pc[h] = "refresh" /\ Still
    /\ p = "publish" /\ Same(s, sess[h]) /\ s.row.state = sess[h].row.state
Published(h, p, s) ==
    /\ pc[h] = "publish" /\ UNCHANGED <<vendors, questionnaires, documents, seqs, failures>>
    /\ \E e : topic' = Append(topic, e) /\ e.vendor = sess[h].vendor /\ e.to = sess[h].row.state
    /\ Ends(p, s)
Does(h, p, s) ==
    \/ Begun(h, p, s) \/ Ended(h, p, s) \/ Failed(h, p, s)
    \/ Looked(h, p, s) \/ Replied(h, p, s) \/ Stored(h, p, s)
    \/ Committed(h, p, s) \/ Refreshed(h, p, s) \/ Published(h, p, s)
TurnOf(h, p, s) == Turns(h, p, s) /\ IsSession(s) /\ Does(h, p, s)

\* Nothing happens to the requests.
Idle ==
    /\ Still /\ sess' = sess
    /\ DOMAIN pc' = DOMAIN pc /\ \A h \in Handlers : pc'[h] = pc[h]

\* Reading the portfolio is no business of the requests.
LEMMA ListersStay ==
    ASSUME Shapes, NEW l \in Listers,
           \/ Vendor!StartListing(l) \/ Vendor!CountVendors(l)
           \/ Vendor!ReadPage(l) \/ Vendor!ListingFails(l)
    PROVE  Idle
<1>1. PICK p, r : Vendor!Turn(l, p, r)
  <2>1. CASE Vendor!StartListing(l)
    BY <2>1 DEF Vendor!StartListing
  <2>2. CASE Vendor!CountVendors(l)
    BY <2>2 DEF Vendor!CountVendors
  <2>3. CASE Vendor!ReadPage(l)
    BY <2>3 DEF Vendor!ReadPage
  <2>4. CASE Vendor!ListingFails(l)
    BY <2>4 DEF Vendor!ListingFails
  <2> QED
    BY <2>1, <2>2, <2>3, <2>4
<1>2. \A h \in Handlers : h # l
  BY VendorAssumption
<1> QED
  BY <1>1, <1>2 DEF Vendor!Turn, Idle, Still, Vendor!dbVars, Shapes

\* Every step of vendor-service is one of these.
LEMMA VendorSteps ==
    ASSUME SheetInv, Vendor!Action
    PROVE  Idle \/ \E h \in Handlers : \E p, s : TurnOf(h, p, s)
<1>0. Shapes /\ IsFiniteSet(documents) /\ \A h \in Handlers : HandlerTypes(h)
  BY DEF SheetInv
<1>1. ASSUME NEW h \in Handlers, Vendor!Start(h) \/ Vendor!UpdateVendor(h)
      PROVE  \E p, s : TurnOf(h, p, s)
  <2>1. pc[h] = "idle"
    BY <1>1 DEF Vendor!Start, Vendor!CreateVendor, Vendor!UpdateVendor, Vendor!TransitionVendor,
       Vendor!GenerateQuestionnaire, Vendor!UpdateResponses, Vendor!UploadDocument,
       Vendor!Request, Vendor!Begin
  <2> QED
    BY SMTT(30), <1>0, <1>1, <2>1, Starts DEF TurnOf, Does, Begun
<1>2. ASSUME NEW h \in Handlers, Vendor!ReadLatest(h)
      PROVE  \E p, s : TurnOf(h, p, s)
  <2>1. PICK p, s :
          /\ pc[h] = "latest" /\ Still /\ Turns(h, p, s) /\ IsSession(s)
          /\ \/ p = "idle" /\ s.op = "none"
             \/ /\ p = "responses" /\ Same(s, sess[h]) /\ s.row = sess[h].row
                /\ s.q \in Vendor!OfVendor(s.vendor)
                /\ s.q = Max(Vendor!OfVendor(s.vendor))
                /\ s.qread = questionnaires[s.q] /\ s.qread.status # "COMPLETED"
    BY <1>0, <1>2, LatestIsRead
  <2>2. Ended(h, p, s) \/ Looked(h, p, s)
    BY <2>1 DEF Ended, Ends, Looked
  <2> QED
    BY <2>1, <2>2 DEF TurnOf, Does
<1>3. ASSUME NEW h \in Handlers, Vendor!ReadResponses(h)
      PROVE  \E p, s : TurnOf(h, p, s)
  <2>1. sess[h].q \in DOMAIN questionnaires /\ IsSheet(sess[h].qread)
    BY <1>0, <1>3 DEF HandlerTypes, Vendor!ReadResponses
  <2>2. PICK p, s :
          /\ pc[h] = "responses" /\ Still /\ Turns(h, p, s) /\ IsSession(s)
          /\ \/ p = "idle" /\ s.op = "none"
             \/ /\ p = "commit" /\ Same(s, sess[h]) /\ s.q = sess[h].q /\ Filled(s)
                /\ s.qread.status = sess[h].qread.status
                /\ s.qread.vendor = sess[h].qread.vendor
                /\ s.qrow.vendor = sess[h].qread.vendor
                /\ \/ s.qrow.status = "IN_PROGRESS" /\ s.row.state = sess[h].row.state
                   \/ /\ s.qrow.status = "COMPLETED"
                      /\ s.row.state = "QUESTIONNAIRE_COMPLETED"
                      /\ Vendor!ValidTransition(s.read.state, s.row.state)
    BY <1>0, <1>3, <2>1, ResponsesAreRead
  <2>3. Ended(h, p, s) \/ Replied(h, p, s)
    BY <2>2 DEF Ended, Ends, Replied
  <2> QED
    BY <2>2, <2>3 DEF TurnOf, Does
<1>4. ASSUME NEW h \in Handlers, Vendor!StoreFile(h)
      PROVE  \E p, s : TurnOf(h, p, s)
  BY <1>0, <1>4, StoreIs DEF TurnOf, Does, Stored
<1>5. ASSUME NEW h \in Handlers, Vendor!Commit(h)
      PROVE  \E p, s : TurnOf(h, p, s)
  <2>1. sess[h].op = "answer" => Filled(sess[h])
    BY <1>0, <1>5 DEF HandlerTypes, Vendor!Commit
  <2>2. PICK p, s :
          /\ Turns(h, p, s) /\ IsSession(s) /\ Committed(h, p, s)
    BY <1>0, <1>5, <2>1, CommitIs DEF Committed
  <2> QED
    BY <2>2 DEF TurnOf, Does
<1>6. ASSUME NEW h \in Handlers, Vendor!Refresh(h)
      PROVE  \E p, s : TurnOf(h, p, s)
  BY <1>0, <1>6, RefreshIs DEF TurnOf, Does, Refreshed
<1>7. ASSUME NEW h \in Handlers, Vendor!Publish(h)
      PROVE  \E p, s : TurnOf(h, p, s)
  BY <1>0, <1>7, PublishIs DEF TurnOf, Does, Published, Ends
<1>8. ASSUME NEW h \in Handlers, Vendor!PublishFails(h) \/ Vendor!Crash(h)
      PROVE  \E p, s : TurnOf(h, p, s)
  BY <1>0, <1>8, FailureIs DEF TurnOf, Does, Failed, Ends
<1>9. \A h \in Patchers : h \in Handlers
  BY VendorAssumption
<1> QED
  BY <1>0, <1>1, <1>2, <1>3, <1>4, <1>5, <1>6, <1>7, <1>8, <1>9, ListersStay
     DEF Vendor!Action, Vendor!Step

------------------------------------------------------------------------------
(* vendor-service's tables and sessions.                                    *)

\* The numbers taken, which only grow.
Counted ==
    /\ seqs = [vendor |-> seqs.vendor, q |-> seqs.q, document |-> seqs.document]
    /\ seqs.vendor \in Nat /\ seqs.q \in Nat

\* What other requests have in memory stays right.
SheetsGrow(h) ==
    /\ \A v \in DOMAIN vendors' : IsRow(vendors'[v])
    /\ \A q \in DOMAIN questionnaires' :
          /\ IsSheet(questionnaires'[q])
          /\ q \in DOMAIN questionnaires \/ (Generating(h) /\ q = sess[h].q)
    /\ \A q \in DOMAIN questionnaires :
          /\ q \in DOMAIN questionnaires'
          /\ DOMAIN questionnaires'[q].responses = DOMAIN questionnaires[q].responses

\* One request's step keeps the shapes, and what the others have in memory.
LEMMA SheetsTurn ==
    ASSUME SheetInv, NEW h \in Handlers, NEW p, NEW s, Turns(h, p, s), IsSession(s),
           Counted', seqs'.q >= seqs.q, IsFiniteSet(documents'), SheetsGrow(h),
           HandlerTypes(h)',
           Generating(h)' => s.q = seqs.q + 1
    PROVE  SheetInv'
<1>0. /\ Shapes /\ \A g \in Handlers : HandlerTypes(g)
      /\ seqs.q \in Nat /\ seqs'.q \in Nat
      /\ \A q \in DOMAIN questionnaires : q \in 1..seqs.q
  BY DEF SheetInv, Shapes, Counted
<1>1. /\ pc'[h] = p /\ sess'[h] = s /\ DOMAIN pc' = DOMAIN pc /\ DOMAIN sess' = DOMAIN sess
      /\ \A g \in Handlers \ {h} : pc'[g] = pc[g] /\ sess'[g] = sess[g]
  BY DEF Turns
<1>2. \A q \in DOMAIN questionnaires' : q \in 1..seqs'.q
  <2>1. ASSUME NEW q \in DOMAIN questionnaires' PROVE q \in 1..seqs.q
    BY <1>0, <2>1 DEF SheetsGrow, HandlerTypes
  <2> QED
    BY <1>0, <2>1
<1>3. Shapes'
  <2>1. \A g \in Handlers : IsSession(sess'[g])
    BY <1>0, <1>1 DEF Shapes
  <2>2. Handlers \subseteq DOMAIN pc' /\ DOMAIN sess' = Handlers
    BY <1>0, <1>1 DEF Shapes
  <2>3. /\ \A v \in DOMAIN vendors' : IsRow(vendors'[v])
        /\ \A q \in DOMAIN questionnaires' : IsSheet(questionnaires'[q])
    BY DEF SheetsGrow
  <2> QED
    BY <1>2, <2>1, <2>2, <2>3 DEF Shapes, Counted, IsSession, IsRow, IsSheet
<1>4. ASSUME NEW g \in Handlers \ {h} PROVE HandlerTypes(g)'
  <2>1. HandlerTypes(g) /\ pc'[g] = pc[g] /\ sess'[g] = sess[g]
    BY <1>0, <1>1
  <2>2. pc[g] = "responses" => sess[g].q \in DOMAIN questionnaires' /\ IsSheet(sess[g].qread)
    BY <2>1 DEF HandlerTypes, SheetsGrow
  <2>3. pc[g] = "commit" /\ sess[g].op = "answer" =>
          /\ sess[g].q \in DOMAIN questionnaires' /\ IsSheet(sess[g].qrow)
          /\ DOMAIN sess[g].qrow.responses = DOMAIN questionnaires'[sess[g].q].responses
    BY <2>1 DEF HandlerTypes, SheetsGrow, Filled
  <2>4. Generating(g) => sess[g].q \in 1..seqs'.q /\ sess[g].q \notin DOMAIN questionnaires'
    <3>1. SUFFICES ASSUME Generating(g)
                   PROVE  sess[g].q \in 1..seqs'.q /\ sess[g].q \notin DOMAIN questionnaires'
      OBVIOUS
    <3>2. sess[g].q \in 1..seqs.q /\ sess[g].q \notin DOMAIN questionnaires
      BY <2>1, <3>1 DEF HandlerTypes
    <3>3. Generating(h) => sess[g].q # sess[h].q
      BY <3>1 DEF SheetInv
    <3>4. sess[g].q \notin DOMAIN questionnaires'
      BY <3>2, <3>3 DEF SheetsGrow
    <3> QED
      BY <1>0, <3>2, <3>4
  <2> QED
    BY <2>1, <2>2, <2>3, <2>4 DEF HandlerTypes, Generating, Filled, IsSheet
<1>5. ASSUME NEW f \in Handlers, NEW g \in Handlers, f # g, Generating(f)', Generating(g)'
      PROVE  sess'[f].q # sess'[g].q
  <2>1. ASSUME NEW k \in Handlers \ {h}, Generating(k)', Generating(h)'
        PROVE  sess'[k].q # sess'[h].q
    <3>1. sess'[k].q \in 1..seqs.q
      BY <1>0, <1>1, <2>1 DEF HandlerTypes, Generating
    <3> QED
      BY <1>0, <1>1, <2>1, <3>1
  <2>2. CASE f = h \/ g = h
    BY <1>5, <2>1, <2>2
  <2>3. CASE f # h /\ g # h
    BY <1>1, <1>5, <2>3 DEF SheetInv, Generating
  <2> QED
    BY <2>2, <2>3
<1> QED
  BY <1>1, <1>3, <1>4, <1>5 DEF SheetInv, HandlerTypes

\* Nothing is stored.
LEMMA SheetsSame ==
    ASSUME SheetInv, NEW h \in Handlers, UNCHANGED <<vendors, questionnaires>>
    PROVE  SheetsGrow(h)
BY DEF SheetInv, Shapes, SheetsGrow

\* A number once taken is not given again.
LEMMA NumbersTaken ==
    ASSUME Counted,
           \/ seqs' = seqs
           \/ seqs' = [seqs EXCEPT !.vendor = @ + 1]
           \/ seqs' = [seqs EXCEPT !.q = @ + 1]
           \/ seqs' = [seqs EXCEPT !.document = @ + 1]
    PROVE  Counted' /\ seqs'.q >= seqs.q
<1>1. PICK x : x = seqs /\ x = [vendor |-> x.vendor, q |-> x.q, document |-> x.document]
               /\ x.vendor \in Nat /\ x.q \in Nat
  BY DEF Counted
<1>2. CASE seqs' = x
  BY <1>1, <1>2 DEF Counted
<1>3. CASE seqs' = [x EXCEPT !.vendor = @ + 1]
  <2>1. seqs' = [vendor |-> x.vendor + 1, q |-> x.q, document |-> x.document]
    BY <1>1, <1>3
  <2> QED
    BY <1>1, <2>1 DEF Counted
<1>4. CASE seqs' = [x EXCEPT !.q = @ + 1]
  <2>1. seqs' = [vendor |-> x.vendor, q |-> x.q + 1, document |-> x.document]
    BY <1>1, <1>4
  <2> QED
    BY <1>1, <2>1 DEF Counted
<1>5. CASE seqs' = [x EXCEPT !.document = @ + 1]
  <2>1. seqs' = [vendor |-> x.vendor, q |-> x.q, document |-> x.document + 1]
    BY <1>1, <1>5
  <2> QED
    BY <1>1, <2>1 DEF Counted
<1> QED
  BY <1>1, <1>2, <1>3, <1>4, <1>5

\* The shapes are kept by every step of vendor-service.
LEMMA SheetsVendor ==
    ASSUME SheetInv, Vendor!Action
    PROVE  SheetInv'
<1>0. /\ Shapes /\ IsFiniteSet(documents) /\ \A h \in Handlers : HandlerTypes(h)
      /\ Counted /\ seqs.q \in Nat
  BY DEF SheetInv, Shapes, Counted
<1>1. CASE Idle
  <2>1. Shapes'
    BY <1>0, <1>1 DEF Idle, Still, Shapes, IsSession, IsRow, IsSheet
  <2>2. \A h \in Handlers : HandlerTypes(h)' /\ (Generating(h)' <=> Generating(h))
    BY <1>0, <1>1 DEF Idle, Still, HandlerTypes, Generating, Filled, IsSheet
  <2> QED
    BY <1>1, <2>1, <2>2 DEF SheetInv, Idle, Still
<1>2. ASSUME NEW h \in Handlers, NEW p, NEW s, TurnOf(h, p, s)
      PROVE  SheetInv'
  <2>0. Turns(h, p, s) /\ IsSession(s) /\ pc'[h] = p /\ sess'[h] = s
    BY <1>2 DEF TurnOf, Turns
  <2>1. CASE Begun(h, p, s)
    <3>1. /\ \/ seqs' = seqs
             \/ seqs' = [seqs EXCEPT !.vendor = @ + 1]
             \/ seqs' = [seqs EXCEPT !.q = @ + 1]
             \/ seqs' = [seqs EXCEPT !.document = @ + 1]
          /\ UNCHANGED <<vendors, questionnaires, documents>>
      BY <2>1 DEF Begun, Creates, Changes
    <3>2. Counted' /\ seqs'.q >= seqs.q
      BY <1>0, <3>1, NumbersTaken
    <3>3. Generating(h)' => s.q = seqs.q + 1 /\ seqs'.q = seqs.q + 1
      <4>1. SUFFICES ASSUME p = "commit", s.op = "generate"
                     PROVE  s.q = seqs.q + 1 /\ seqs'.q = seqs.q + 1
        BY <2>0 DEF Generating
      <4>2. s.q = seqs.q + 1 /\ seqs' = [seqs EXCEPT !.q = @ + 1]
        BY <2>1, <4>1 DEF Begun, Creates, Changes
      <4> QED
        BY <1>0, <4>2 DEF Counted
    <3>4. HandlerTypes(h)'
      <4>1. Generating(h)' => s.q \in 1..seqs'.q /\ s.q \notin DOMAIN questionnaires'
        <5>1. \A q \in DOMAIN questionnaires : q <= seqs.q
          BY <1>0 DEF Shapes
        <5> QED
          BY <1>0, <3>1, <3>3, <5>1
      <4>2. /\ p \in {"latest", "responses"} => s.op = "answer"
            /\ p = "store" => s.op = "upload"
            /\ p # "responses"
            /\ ~(p = "commit" /\ s.op = "answer")
        BY <2>1 DEF Begun, Creates, Changes
      <4> QED
        BY <2>0, <4>1, <4>2 DEF HandlerTypes
    <3> QED
      BY <1>0, <2>0, <3>1, <3>2, <3>3, <3>4, SheetsSame, SheetsTurn
  <2>2. CASE Ended(h, p, s) \/ Failed(h, p, s) \/ Published(h, p, s)
    <3>1. UNCHANGED <<vendors, questionnaires, documents, seqs>> /\ p = "idle"
      BY <2>2 DEF Ended, Failed, Published, Still, Ends
    <3>2. HandlerTypes(h)' /\ ~Generating(h)'
      BY <2>0, <3>1 DEF HandlerTypes, Generating
    <3> QED
      BY <1>0, <2>0, <3>1, <3>2, NumbersTaken, SheetsSame, SheetsTurn
  <2>3. CASE Looked(h, p, s)
    <3>1. UNCHANGED <<vendors, questionnaires, documents, seqs>> /\ p = "responses"
      BY <2>3 DEF Looked, Still
    <3>2. s.op = "answer" /\ s.q \in DOMAIN questionnaires /\ IsSheet(s.qread)
      BY <1>0, <2>3 DEF Looked, Same, HandlerTypes, Vendor!OfVendor, Shapes
    <3>3. HandlerTypes(h)' /\ ~Generating(h)'
      BY <2>0, <3>1, <3>2 DEF HandlerTypes, Generating, IsSheet
    <3> QED
      BY <1>0, <2>0, <3>1, <3>3, NumbersTaken, SheetsSame, SheetsTurn
  <2>4. CASE Replied(h, p, s)
    <3>1. UNCHANGED <<vendors, questionnaires, documents, seqs>> /\ p = "commit"
      BY <2>4 DEF Replied, Still
    <3>2. s.op = "answer" /\ Filled(s)
      BY <1>0, <2>4 DEF Replied, Same, HandlerTypes
    <3>3. HandlerTypes(h)' /\ ~Generating(h)'
      BY <2>0, <3>1, <3>2 DEF HandlerTypes, Generating, Filled, IsSheet
    <3> QED
      BY <1>0, <2>0, <3>1, <3>3, NumbersTaken, SheetsSame, SheetsTurn
  <2>5. CASE Stored(h, p, s)
    <3>1. UNCHANGED <<vendors, questionnaires, documents, seqs>> /\ p = "commit"
      BY <2>5 DEF Stored, Still
    <3>2. s.op = "upload"
      BY <1>0, <2>5 DEF Stored, HandlerTypes
    <3>3. HandlerTypes(h)' /\ ~Generating(h)'
      BY <2>0, <3>1, <3>2 DEF HandlerTypes, Generating
    <3> QED
      BY <1>0, <2>0, <3>1, <3>3, NumbersTaken, SheetsSame, SheetsTurn
  <2>6. CASE Refreshed(h, p, s)
    <3>1. UNCHANGED <<vendors, questionnaires, documents, seqs>> /\ p = "publish"
      BY <2>6 DEF Refreshed, Still
    <3>3. HandlerTypes(h)' /\ ~Generating(h)'
      BY <2>0, <3>1 DEF HandlerTypes, Generating
    <3> QED
      BY <1>0, <2>0, <3>1, <3>3, NumbersTaken, SheetsSame, SheetsTurn
  <2>7. CASE Committed(h, p, s)
    <3>1. /\ VendorStored(sess[h]) /\ SheetStored(sess[h]) /\ IsFiniteSet(documents')
          /\ seqs' = seqs /\ pc[h] = "commit" /\ p \in {"idle", "refresh", "publish"}
      BY <2>7 DEF Committed, Ends
    <3>2. HandlerTypes(h)' /\ ~Generating(h)'
      BY <2>0, <3>1 DEF HandlerTypes, Generating
    <3>3. \A q \in DOMAIN questionnaires : IsSheet(questionnaires[q])
      BY <1>0 DEF Shapes
    <3>4. /\ sess[h].op = "generate" => sess[h].q \notin DOMAIN questionnaires
          /\ sess[h].op = "answer" => sess[h].q \in DOMAIN questionnaires
      BY <1>0, <3>1 DEF HandlerTypes, Generating, Filled
    <3>5. SheetsGrow(h)
      <4>1. \A v \in DOMAIN vendors' : IsRow(vendors'[v])
        BY <3>1 DEF VendorStored
      <4>2. CASE sess[h].op = "generate"
        BY <3>1, <3>3, <3>4, <4>1, <4>2 DEF SheetStored, SheetsGrow, Generating
      <4>3. CASE sess[h].op = "answer"
        BY <3>1, <3>3, <3>4, <4>1, <4>3 DEF SheetStored, SheetsGrow
      <4>4. CASE sess[h].op \notin {"generate", "answer"}
        BY <3>1, <3>3, <4>1, <4>4 DEF SheetStored, SheetsGrow
      <4> QED
        BY <4>2, <4>3, <4>4
    <3> QED
      BY <1>0, <2>0, <3>1, <3>2, <3>5, NumbersTaken, SheetsTurn
  <2> QED
    BY <1>2, <2>1, <2>2, <2>3, <2>4, <2>5, <2>6, <2>7 DEF TurnOf, Does
<1> QED
  BY <1>1, <1>2, VendorSteps

\* ... and from the start by every step there is.
LEMMA SheetsInit == Init => SheetInv
<1> SUFFICES ASSUME Init PROVE SheetInv
  OBVIOUS
<1>1. /\ vendors = <<>> /\ questionnaires = <<>> /\ documents = {}
      /\ seqs = [vendor |-> 0, q |-> 0, document |-> 0]
      /\ pc = [h \in Handlers \cup Listers |-> "idle"]
      /\ sess = [h \in Handlers |-> Vendor!NoSession]
  BY DEF Init, Vendor!Init
<1>2. Shapes
  BY <1>1, NoSessionIs DEF Shapes
<1>3. \A h \in Handlers : HandlerTypes(h) /\ ~Generating(h)
  BY <1>1 DEF HandlerTypes, Generating
<1>4. IsFiniteSet(documents)
  BY <1>1, FS_EmptySet
<1> QED
  BY <1>2, <1>3, <1>4 DEF SheetInv

LEMMA SheetsNext == SheetInv /\ [Next]_vars => SheetInv'
<1> SUFFICES ASSUME SheetInv, [Next]_vars PROVE SheetInv'
  OBVIOUS
<1>1. CASE VendorAction
  BY <1>1, SheetsVendor DEF VendorAction
<1>2. CASE UNCHANGED vendorVars
  BY SMTT(30), <1>2 DEF vendorVars, SheetInv, Shapes, HandlerTypes, Generating, Filled,
     IsSession, IsRow, IsSheet
<1>3. VendorAction \/ UNCHANGED vendorVars
  BY DEF Next, ConsumeRisk, ConsumeCompliance, Fetch, RiskStep, ComplianceStep, Rejoin, CutOff,
     RequestComputation, CreateAssessment, AddTechStackComponent, Quiescent, vars,
     PublishUpdate, PublishAnomaly, Publish, AssessBaseline, RunAssessment,
     ReadQuestionnaireScore, ReadEvidence, ReadPart, ReadTechStack, FlushScore, CommitScore,
     CommitAssessment, PublishAssessment
<1> QED
  BY <1>1, <1>2, <1>3

------------------------------------------------------------------------------
(* Announcements.                                                           *)

\* A step that moves no vendor, and drops no announcement.
LEMMA EventsTurn ==
    ASSUME EventInv, NEW h \in Handlers, NEW p, NEW s, Turns(h, p, s),
           UNCHANGED <<vendors, topic, failures>>,
           pc[h] \in {"refresh", "publish"} =>
              /\ p \in {"refresh", "publish"}
              /\ s.vendor = sess[h].vendor /\ s.row.state = sess[h].row.state
    PROVE  EventInv'
<1>1. /\ pc'[h] = p /\ sess'[h] = s
      /\ \A g \in Handlers \ {h} : pc'[g] = pc[g] /\ sess'[g] = sess[g]
  BY DEF Turns
<1>2. ASSUME NEW g \in Handlers, NEW v, Announces(g, v) PROVE Announces(g, v)'
  <2>1. CASE g = h
    BY <1>1, <1>2, <2>1 DEF Announces
  <2>2. CASE g # h
    BY <1>1, <1>2, <2>2 DEF Announces
  <2> QED
    BY <2>1, <2>2
<1>3. \A v : Announced(v) => Announced(v)'
  BY DEF Announced
<1> QED
  BY <1>2, <1>3 DEF EventInv

\* A commit that moves a vendor goes on to announce it.
LEMMA EventsCommit ==
    ASSUME SheetInv, EventInv, NEW h \in Handlers, NEW p, NEW s, Turns(h, p, s), Committed(h, p, s)
    PROVE  EventInv'
<1>1. /\ pc'[h] = p /\ sess'[h] = s
      /\ \A g \in Handlers \ {h} : pc'[g] = pc[g] /\ sess'[g] = sess[g]
  BY DEF Turns
<1>2. /\ pc[h] = "commit" /\ topic' = topic /\ failures' = failures
      /\ VendorStored(sess[h])
      /\ MovedTo(sess[h]) => p \in {"refresh", "publish"} /\ s = sess[h]
  BY DEF Committed
<1>3. ASSUME NEW v \in DOMAIN vendors', failures = 0
      PROVE  Announced(v)' \/ \E g \in Handlers : Announces(g, v)'
  <2>1. CASE v \in DOMAIN vendors /\ vendors'[v].state = vendors[v].state
    <3>1. Announced(v) \/ \E g \in Handlers : Announces(g, v)
      BY <1>3, <2>1 DEF EventInv
    <3>2. Announced(v) => Announced(v)'
      BY <1>2, <2>1 DEF Announced
    <3>3. ASSUME NEW g \in Handlers, Announces(g, v) PROVE Announces(g, v)'
      <4>1. g # h
        BY <1>2, <3>3 DEF Announces
      <4> QED
        BY <1>1, <2>1, <3>3, <4>1 DEF Announces
    <3> QED
      BY <3>1, <3>2, <3>3
  <2>2. CASE v \notin DOMAIN vendors \/ vendors'[v].state # vendors[v].state
    <3>1. v = sess[h].vendor /\ MovedTo(sess[h]) /\ vendors'[v].state = sess[h].row.state
      BY <1>2, <2>2 DEF VendorStored, MovedTo, Column
    <3>2. Announces(h, v)'
      BY <1>1, <1>2, <3>1 DEF Announces
    <3> QED
      BY <3>2
  <2> QED
    BY <2>1, <2>2
<1> QED
  BY <1>2, <1>3 DEF EventInv

\* What was about to be announced is announced.
LEMMA EventsPublish ==
    ASSUME IsSeq(topic), EventInv, NEW h \in Handlers, NEW p, NEW s, Turns(h, p, s),
           Published(h, p, s)
    PROVE  EventInv'
<1>1. \A g \in Handlers \ {h} : pc'[g] = pc[g] /\ sess'[g] = sess[g]
  BY DEF Turns
<1>2. PICK e : topic' = Append(topic, e) /\ e.vendor = sess[h].vendor
               /\ e.to = sess[h].row.state
  BY DEF Published
<1>3. /\ Len(topic) \in Nat /\ DOMAIN topic = 1..Len(topic)
      /\ DOMAIN topic' = 1..Len(topic) + 1
      /\ \A i \in 1..Len(topic) : topic'[i] = topic[i]
      /\ topic'[Len(topic) + 1] = e
  BY <1>2, AppendOne
<1>4. vendors' = vendors /\ failures' = failures
  BY DEF Published
<1>5. \A v : Announced(v) => Announced(v)'
  BY <1>3, <1>4 DEF Announced
<1>6. ASSUME NEW v, NEW g \in Handlers, Announces(g, v)
      PROVE  Announced(v)' \/ Announces(g, v)'
  <2>1. CASE g = h
    <3>1. e.vendor = v /\ e.to = vendors'[v].state
      BY <1>2, <1>4, <1>6, <2>1 DEF Announces
    <3>2. Len(topic) + 1 \in DOMAIN topic'
      BY <1>3
    <3> QED
      BY <1>3, <3>1, <3>2 DEF Announced
  <2>2. CASE g # h
    BY <1>1, <1>4, <1>6, <2>2 DEF Announces
  <2> QED
    BY <2>1, <2>2
<1> QED
  BY <1>4, <1>5, <1>6 DEF EventInv

\* Announcements are lost only in a failure.
LEMMA EventsVendor ==
    ASSUME IsSeq(topic), SheetInv, EventInv, Vendor!Action
    PROVE  EventInv'
<1>1. CASE Idle
  BY <1>1 DEF Idle, Still, EventInv, Announced, Announces
<1>2. ASSUME NEW h \in Handlers, NEW p, NEW s, TurnOf(h, p, s)
      PROVE  EventInv'
  <2>0. Turns(h, p, s)
    BY <1>2 DEF TurnOf
  <2>1. CASE Begun(h, p, s) \/ Ended(h, p, s) \/ Looked(h, p, s) \/ Replied(h, p, s)
             \/ Stored(h, p, s) \/ Refreshed(h, p, s)
    <3>1. /\ UNCHANGED <<vendors, topic, failures>>
          /\ pc[h] \in {"idle", "latest", "responses", "store", "refresh"}
          /\ pc[h] = "refresh" => Refreshed(h, p, s)
      BY <2>1 DEF Begun, Ended, Looked, Replied, Stored, Refreshed, Still
    <3>2. pc[h] \in {"refresh", "publish"} =>
              /\ p \in {"refresh", "publish"}
              /\ s.vendor = sess[h].vendor /\ s.row.state = sess[h].row.state
      BY <3>1 DEF Refreshed, Same
    <3> QED
      BY <2>0, <3>1, <3>2, EventsTurn
  <2>2. CASE Failed(h, p, s)
    <3>1. failures' \in Nat /\ failures' # 0
      BY <2>2 DEF Failed, EventInv
    <3> QED
      BY <3>1 DEF EventInv
  <2>3. CASE Committed(h, p, s)
    BY <2>0, <2>3, EventsCommit
  <2>4. CASE Published(h, p, s)
    BY SMTT(30), <2>0, <2>4, EventsPublish
  <2> QED
    BY <1>2, <2>1, <2>2, <2>3, <2>4 DEF TurnOf, Does
<1> QED
  BY <1>1, <1>2, VendorSteps

\* Every other step leaves vendor-service alone.
LEMMA VendorOrNot == Next => VendorAction \/ UNCHANGED vendorVars
BY DEF Next, ConsumeRisk, ConsumeCompliance, Fetch, RiskStep, ComplianceStep, Rejoin, CutOff,
   RequestComputation, CreateAssessment, AddTechStackComponent, Quiescent, vars,
   PublishUpdate, PublishAnomaly, Publish, AssessBaseline, RunAssessment,
   ReadQuestionnaireScore, ReadEvidence, ReadPart, ReadTechStack, FlushScore, CommitScore,
   CommitAssessment, PublishAssessment

LEMMA EventsInit == Init => EventInv
BY DEF Init, Vendor!Init, EventInv

LEMMA EventsNext == LossInv /\ SheetInv /\ EventInv /\ [Next]_vars => EventInv'
<1> SUFFICES ASSUME LossInv, SheetInv, EventInv, [Next]_vars PROVE EventInv'
  OBVIOUS
<1>1. CASE VendorAction
  BY <1>1, EventsVendor DEF VendorAction, LossInv, ConsumerInv
<1>2. CASE UNCHANGED vendorVars
  BY <1>2 DEF vendorVars, EventInv, Announced, Announces
<1> QED
  BY <1>1, <1>2, VendorOrNot DEF vars

------------------------------------------------------------------------------
(* Requests one at a time.                                                  *)

\* A questionnaire that was completed keeps its score once its vendor has moved on.
Frozen ==
    \A v \in DOMAIN vendors : vendors[v].state \in Late =>
        /\ v \in DOMAIN vendors' /\ vendors'[v].state \in Late
        /\ Completed(v)' => Completed(v) /\ CurrentScore(v)' = CurrentScore(v)

\* ALLOWED_TRANSITIONS: no vendor comes back once its questionnaire is in.
LEMMA LateTransitions ==
    ASSUME NEW state \in Late, NEW target, Vendor!ValidTransition(state, target)
    PROVE  /\ target \in Late
           /\ target \notin {"QUESTIONNAIRE_SENT", "QUESTIONNAIRE_COMPLETED"}
BY DEF Late, Vendor!ValidTransition, Vendor!AllowedTransitions, Vendor!States,
   Vendor!TerminalStates

\* What the questionnaires of one vendor say.
LEMMA SheetsOfVendor ==
    ASSUME Shapes, NEW v,
           \A q \in DOMAIN questionnaires : q \in DOMAIN questionnaires',
           \A q \in DOMAIN questionnaires' :
              questionnaires'[q].vendor = v =>
                  q \in DOMAIN questionnaires /\ questionnaires[q].vendor = v,
           \A q \in DOMAIN questionnaires :
              questionnaires[q].vendor = v => questionnaires'[q] = questionnaires[q]
    PROVE  Completed(v)' => Completed(v) /\ CurrentScore(v)' = CurrentScore(v)
<1>1. PICK mine : mine = Vendor!OfVendor(v)
  OBVIOUS
<1>2. Vendor!OfVendor(v)' = mine
  BY <1>1 DEF Vendor!OfVendor
<1>3. PICK q : q = Max(mine)
  OBVIOUS
<1>4. SUFFICES ASSUME Completed(v)' PROVE Completed(v) /\ CurrentScore(v)' = CurrentScore(v)
  OBVIOUS
<1>5. mine # {} /\ questionnaires'[q].status = "COMPLETED"
  BY <1>2, <1>3, <1>4 DEF Completed
<1>6. q \in mine
  BY <1>1, <1>3, <1>5, NewestIs
<1>7. questionnaires'[q] = questionnaires[q]
  BY <1>1, <1>6 DEF Vendor!OfVendor
<1>8. Completed(v)
  BY <1>1, <1>3, <1>5, <1>7 DEF Completed
<1>9. CurrentScore(v) = QuestionnaireScore(questionnaires[q].responses)
  BY <1>1, <1>3, <1>5 DEF CurrentScore
<1>10. CurrentScore(v)' = QuestionnaireScore(questionnaires'[q].responses)
  BY <1>2, <1>3, <1>5 DEF CurrentScore
<1> QED
  BY <1>7, <1>8, <1>9, <1>10

\* A step that stores nothing keeps every score.
LEMMA NothingStored ==
    ASSUME SeqInv, UNCHANGED <<vendors, questionnaires>>
    PROVE  Frozen
BY DEF Frozen, Completed, CurrentScore, Vendor!OfVendor

\* One request at a time: what it does to the invariant when no vendor moves and
\* nothing is announced.
LEMMA SeqTurn ==
    ASSUME SeqInv, NEW h \in Handlers, ~Overlapping,
           UNCHANGED <<vendors, topic>>, DOMAIN vendors \subseteq 1..seqs'.vendor,
           HandlerSeq(h)'
    PROVE  SeqInv'
<1>1. \A g \in Handlers : g = h
  BY DEF Overlapping
<1> QED
  BY <1>1 DEF SeqInv

\* A request that begins alone reads what is there.
LEMMA SeqBegun ==
    ASSUME SheetInv, SeqInv, NEW h \in Handlers, NEW p, NEW s, ~Overlapping, TurnOf(h, p, s),
           Begun(h, p, s)
    PROVE  SeqInv'
<1>0. pc'[h] = p /\ sess'[h] = s /\ vendors' = vendors /\ topic' = topic /\ Counted
      /\ questionnaires' = questionnaires
  BY DEF TurnOf, Turns, Begun, SheetInv, Shapes, Counted
<1>1. CASE p = "commit" /\ Creates(s)
  <2>1. s.op = "create" /\ s.vendor = seqs.vendor + 1 /\ seqs'.vendor = seqs.vendor + 1
    BY <1>0, <1>1 DEF Creates, Counted
  <2>2. seqs.vendor \in Nat /\ \A v \in DOMAIN vendors : v \in 1..seqs.vendor
    BY <1>0 DEF Counted, SeqInv
  <2>3. DOMAIN vendors \subseteq 1..seqs'.vendor
    BY <2>1, <2>2
  <2>4. s.vendor \in 1..seqs'.vendor /\ s.vendor \notin DOMAIN vendors
    BY <2>1, <2>2
  <2>5. HandlerSeq(h)'
    BY <1>0, <1>1, <2>1, <2>4 DEF HandlerSeq, Reading, Generating
  <2> QED
    BY <1>0, <2>3, <2>5, SeqTurn
<1>2. CASE Loads(s) /\ Changes(p, s)
  <2>1. s.op # "create" /\ s.vendor \in DOMAIN vendors /\ s.read = vendors[s.vendor]
    BY <1>2 DEF Loads
  <2>2. seqs'.vendor = seqs.vendor
    BY <1>0, <1>2 DEF Changes, Counted
  <2>3. s.read.state \in Late => s.row.state \in Late
    <3>1. s.row.state = s.read.state \/ Vendor!ValidTransition(s.read.state, s.row.state)
      BY <1>2 DEF Changes
    <3> QED
      BY <3>1, LateTransitions
  <2>4. p = "commit" /\ s.op = "generate" => s.read.state \notin Late
    <3>1. p = "commit" /\ s.op = "generate" =>
            /\ s.row.state = "QUESTIONNAIRE_SENT"
            /\ Vendor!ValidTransition(s.read.state, s.row.state)
      BY <1>2 DEF Changes
    <3> QED
      BY <3>1, LateTransitions
  <2>5. /\ p = "latest" => s.row.state = s.read.state
        /\ p \in {"latest", "store", "commit"}
        /\ ~(p = "commit" /\ s.op = "answer")
    BY <1>2 DEF Changes
  <2>6. HandlerSeq(h)'
    BY <1>0, <2>1, <2>3, <2>4, <2>5 DEF HandlerSeq, Reading, Generating
  <2> QED
    BY <1>0, <2>2, <2>6, SeqTurn DEF SeqInv
<1> QED
  BY <1>1, <1>2 DEF Begun

\* What it goes on to do is about what is still there.
LEMMA SeqAnswer ==
    ASSUME SheetInv, SeqInv, NEW h \in Handlers, NEW p, NEW s, ~Overlapping, TurnOf(h, p, s),
           Looked(h, p, s) \/ Replied(h, p, s) \/ Stored(h, p, s) \/ Refreshed(h, p, s)
    PROVE  SeqInv'
<1>0. /\ pc'[h] = p /\ sess'[h] = s /\ UNCHANGED <<vendors, questionnaires, topic, seqs>>
      /\ HandlerSeq(h) /\ HandlerTypes(h)
  BY DEF TurnOf, Turns, Looked, Replied, Stored, Refreshed, Still, SheetInv, SeqInv
<1>1. CASE Looked(h, p, s)
  <2>1. /\ pc[h] = "latest" /\ p = "responses" /\ sess[h].op = "answer"
        /\ s.op = "answer" /\ s.vendor = sess[h].vendor /\ s.read = sess[h].read
        /\ s.row = sess[h].row
    BY <1>0, <1>1 DEF Looked, Same, HandlerTypes
  <2>2. Reading(h) /\ s.row.state = s.read.state
    BY <1>0, <2>1 DEF HandlerSeq, Reading
  <2>3. AtHand(s)
    BY <1>1 DEF Looked, AtHand
  <2>4. AtHand(s)'
    BY <1>0, <1>1, <2>3 DEF AtHand, Vendor!OfVendor, Max
  <2>5. HandlerSeq(h)'
    BY <1>0, <2>1, <2>2, <2>4 DEF HandlerSeq, Reading, Generating, AtHand
  <2> QED
    BY <1>0, <2>5, SeqTurn DEF SeqInv
<1>2. CASE Replied(h, p, s)
  <2>1. /\ pc[h] = "responses" /\ p = "commit" /\ sess[h].op = "answer"
        /\ s.op = "answer" /\ s.vendor = sess[h].vendor /\ s.read = sess[h].read
        /\ s.q = sess[h].q
        /\ s.qread.status = sess[h].qread.status /\ s.qread.vendor = sess[h].qread.vendor
        /\ s.qrow.vendor = s.qread.vendor
    BY <1>0, <1>2 DEF Replied, Same, HandlerTypes
  <2>2. /\ Reading(h) /\ sess[h].row.state = sess[h].read.state /\ AtHand(sess[h])
        /\ s.vendor \in DOMAIN vendors /\ s.read = vendors[s.vendor]
    BY SMTT(30), <1>0, <2>1 DEF HandlerSeq, Reading
  <2>3. AtHand(s)'
    BY <1>0, <2>1, <2>2 DEF AtHand, Vendor!OfVendor, Max
  <2>4. /\ s.read.state \in Late => s.row.state \in Late
        /\ s.qrow.status = "COMPLETED" => s.read.state \notin Late
    <3>1. CASE s.qrow.status = "IN_PROGRESS" /\ s.row.state = sess[h].row.state
      BY <2>1, <2>2, <3>1
    <3>2. CASE /\ s.qrow.status = "COMPLETED" /\ s.row.state = "QUESTIONNAIRE_COMPLETED"
               /\ Vendor!ValidTransition(s.read.state, s.row.state)
      <4>1. s.read.state \notin Late
        BY <3>2, LateTransitions
      <4> QED
        BY <4>1
    <3> QED
      BY <1>2, <3>1, <3>2 DEF Replied
  <2>5. HandlerSeq(h)'
    BY <1>0, <2>1, <2>2, <2>3, <2>4 DEF HandlerSeq, Reading, Generating, AtHand
  <2> QED
    BY <1>0, <2>5, SeqTurn DEF SeqInv
<1>3. CASE Stored(h, p, s)
  <2>1. pc[h] = "store" /\ p = "commit" /\ sess[h].op = "upload" /\ s = sess[h]
    BY <1>0, <1>3 DEF Stored, HandlerTypes
  <2>2. HandlerSeq(h)'
    BY <1>0, <2>1 DEF HandlerSeq, Reading, Generating
  <2> QED
    BY <1>0, <2>2, SeqTurn DEF SeqInv
<1>4. CASE Refreshed(h, p, s)
  <2>1. /\ pc[h] = "refresh" /\ p = "publish" /\ s.vendor = sess[h].vendor
        /\ s.row.state = sess[h].row.state
    BY <1>4 DEF Refreshed, Same
  <2>2. HandlerSeq(h)'
    BY <1>0, <2>1 DEF HandlerSeq, Reading, Generating
  <2> QED
    BY <1>0, <2>2, SeqTurn DEF SeqInv
<1> QED
  BY <1>1, <1>2, <1>3, <1>4

\* A request that ends leaves nothing behind.
LEMMA SeqEnded ==
    ASSUME SheetInv, SeqInv, NEW h \in Handlers, NEW p, NEW s, ~Overlapping, TurnOf(h, p, s),
           Ended(h, p, s) \/ Failed(h, p, s)
    PROVE  SeqInv'
<1>0. /\ pc'[h] = "idle" /\ UNCHANGED <<vendors, topic, seqs>>
  BY DEF TurnOf, Turns, Ended, Failed, Still, Ends
<1>1. HandlerSeq(h)'
  BY <1>0 DEF HandlerSeq, Reading, Generating
<1> QED
  BY <1>0, <1>1, SeqTurn DEF SeqInv

\* Its event tells the state the vendor is still in.
LEMMA SeqPublished ==
    ASSUME IsSeq(topic), SheetInv, SeqInv, NEW h \in Handlers, NEW p, NEW s, ~Overlapping,
           TurnOf(h, p, s), Published(h, p, s)
    PROVE  SeqInv'
<1>0. /\ pc[h] = "publish" /\ pc'[h] = "idle" /\ UNCHANGED <<vendors, seqs>>
      /\ HandlerSeq(h) /\ \A g \in Handlers : g = h
  BY DEF TurnOf, Turns, Published, Ends, SeqInv, Overlapping
<1>1. PICK e : topic' = Append(topic, e) /\ e.vendor = sess[h].vendor
               /\ e.to = sess[h].row.state
  BY DEF Published
<1>2. /\ Len(topic) \in Nat /\ DOMAIN topic = 1..Len(topic)
      /\ DOMAIN topic' = 1..Len(topic) + 1
      /\ \A i \in 1..Len(topic) : topic'[i] = topic[i]
      /\ topic'[Len(topic) + 1] = e
  BY <1>1, AppendOne
<1>3. e.vendor \in DOMAIN vendors /\ vendors[e.vendor].state = e.to
  BY <1>0, <1>1 DEF HandlerSeq
<1>4. HandlerSeq(h)'
  BY <1>0 DEF HandlerSeq, Reading, Generating
<1>5. \A i \in DOMAIN topic' : topic'[i].to \in Late =>
          topic'[i].vendor \in DOMAIN vendors /\ vendors[topic'[i].vendor].state \in Late
  <2>1. TAKE i \in DOMAIN topic'
  <2>2. i \in DOMAIN topic \/ i = Len(topic) + 1
    BY <1>2
  <2> QED
    BY <1>2, <1>3, <2>2 DEF SeqInv
<1> QED
  BY <1>0, <1>4, <1>5 DEF SeqInv

\* Its commit overwrites nobody's, and changes no completed questionnaire.
LEMMA SeqCommitted ==
    ASSUME SheetInv, SeqInv, NEW h \in Handlers, NEW p, NEW s, ~Overlapping, TurnOf(h, p, s),
           Committed(h, p, s)
    PROVE  SeqInv' /\ Frozen
<1> DEFINE r == sess[h]
<1>0. /\ pc[h] = "commit" /\ pc'[h] = p /\ sess'[h] = s /\ UNCHANGED <<seqs, topic>>
      /\ VendorStored(r) /\ SheetStored(r) /\ HandlerSeq(h) /\ HandlerTypes(h) /\ Shapes
      /\ \A g \in Handlers : g = h
      /\ (~MovedTo(r) /\ p = "idle") \/ (p \in {"refresh", "publish"} /\ s = r)
  BY DEF TurnOf, Turns, Committed, Ends, SheetInv, SeqInv, Overlapping
<1>1. /\ r.op = "create" => r.vendor \in 1..seqs.vendor /\ r.vendor \notin DOMAIN vendors
      /\ r.op # "create" => /\ r.vendor \in DOMAIN vendors /\ r.read = vendors[r.vendor]
                            /\ r.read.state \in Late => r.row.state \in Late
      /\ r.op = "answer" => /\ AtHand(r) /\ r.qrow.vendor = r.qread.vendor
                            /\ r.qrow.status = "COMPLETED" => r.read.state \notin Late
      /\ r.op = "generate" => r.read.state \notin Late
  BY <1>0 DEF HandlerSeq, Reading, Generating
<1>2. /\ r.vendor \in DOMAIN vendors' /\ vendors'[r.vendor].state = r.row.state
      /\ DOMAIN vendors' \subseteq 1..seqs.vendor
      /\ \A v \in DOMAIN vendors : v \in DOMAIN vendors'
      /\ \A v \in DOMAIN vendors : v # r.vendor => vendors'[v] = vendors[v]
  <2>1. CASE r.op = "create"
    BY <1>0, <1>1, <2>1 DEF VendorStored, SeqInv
  <2>2. CASE r.op # "create"
    BY <1>0, <1>1, <2>2 DEF VendorStored, SeqInv, Column
  <2> QED
    BY <2>1, <2>2
<1>3. ASSUME NEW v \in DOMAIN vendors, vendors[v].state \in Late
      PROVE  v \in DOMAIN vendors' /\ vendors'[v].state \in Late
  BY <1>1, <1>2, <1>3
<1>4. HandlerSeq(h)'
  BY <1>0, <1>2 DEF HandlerSeq, Reading, Generating
<1>5. SeqInv'
  BY <1>0, <1>2, <1>3, <1>4 DEF SeqInv
<1>6. ASSUME NEW v \in DOMAIN vendors, vendors[v].state \in Late
      PROVE  Completed(v)' => Completed(v) /\ CurrentScore(v)' = CurrentScore(v)
  <2>1. CASE r.op \notin {"generate", "answer"}
    <3>1. questionnaires' = questionnaires
      BY <1>0, <2>1 DEF SheetStored
    <3> QED
      BY <3>1 DEF Completed, CurrentScore, Vendor!OfVendor
  <2>2. CASE r.op = "generate"
    <3>1. /\ v # r.vendor /\ questionnaires'[r.q].vendor = r.vendor
          /\ DOMAIN questionnaires' = DOMAIN questionnaires \cup {r.q}
          /\ r.q \notin DOMAIN questionnaires
          /\ \A q \in DOMAIN questionnaires :
                q # r.q => questionnaires'[q] = questionnaires[q]
      BY <1>0, <1>1, <1>6, <2>2 DEF SheetStored, HandlerTypes, Generating
    <3>2. \A q \in DOMAIN questionnaires : questionnaires'[q] = questionnaires[q]
      BY <3>1
    <3>3. \A q \in DOMAIN questionnaires' :
              questionnaires'[q].vendor = v =>
                  q \in DOMAIN questionnaires /\ questionnaires[q].vendor = v
      BY <3>1, <3>2
    <3> QED
      BY <1>0, <3>1, <3>2, <3>3, SheetsOfVendor
  <2>3. CASE r.op = "answer"
    <3>1. /\ r.q \in DOMAIN questionnaires /\ questionnaires[r.q].vendor = r.vendor
          /\ r.q = Max(Vendor!OfVendor(r.vendor))
          /\ questionnaires[r.q].status # "COMPLETED"
      BY <1>1, <2>3 DEF AtHand, Vendor!OfVendor
    <3>2. /\ DOMAIN questionnaires' = DOMAIN questionnaires
          /\ \A q \in DOMAIN questionnaires :
                q # r.q => questionnaires'[q] = questionnaires[q]
          /\ questionnaires'[r.q].vendor = questionnaires[r.q].vendor
          /\ questionnaires'[r.q].status \in {questionnaires[r.q].status, r.qrow.status}
      BY <1>0, <1>1, <2>3 DEF SheetStored, Column
    <3>3. CASE v # r.vendor
      BY <1>0, <3>1, <3>2, <3>3, SheetsOfVendor
    <3>4. CASE v = r.vendor
      <4>1. r.qrow.status # "COMPLETED"
        BY <1>1, <1>6, <2>3, <3>4
      <4>2. Vendor!OfVendor(v)' = Vendor!OfVendor(v)
        BY <3>2 DEF Vendor!OfVendor
      <4>3. PICK mine : mine = Vendor!OfVendor(v)
        OBVIOUS
      <4>4. Max(mine) = r.q /\ Vendor!OfVendor(v)' = mine
        BY <3>1, <3>4, <4>2, <4>3
      <4>5. ~Completed(v)'
        BY <3>1, <3>2, <4>1, <4>4 DEF Completed
      <4> QED
        BY <4>5
    <3> QED
      BY <3>3, <3>4
  <2> QED
    BY <2>1, <2>2, <2>3
<1> QED
  BY <1>3, <1>5, <1>6 DEF Frozen

\* Requests one at a time: every step.
LEMMA SeqVendor ==
    ASSUME IsSeq(topic), SheetInv, SeqInv, ~Overlapping, Vendor!Action
    PROVE  SeqInv' /\ Frozen
<1>1. CASE Idle
  <2>1. UNCHANGED <<vendors, questionnaires, topic, seqs, sess>>
        /\ \A h \in Handlers : pc'[h] = pc[h]
    BY <1>1 DEF Idle, Still
  <2>2. \A h \in Handlers : HandlerSeq(h)'
    BY <2>1 DEF SeqInv, HandlerSeq, Reading, Generating, AtHand, Vendor!OfVendor, Max
  <2> QED
    BY <2>1, <2>2, NothingStored DEF SeqInv
<1>2. ASSUME NEW h \in Handlers, NEW p, NEW s, TurnOf(h, p, s)
      PROVE  SeqInv' /\ Frozen
  <2>1. CASE Begun(h, p, s)
    BY <1>2, <2>1, SeqBegun, NothingStored DEF Begun
  <2>2. CASE Looked(h, p, s) \/ Replied(h, p, s) \/ Stored(h, p, s) \/ Refreshed(h, p, s)
    BY <1>2, <2>2, SeqAnswer, NothingStored DEF Looked, Replied, Stored, Refreshed, Still
  <2>3. CASE Ended(h, p, s) \/ Failed(h, p, s)
    BY <1>2, <2>3, SeqEnded, NothingStored DEF Ended, Failed, Still
  <2>4. CASE Published(h, p, s)
    BY <1>2, <2>4, SeqPublished, NothingStored DEF Published
  <2>5. CASE Committed(h, p, s)
    BY <1>2, <2>5, SeqCommitted
  <2> QED
    BY <1>2, <2>1, <2>2, <2>3, <2>4, <2>5 DEF TurnOf, Does
<1> QED
  BY <1>1, <1>2, VendorSteps

LEMMA AloneInit == Init => AloneInv
<1>1. Init => SeqInv
  BY DEF Init, Vendor!Init, SeqInv, HandlerSeq, Reading, Generating
<1> QED
  BY <1>1 DEF AloneInv

LEMMA AloneNext ==
    LossInv /\ SheetInv /\ AloneInv /\ [Next]_vars => AloneInv' /\ (Overlapping \/ Frozen)
<1> SUFFICES ASSUME LossInv, SheetInv, AloneInv, [Next]_vars
             PROVE  AloneInv' /\ (Overlapping \/ Frozen)
  OBVIOUS
<1>0. Overlapping' <=> Overlapping
  BY DEF Overlapping
<1>1. CASE Overlapping
  BY <1>0, <1>1 DEF AloneInv
<1>2. CASE ~Overlapping /\ VendorAction
  BY <1>2, SeqVendor DEF VendorAction, LossInv, ConsumerInv, AloneInv
<1>3. CASE ~Overlapping /\ UNCHANGED vendorVars
  <2>1. SeqInv /\ UNCHANGED <<vendors, questionnaires, topic, seqs, sess, pc>>
    BY <1>3 DEF AloneInv, vendorVars
  <2>2. SeqInv'
    BY <2>1 DEF SeqInv, HandlerSeq, Reading, Generating, AtHand, Vendor!OfVendor, Max
  <2> QED
    BY <2>1, <2>2, NothingStored DEF AloneInv
<1> QED
  BY <1>1, <1>2, <1>3, VendorOrNot DEF vars

------------------------------------------------------------------------------
(* Types.                                                                   *)

\* Sub-scores read one after the other.
LEMMA AlsoIs ==
    ASSUME NEW S, NEW T, NEW R, NEW f \in [S -> R], NEW g \in [T -> R]
    PROVE  Also(f, g) \in [S \cup T -> R]
BY DEF Also

LEMMA PartIs ==
    ASSUME NEW name, NEW score \in 0..FullScore
    PROVE  Part(name, score) \in [{name} -> 0..FullScore]
BY DEF Part

LEMMA FirstPart ==
    ASSUME NEW S, NEW R, NEW g \in [S -> R]
    PROVE  Also(<<>>, g) \in [S -> R] /\ \A n \in S : Also(<<>>, g)[n] = g[n]
BY DEF Also

\* The parts that are read together.
LEMMA StackPartsAre ==
    ASSUME IsSeq(techStack), \A i \in DOMAIN techStack : techStack[i].component \in Components,
           NEW v
    PROVE  StackParts(v) \in [{"posture", "breach", "threat", "vulnerability"} -> 0..FullScore]
<1>1. PICK stack : stack = StackOf(v)
  OBVIOUS
<1>2. /\ DOMAIN stack \subseteq DOMAIN techStack
      /\ \A i \in DOMAIN stack : stack[i] = techStack[i]
  BY <1>1 DEF StackOf, RestrictValues, Restrict
<1>3. Len(techStack) \in Nat /\ DOMAIN techStack = 1..Len(techStack)
  BY AppendOne
<1>4. IsFiniteSet(1..Len(techStack))
  BY <1>3, FS_Interval
<1>5. IsFiniteSet(DOMAIN stack)
  BY <1>2, <1>3, <1>4, FS_Subset
<1>6. PICK s \in 0..FullScore : s = VulnerabilityScore(StackOf(v), CvesOf)
  BY <1>1, <1>2, <1>5, VulnerabilityRange
<1>7. ExternalParts \in [{"posture", "breach", "threat"} -> 0..FullScore]
  BY FeedRange DEF ExternalParts
<1>8. PICK e, p : e = ExternalParts /\ p = Part("vulnerability", s)
  OBVIOUS
<1>9. Also(e, p) \in [{"posture", "breach", "threat"} \cup {"vulnerability"} -> 0..FullScore]
  BY <1>7, <1>8, AlsoIs, PartIs
<1>10. StackParts(v) = Also(e, p)
  BY <1>6, <1>8 DEF StackParts
<1>11. {"posture", "breach", "threat"} \cup {"vulnerability"}
       = {"posture", "breach", "threat", "vulnerability"}
  OBVIOUS
<1> QED
  BY <1>9, <1>10, <1>11

\* GET /questionnaire/score answers a sub-score.
LEMMA CurrentScoreIs ==
    ASSUME SheetInv, NEW v
    PROVE  CurrentScore(v) \in 0..FullScore
<1>1. Shapes
  BY DEF SheetInv
<1>2. PICK mine : mine = Vendor!OfVendor(v)
  OBVIOUS
<1>3. CASE mine = {}
  BY <1>2, <1>3 DEF CurrentScore, FullScore
<1>4. CASE mine # {}
  <2>1. PICK q : q = Max(mine)
    OBVIOUS
  <2>2. q \in DOMAIN questionnaires
    BY <1>1, <1>2, <1>4, <2>1, NewestIs DEF Vendor!OfVendor
  <2>3. PICK a : a = questionnaires[q].responses
    OBVIOUS
  <2>4. IsFiniteSet(DOMAIN a) /\ \A k \in DOMAIN a : a[k] \in Answer
    BY <1>1, <2>2, <2>3 DEF Shapes, IsSheet
  <2>5. \A k \in DOMAIN a : a[k].score \in {NoScore, 0, 50, 100}
    BY <2>4 DEF Answer
  <2>6. QuestionnaireScore(a) \in 0..FullScore
    BY <2>4, <2>5, QuestionnaireRange
  <2> QED
    BY <1>2, <1>4, <2>1, <2>3, <2>6 DEF CurrentScore
<1> QED
  BY <1>3, <1>4

\* So do the documents of a vendor.
LEMMA EvidenceOfIs ==
    ASSUME IsFiniteSet(documents), NEW v
    PROVE  EvidenceOf(v) \in 0..FullScore
<1>1. PICK D : D = {e \in documents : e.vendor = v}
  OBVIOUS
<1>2. IsFiniteSet(D)
  BY <1>1, FS_Subset
<1>3. PICK ids : ids = {d.id : d \in D}
  OBVIOUS
<1>4. PICK f : f = [d \in D |-> d.id]
  OBVIOUS
<1>5. f \in Surjection(D, ids)
  BY <1>3, <1>4 DEF Surjection
<1>6. IsFiniteSet(ids)
  BY <1>2, <1>5, FS_Surjection
<1>7. EvidenceScore(ids, DocumentType) \in 0..FullScore
  BY <1>6, EvidenceRange
<1> QED
  BY <1>1, <1>3, <1>7 DEF EvidenceOf

\* The row made of six sub-scores fits its columns.
LEMMA ScoreRowTyped ==
    ASSUME NEW s, s.parts \in SubScores
    PROVE  ScoreTyped(ScoreRow(s)) /\ ScoreRow(s).parts = s.parts /\ ScoreRow(s).vendor = s.vendor
<1>1. PICK vrs \in 0..FullScore : vrs = ComputeVrs(s.parts)
  BY VrsRange
<1>f. FullScore \in Nat
  BY DEF FullScore
<1>2. vrs \in Nat
  BY <1>1, <1>f
<1>3. TierForVrs(vrs) \in Tiers
  BY <1>2, TierMonotone
<1>4. ScoreRow(s).parts = s.parts /\ ScoreRow(s).vrs = vrs /\ ScoreRow(s).tier = TierForVrs(vrs)
      /\ ScoreRow(s).vendor = s.vendor
  BY <1>1 DEF ScoreRow
<1> QED
  BY <1>1, <1>3, <1>4 DEF ScoreTyped

\* An assessment counts the controls of its scope.
LEMMA OutcomeTyped ==
    ASSUME NEW framework, NEW overrides, NEW vendor, NEW actor, NEW row,
           row.outcome = Assessment(vendor, framework,
                            EvaluateControls(Library, framework, Baseline, overrides), actor)
    PROVE  AssessmentTyped(row)
<1>1. PICK scope : scope = ResolveScope(Library, framework)
  OBVIOUS
<1>2. scope \subseteq Library /\ IsFiniteSet(Library)
  BY <1>1, CatalogueAssumption DEF ResolveScope
<1>3. IsFiniteSet(scope)
  BY <1>2, FS_Subset
<1>4. PICK results : results = EvaluateControls(Library, framework, Baseline, overrides)
  OBVIOUS
<1>5. DOMAIN results = scope
  BY <1>1, <1>4 DEF EvaluateControls
<1>6. PICK m : m = Summarise(results)
  OBVIOUS
<1>7. m.total = Cardinality(scope) /\ m.compliant + m.partial + m.gap <= m.total
  BY <1>3, <1>5, <1>6, CountsFit
<1>8. row.outcome.summary = m /\ row.outcome.framework = framework
  BY <1>4, <1>6 DEF Assessment
<1> QED
  BY <1>1, <1>7, <1>8 DEF AssessmentTyped

\* What one task does to the types.
LEMMA TypesProceed ==
    ASSUME LossInv, TypeInv, NEW t \in Tasks, NEW r, Proceed(t, r), TaskTyped(r),
           techStack' = techStack,
           \A x \in scores' : x \in scores \/ ScoreTyped(x),
           \A x \in assessments' : x \in assessments \/ AssessmentTyped(x)
    PROVE  TypeInv'
<1>1. task'[t] = r /\ \A u \in Tasks \ {t} : task'[u] = task[u]
  BY DEF LossInv, ConsumerInv, Proceed
<1>2. \A u \in Tasks : TaskTyped(task'[u])
  BY <1>1 DEF TypeInv
<1>3. \A x \in scores' : ScoreTyped(x)
  BY DEF TypeInv
<1>4. \A x \in assessments' : AssessmentTyped(x)
  BY DEF TypeInv
<1>5. IsSeq(techStack') /\ \A i \in DOMAIN techStack' : techStack'[i].component \in Components
  BY DEF TypeInv
<1> QED
  BY <1>2, <1>3, <1>4, <1>5 DEF TypeInv, IsSeq, TaskTyped, ScoreTyped, AssessmentTyped

\* A task that ends or begins has no sub-scores.
LEMMA NoTaskTyped ==
    /\ TaskTyped(NoTask)
    /\ \A t, v, i : TaskTyped(NewTask(t, v, i)) /\ NewTask(t, v, i).parts = <<>>
                    /\ NewTask(t, v, i).vendor = v
<1>1. TaskTyped(NoTask)
  BY DEF TaskTyped, NoTask, Steps
<1>2. ASSUME NEW t, NEW v, NEW i
      PROVE  TaskTyped(NewTask(t, v, i)) /\ NewTask(t, v, i).parts = <<>>
             /\ NewTask(t, v, i).vendor = v
  <2>1. PICK s \in {"questionnaire", "assess"} :
          s = IF t \in Scorers \cup {"risk"} THEN "questionnaire" ELSE "assess"
    OBVIOUS
  <2>2. NewTask(t, v, i) = [NoTask EXCEPT !.step = s, !.vendor = v, !.trigger = i]
    BY <2>1 DEF NewTask
  <2>3. NewTask(t, v, i) = [step |-> s, vendor |-> v, trigger |-> i, at |-> 0, parts |-> <<>>,
                            row |-> <<>>]
    BY <2>2 DEF NoTask
  <2>4. PICK r : r = NewTask(t, v, i)
    OBVIOUS
  <2>5. r.step = s /\ r.parts = <<>> /\ r.vendor = v
    BY <2>3, <2>4
  <2>6. TaskTyped(r)
    BY <2>5 DEF TaskTyped, Steps
  <2> QED
    BY <2>4, <2>5, <2>6
<1> QED
  BY <1>1, <1>2

\* Each step of a computation adds the parts it reads.
LEMMA TypesRead ==
    ASSUME LossInv, SheetInv, TypeInv, NEW t \in Tasks,
           ReadQuestionnaireScore(t) \/ ReadEvidence(t)
    PROVE  TypeInv'
<1>1. UNCHANGED <<techStack, scores, assessments>>
  BY DEF ReadQuestionnaireScore, ReadEvidence, ReadPart, rowVars
<1>2. IsTask(task[t]) /\ TaskTyped(task[t])
  BY TaskInMemory DEF TypeInv
<1>3. 0 \in 0..FullScore
  BY DEF FullScore
<1>4. CASE FinishTask(t)
  BY <1>1, <1>4, NoTaskTyped, TypesProceed DEF FinishTask
<1>5. CASE ReadQuestionnaireScore(t) /\ ~FinishTask(t)
  <2>1. PICK x \in 0..FullScore :
          /\ task[t].step = "questionnaire"
          /\ Proceed(t, [task[t] EXCEPT !.parts = Also(@, Part("questionnaire", x)),
                                        !.step = "stack"])
    <3>1. CurrentScore(task[t].vendor) \in 0..FullScore
      BY CurrentScoreIs
    <3> QED
      BY <1>3, <1>5, <3>1 DEF ReadQuestionnaireScore, ReadPart, AnsweredScore
  <2>2. PICK p : p = Also(task[t].parts, Part("questionnaire", x))
    OBVIOUS
  <2>3. PICK r : r = [task[t] EXCEPT !.parts = p, !.step = "stack"]
    OBVIOUS
  <2>4. Proceed(t, r)
    BY <2>1, <2>2, <2>3
  <2>5. r.step = "stack" /\ r.parts = p
    BY <1>2, <2>3 DEF IsTask
  <2>6. task[t].parts = <<>>
    BY <1>2, <2>1 DEF TaskTyped
  <2>7. p \in [{"questionnaire"} -> 0..FullScore]
    BY <2>2, <2>6, PartIs, FirstPart
  <2>8. TaskTyped(r)
    BY <2>5, <2>7 DEF TaskTyped, Steps
  <2> QED
    BY <1>1, <2>4, <2>8, TypesProceed
<1>6. CASE ReadEvidence(t) /\ ~FinishTask(t)
  <2>1. PICK x \in 0..FullScore :
          /\ task[t].step = "evidence"
          /\ Proceed(t, [task[t] EXCEPT !.parts = Also(@, Part("compliance", x)), !.step = "flush"])
    <3>1. EvidenceOf(task[t].vendor) \in 0..FullScore
      BY EvidenceOfIs DEF SheetInv
    <3> QED
      BY <1>3, <1>6, <3>1 DEF ReadEvidence, ReadPart
  <2>2. PICK p : p = Also(task[t].parts, Part("compliance", x))
    OBVIOUS
  <2>3. PICK r : r = [task[t] EXCEPT !.parts = p, !.step = "flush"]
    OBVIOUS
  <2>4. Proceed(t, r)
    BY <2>1, <2>2, <2>3
  <2>5. r.step = "flush" /\ r.parts = p
    BY <1>2, <2>3 DEF IsTask
  <2>6. task[t].parts \in [Known -> 0..FullScore]
    BY <1>2, <2>1 DEF TaskTyped
  <2>7. p \in [Known \cup {"compliance"} -> 0..FullScore]
    BY <2>2, <2>6, PartIs, AlsoIs
  <2>8. Known \cup {"compliance"} = Categories
    BY CategoriesAre DEF Known
  <2>9. p \in SubScores
    BY <2>7, <2>8 DEF SubScores
  <2>10. TaskTyped(r)
    BY <2>5, <2>9 DEF TaskTyped, Steps
  <2> QED
    BY <1>1, <2>4, <2>10, TypesProceed
<1> QED
  BY <1>4, <1>5, <1>6

LEMMA TypesReadStack ==
    ASSUME LossInv, TypeInv, NEW t \in Tasks, ReadTechStack(t)
    PROVE  TypeInv'
<1>1. UNCHANGED <<techStack, scores, assessments>> /\ task[t].step = "stack"
  BY DEF ReadTechStack, rowVars
<1>2. IsTask(task[t]) /\ TaskTyped(task[t])
  BY TaskInMemory DEF TypeInv
<1>3. PICK n, w, p :
        /\ n = clock["risk"] + 1 /\ w = StackParts(task[t].vendor)
        /\ p = Also(task[t].parts, w)
  OBVIOUS
<1>4. PICK r : r = [task[t] EXCEPT !.at = n, !.step = "evidence", !.parts = p]
  OBVIOUS
<1>5. Proceed(t, r)
  BY <1>3, <1>4 DEF ReadTechStack
<1>6. r.step = "evidence" /\ r.parts = p
  BY <1>2, <1>4 DEF IsTask
<1>7. task[t].parts \in [{"questionnaire"} -> 0..FullScore]
  BY <1>1, <1>2 DEF TaskTyped
<1>8. w \in [{"posture", "breach", "threat", "vulnerability"} -> 0..FullScore]
  BY <1>3, StackPartsAre DEF TypeInv
<1>9. p \in [{"questionnaire"} \cup {"posture", "breach", "threat", "vulnerability"}
              -> 0..FullScore]
  BY <1>3, <1>7, <1>8, AlsoIs
<1>10. {"questionnaire"} \cup {"posture", "breach", "threat", "vulnerability"} = Known
  BY DEF Known
<1>11. p \in [Known -> 0..FullScore]
  BY <1>9, <1>10
<1>12. TaskTyped(r)
  BY <1>6, <1>11 DEF TaskTyped, Steps
<1> QED
  BY <1>1, <1>5, <1>12, TypesProceed

LEMMA TypesFlush ==
    ASSUME LossInv, TypeInv, NEW t \in Tasks, FlushScore(t)
    PROVE  TypeInv'
<1>1. UNCHANGED <<techStack, scores, assessments>> /\ task[t].step = "flush"
  BY DEF FlushScore, rowVars
<1>2. IsTask(task[t]) /\ TaskTyped(task[t])
  BY TaskInMemory DEF TypeInv
<1>3. PICK row : row = ScoreRow(task[t])
  OBVIOUS
<1>4. PICK r : r = [task[t] EXCEPT !.row = row, !.step = "commitScore"]
  OBVIOUS
<1>5. Proceed(t, r)
  BY <1>3, <1>4 DEF FlushScore
<1>6. r.step = "commitScore" /\ r.row = row
  BY <1>2, <1>4 DEF IsTask
<1>7. ScoreTyped(row)
  BY <1>1, <1>2, <1>3, ScoreRowTyped DEF TaskTyped
<1>8. TaskTyped(r)
  BY <1>6, <1>7 DEF TaskTyped, Steps
<1> QED
  BY <1>1, <1>5, <1>8, TypesProceed

\* A step that sets nothing but the step.
LEMMA StepOnly ==
    ASSUME NEW x, IsTask(x), NEW step \in {"update", "anomaly", "verdict"}, NEW r,
           r = [x EXCEPT !.step = step]
    PROVE  TaskTyped(r) /\ r.step = step /\ r.row = x.row /\ r.trigger = x.trigger
           /\ r.vendor = x.vendor
BY DEF IsTask, TaskTyped, Steps

LEMMA TypesCommitScore ==
    ASSUME LossInv, TypeInv, NEW t \in Tasks, CommitScore(t)
    PROVE  TypeInv'
<1>1. UNCHANGED <<techStack, assessments>> /\ scores' = scores \cup {task[t].row}
      /\ task[t].step = "commitScore"
  BY DEF CommitScore
<1>2. IsTask(task[t]) /\ TaskTyped(task[t])
  BY TaskInMemory DEF TypeInv
<1>3. ScoreTyped(task[t].row)
  BY <1>1, <1>2 DEF TaskTyped
<1>4. PICK r : Proceed(t, r) /\ TaskTyped(r)
  <2>1. CASE t \in Scorers
    BY <2>1, NoTaskTyped DEF CommitScore, FinishTask
  <2>2. CASE t \notin Scorers
    <3>1. PICK r : r = [task[t] EXCEPT !.step = "update"]
      OBVIOUS
    <3>2. Proceed(t, r)
      BY <2>2, <3>1 DEF CommitScore
    <3> QED
      BY <1>2, <3>1, <3>2, StepOnly
  <2> QED
    BY <2>1, <2>2
<1> QED
  BY <1>1, <1>3, <1>4, TypesProceed

LEMMA TypesPublish ==
    ASSUME LossInv, TypeInv, NEW t \in Tasks, PublishUpdate(t) \/ PublishAnomaly(t)
    PROVE  TypeInv'
<1>1. UNCHANGED <<techStack, scores, assessments>>
  BY DEF PublishUpdate, PublishAnomaly, Publish, rowVars
<1>2. IsTask(task[t])
  BY TaskInMemory
<1>3. CASE FinishTask(t)
  BY <1>1, <1>3, NoTaskTyped, TypesProceed DEF FinishTask
<1>4. CASE Proceed(t, [task[t] EXCEPT !.step = "anomaly"])
  <2>1. PICK r : r = [task[t] EXCEPT !.step = "anomaly"]
    OBVIOUS
  <2> QED
    BY <1>1, <1>2, <1>4, <2>1, StepOnly, TypesProceed
<1> QED
  BY <1>3, <1>4 DEF PublishUpdate, PublishAnomaly

\* Tasks that begin, end, or assess.
LEMMA TypesRequest ==
    ASSUME LossInv, TypeInv, NEW t \in Tasks, RequestComputation(t) \/ CutOff(t)
    PROVE  TypeInv'
<1>1. UNCHANGED <<techStack, scores, assessments>>
  BY DEF RequestComputation, CutOff, rowVars
<1>2. PICK r : Proceed(t, r) /\ TaskTyped(r)
  BY NoTaskTyped DEF RequestComputation, CutOff, FinishTask
<1> QED
  BY <1>1, <1>2, TypesProceed

LEMMA TypesAssess ==
    ASSUME LossInv, TypeInv, NEW t \in Tasks, NEW framework, NEW overrides, NEW actor,
           RunAssessment(t, framework, overrides, actor)
    PROVE  TypeInv'
<1>1. UNCHANGED <<techStack, scores, assessments>>
  BY DEF RunAssessment, rowVars
<1>2. IsTask(task[t])
  BY TaskInMemory
<1>3. PICK row :
        /\ row.outcome = Assessment(task[t].vendor, framework,
                            EvaluateControls(Library, framework, Baseline, overrides), actor)
        /\ Proceed(t, [task[t] EXCEPT !.step = "commitAssessment", !.row = row])
  <2> DEFINE results == EvaluateControls(Library, framework, Baseline, overrides)
  <2>1. PICK row : row = [outcome |-> Assessment(task[t].vendor, framework, results, actor),
                          results |-> ControlResults(results),
                          at |-> clock'["compliance"], trigger |-> task[t].trigger]
    OBVIOUS
  <2>2. Proceed(t, [task[t] EXCEPT !.step = "commitAssessment", !.row = row])
    BY <2>1 DEF RunAssessment
  <2> QED
    BY <2>1, <2>2
<1>4. PICK r : r = [task[t] EXCEPT !.step = "commitAssessment", !.row = row]
  OBVIOUS
<1>5. Proceed(t, r)
  BY <1>3, <1>4
<1>6. r.step = "commitAssessment" /\ r.row = row
  BY <1>2, <1>4 DEF IsTask
<1>7. AssessmentTyped(row)
  BY <1>3, OutcomeTyped
<1>8. TaskTyped(r)
  BY <1>6, <1>7 DEF TaskTyped, Steps
<1> QED
  BY <1>1, <1>5, <1>8, TypesProceed

LEMMA TypesCompliance ==
    ASSUME LossInv, TypeInv, NEW t \in Tasks, ComplianceStep(t)
    PROVE  TypeInv'
<1>1. IsTask(task[t]) /\ TaskTyped(task[t])
  BY TaskInMemory DEF TypeInv
<1>2. CASE CommitAssessment(t)
  <2>1. UNCHANGED <<techStack, scores>> /\ assessments' = assessments \cup {task[t].row}
        /\ task[t].step = "commitAssessment"
    BY <1>2 DEF CommitAssessment
  <2>2. AssessmentTyped(task[t].row)
    BY <1>1, <2>1 DEF TaskTyped
  <2>3. PICK r : r = [task[t] EXCEPT !.step = "verdict"]
    OBVIOUS
  <2>4. Proceed(t, r)
    BY <1>2, <2>3 DEF CommitAssessment
  <2>5. TaskTyped(r)
    BY <1>1, <2>3, StepOnly
  <2> QED
    BY <2>1, <2>2, <2>4, <2>5, TypesProceed
<1>3. CASE PublishAssessment(t)
  <2>1. UNCHANGED <<techStack, scores, assessments>> /\ Proceed(t, NoTask)
    BY <1>3 DEF PublishAssessment, FinishTask, rowVars
  <2> QED
    BY <2>1, NoTaskTyped, TypesProceed
<1> QED
  BY <1>2, <1>3 DEF ComplianceStep

LEMMA TypesFetch ==
    ASSUME LossInv, TypeInv, NEW g \in Groups, Fetch(g) \/ Rejoin(g)
    PROVE  TypeInv'
<1>1. UNCHANGED <<techStack, scores, assessments>> /\ g \in Tasks
  BY GroupsAreTasks DEF Fetch, Rejoin, rowVars
<1>2. UNCHANGED task \/ \E r : Proceed(g, r) /\ TaskTyped(r)
  BY NoTaskTyped DEF Fetch, Rejoin, FinishTask
<1>3. CASE UNCHANGED task
  BY <1>1, <1>3 DEF TypeInv, IsSeq, TaskTyped, ScoreTyped, AssessmentTyped
<1> QED
  BY <1>1, <1>2, <1>3, TypesProceed

\* The tech stack grows by components that have CVE lists.
LEMMA TypesStack ==
    ASSUME TypeInv, AddTechStackComponent
    PROVE  TypeInv'
<1>1. PICK e : techStack' = Append(techStack, e) /\ e.component \in Components
  BY DEF AddTechStackComponent
<1>2. UNCHANGED <<task, scores, assessments>>
  BY DEF AddTechStackComponent
<1>3. /\ IsSeq(techStack') /\ Len(techStack) \in Nat /\ DOMAIN techStack = 1..Len(techStack)
      /\ DOMAIN techStack' = 1..Len(techStack) + 1
      /\ \A i \in 1..Len(techStack) : techStack'[i] = techStack[i]
      /\ techStack'[Len(techStack) + 1] = e
  BY <1>1, AppendOne DEF TypeInv
<1>4. \A i \in DOMAIN techStack' : techStack'[i].component \in Components
  <2>1. TAKE i \in DOMAIN techStack'
  <2>2. i \in DOMAIN techStack \/ i = Len(techStack) + 1
    BY <1>3
  <2> QED
    BY <1>1, <1>3, <2>2 DEF TypeInv
<1> QED
  BY <1>2, <1>3, <1>4 DEF TypeInv, TaskTyped, ScoreTyped, AssessmentTyped

LEMMA TypesInit == Init => TypeInv
<1> SUFFICES ASSUME Init PROVE TypeInv
  OBVIOUS
<1>1. techStack = <<>> /\ scores = {} /\ assessments = {} /\ task = [t \in Tasks |-> NoTask]
  BY DEF Init
<1>2. IsSeq(techStack)
  BY <1>1 DEF IsSeq
<1> QED
  BY <1>1, <1>2, NoTaskTyped DEF TypeInv

\* The types are inductive, given what vendor-service stores.
LEMMA TypesNext == LossInv /\ SheetInv /\ TypeInv /\ [Next]_vars => TypeInv'
<1> SUFFICES ASSUME LossInv, SheetInv, TypeInv, [Next]_vars PROVE TypeInv'
  OBVIOUS
<1>t. /\ "risk" \in Tasks /\ "compliance" \in Tasks /\ "risk" \in Groups
      /\ "compliance" \in Groups
  BY DEF Tasks, Groups
<1>1. CASE VendorAction \/ Quiescent \/ UNCHANGED vars
  <2>1. UNCHANGED <<task, techStack, scores, assessments>>
    BY <1>1 DEF VendorAction, Quiescent, vars, serviceVars, rowVars
  <2> QED
    BY <2>1 DEF TypeInv, IsSeq, TaskTyped, ScoreTyped, AssessmentTyped
<1>2. ASSUME NEW t \in Tasks, RiskStep(t) PROVE TypeInv'
  BY <1>2, TypesRead, TypesReadStack, TypesFlush, TypesCommitScore DEF RiskStep
<1>3. CASE ConsumeRisk
  BY <1>t, <1>2, <1>3, TypesFetch, TypesPublish DEF ConsumeRisk
<1>4. CASE ConsumeCompliance
  BY <1>t, <1>4, TypesFetch, TypesAssess, TypesCompliance DEF ConsumeCompliance, AssessBaseline
<1>5. ASSUME NEW g \in Groups, Rejoin(g) PROVE TypeInv'
  BY <1>5, TypesFetch
<1>6. ASSUME NEW t \in Scorers, RequestComputation(t) \/ RiskStep(t) \/ CutOff(t)
      PROVE  TypeInv'
  BY <1>2, <1>6, TypesRequest, RequestsAreNot
<1>7. ASSUME NEW t \in Assessors,
             RequestComputation(t) \/ CreateAssessment(t) \/ ComplianceStep(t) \/ CutOff(t)
      PROVE  TypeInv'
  BY <1>7, TypesRequest, TypesAssess, TypesCompliance, RequestsAreNot DEF CreateAssessment
<1>8. CASE AddTechStackComponent
  BY <1>8, TypesStack
<1> QED
  BY <1>1, <1>3, <1>4, <1>5, <1>6, <1>7, <1>8 DEF Next

LEMMA TypesAre == ASSUME LossInv, TypeInv PROVE TypeOK
<1>1. Len(topic) \in Nat
  BY AppendOne DEF LossInv, ConsumerInv
<1>2. /\ position \in [Groups -> Nat] /\ committed \in [Groups -> Nat]
      /\ \A g \in Groups : committed[g] <= position[g] /\ position[g] <= Len(topic)
  BY DEF LossInv, ConsumerInv, Positions
<1>3. \A g \in Groups : position[g] \in 0..Len(topic) /\ committed[g] \in 0..Len(topic)
  BY <1>1, <1>2
<1>4. position \in [Groups -> 0..Len(topic)] /\ committed \in [Groups -> 0..Len(topic)]
  BY <1>2, <1>3
<1> QED
  BY <1>4 DEF TypeOK, TypeInv, TaskTyped, ScoreTyped, AssessmentTyped, SubScores

\* Types, for any number of vendors, requests, computations and feeds: every row has its
\* six sub-scores in the range of their columns, and every assessment counts each
\* control of its scope once.
THEOREM AssessmentTypes == Spec => []TypeOK
<1>1. LossInv /\ SheetInv /\ TypeInv => TypeOK
  BY TypesAre
<1>2. Init => LossInv /\ SheetInv /\ TypeInv
  BY LossInit, SheetsInit, TypesInit
<1>3. LossInv /\ SheetInv /\ TypeInv /\ [Next]_vars => (LossInv /\ SheetInv /\ TypeInv)'
  BY LossNext, SheetsNext, TypesNext
<1> QED
  BY <1>1, <1>2, <1>3, PTL DEF Spec

------------------------------------------------------------------------------
(* Freshness.                                                               *)

\* A sub-score that was read is not read again.
LEMMA AlsoKeeps ==
    ASSUME NEW f, NEW g, NEW n \in DOMAIN f
    PROVE  Also(f, g)[n] = f[n]
BY DEF Also

\* What is fresh stays so in a step of the consumers and the requests.
LEMMA FreshStays ==
    ASSUME UNCHANGED vendorVars, faults' = 0 => faults = 0
    PROVE  /\ \A v, parts : Fresh(v, parts)' <=> Fresh(v, parts)
           /\ \A r : Requested(r)' <=> Requested(r)
           /\ Undisturbed' => Undisturbed
           /\ \A t, r : TaskFresh(t, r) => TaskFresh(t, r)'
           /\ \A r : RowFresh(r) => RowFresh(r)'
<1>1. UNCHANGED <<questionnaires, topic>>
  BY DEF vendorVars
<1>2. \A v, parts : Fresh(v, parts)' <=> Fresh(v, parts)
  BY <1>1 DEF Fresh, Completed, CurrentScore, Vendor!OfVendor, Max
<1>3. \A r : Requested(r)' <=> Requested(r)
  BY <1>1 DEF Requested, Triggers, TriggerStates
<1>4. Undisturbed' => Undisturbed
  BY DEF Undisturbed, Overlapping
<1>5. ASSUME NEW t, NEW r, TaskFresh(t, r) PROVE TaskFresh(t, r)'
  BY <1>2, <1>3, <1>4, <1>5 DEF TaskFresh
<1>6. ASSUME NEW r, RowFresh(r) PROVE RowFresh(r)'
  BY <1>2, <1>3, <1>4, <1>6 DEF RowFresh
<1> QED
  BY <1>2, <1>3, <1>4, <1>5, <1>6

\* What one task does to the freshness of tasks and rows.
LEMMA FreshProceed ==
    ASSUME LossInv, FreshInv, UNCHANGED vendorVars, faults' = 0 => faults = 0,
           NEW t \in Tasks, NEW r, Proceed(t, r), TaskFresh(t, r)',
           \A x \in scores' : x \in scores \/ RowFresh(x)
    PROVE  FreshInv'
<1>1. task'[t] = r /\ \A u \in Tasks \ {t} : task'[u] = task[u]
  BY DEF LossInv, ConsumerInv, Proceed
<1>2. ASSUME NEW u \in Tasks PROVE TaskFresh(u, task[u])'
  <2>1. CASE u = t
    <3>1. task'[u] = r
      BY <1>1, <2>1
    <3> QED
      BY <2>1, <3>1 DEF TaskFresh
  <2>2. CASE u # t
    <3>1. task'[u] = task[u] /\ TaskFresh(u, task[u])
      BY <1>1, <2>2 DEF FreshInv
    <3>2. PICK x : x = task[u]
      OBVIOUS
    <3>3. TaskFresh(u, x)'
      BY <3>1, <3>2, FreshStays
    <3> QED
      BY <3>1, <3>2, <3>3 DEF TaskFresh
  <2> QED
    BY <2>1, <2>2
<1>3. ASSUME NEW x \in scores' PROVE RowFresh(x)'
  <2>1. RowFresh(x)
    BY <1>3 DEF FreshInv
  <2> QED
    BY <2>1, FreshStays
<1> QED
  BY <1>2, <1>3 DEF FreshInv

\* A task that has read nothing has nothing stale.
LEMMA NothingFresh ==
    ASSUME NEW t, NEW r, r.step \notin {"stack", "evidence", "flush", "commitScore"},
           t \in Scorers => r.trigger = 0, t = "risk" /\ r.step # "idle" => Requested(r)
    PROVE  TaskFresh(t, r)
BY DEF TaskFresh

LEMMA NoTaskFresh ==
    ASSUME UNCHANGED vendorVars, faults' = 0 => faults = 0, NEW t
    PROVE  TaskFresh(t, NoTask)'
<1>1. PICK r : r = NoTask
  OBVIOUS
<1>2. r.step = "idle" /\ r.trigger = 0
  BY <1>1 DEF NoTask
<1>3. TaskFresh(t, r)
  BY <1>2, NothingFresh
<1>4. TaskFresh(t, r)'
  BY <1>3, FreshStays
<1> QED
  BY <1>1, <1>4

\* The questionnaire's score is fresh when it is read, or a fault is counted.
LEMMA FreshRead ==
    ASSUME LossInv, TypeInv, FreshInv, NEW t \in Tasks,
           ReadQuestionnaireScore(t) \/ ReadEvidence(t)
    PROVE  FreshInv'
<1>0. /\ UNCHANGED vendorVars /\ scores' = scores /\ faults' \in {faults, faults + 1}
      /\ faults \in Nat
  BY DEF ReadQuestionnaireScore, ReadEvidence, ReadPart, Fault, rowVars, LossInv
<1>1. faults' = 0 => faults = 0
  BY <1>0
<1>2. IsTask(task[t]) /\ TaskTyped(task[t]) /\ TaskFresh(t, task[t])
  BY TaskInMemory DEF TypeInv, FreshInv
<1>3. CASE FinishTask(t)
  BY <1>0, <1>1, <1>3, NoTaskFresh, FreshProceed DEF FinishTask
<1>4. CASE ReadQuestionnaireScore(t) /\ ~FinishTask(t)
  <2>1. PICK x :
          /\ task[t].step = "questionnaire"
          /\ Proceed(t, [task[t] EXCEPT !.parts = Also(@, Part("questionnaire", x)),
                                        !.step = "stack"])
          /\ faults' = 0 => x = CurrentScore(task[t].vendor)
    <3>1. faults + 1 # 0
      BY <1>0
    <3> QED
      BY <1>4, <3>1 DEF ReadQuestionnaireScore, ReadPart, AnsweredScore, Fault
  <2>2. PICK p : p = Also(task[t].parts, Part("questionnaire", x))
    OBVIOUS
  <2>3. PICK r : r = [task[t] EXCEPT !.parts = p, !.step = "stack"]
    OBVIOUS
  <2>4. Proceed(t, r)
    BY <2>1, <2>2, <2>3
  <2>5. r.step = "stack" /\ r.parts = p /\ r.trigger = task[t].trigger /\ r.vendor = task[t].vendor
    BY <1>2, <2>3 DEF IsTask
  <2>6. p["questionnaire"] = x
    <3>1. task[t].parts = <<>>
      BY <1>2, <2>1 DEF TaskTyped
    <3> QED
      BY <2>2, <3>1 DEF Also, Part
  <2>7. faults' = 0 => Fresh(r.vendor, r.parts)
    BY <2>1, <2>5, <2>6 DEF Fresh
  <2>8. t = "risk" => Requested(r)
    BY <1>2, <2>1, <2>5 DEF TaskFresh, Requested
  <2>9. TaskFresh(t, r)'
    <3>1. (t \in Scorers => r.trigger = 0) /\ (t = "risk" => Requested(r)')
      BY <1>0, <1>1, <1>2, <2>5, <2>8, FreshStays DEF TaskFresh
    <3>2. Undisturbed' => Fresh(r.vendor, r.parts)'
      <4>1. SUFFICES ASSUME Undisturbed' PROVE Fresh(r.vendor, r.parts)'
        OBVIOUS
      <4>2. faults' = 0
        BY <4>1 DEF Undisturbed
      <4> QED
        BY <1>0, <1>1, <2>7, <4>2, FreshStays
    <3> QED
      BY <2>5, <3>1, <3>2 DEF TaskFresh
  <2> QED
    BY <1>0, <1>1, <2>4, <2>9, FreshProceed
<1>5. CASE ReadEvidence(t) /\ ~FinishTask(t)
  <2>1. PICK x :
          /\ task[t].step = "evidence"
          /\ Proceed(t, [task[t] EXCEPT !.parts = Also(@, Part("compliance", x)), !.step = "flush"])
    BY <1>5 DEF ReadEvidence, ReadPart
  <2>2. PICK p : p = Also(task[t].parts, Part("compliance", x))
    OBVIOUS
  <2>3. PICK r : r = [task[t] EXCEPT !.parts = p, !.step = "flush"]
    OBVIOUS
  <2>4. Proceed(t, r)
    BY <2>1, <2>2, <2>3
  <2>5. r.step = "flush" /\ r.parts = p /\ r.trigger = task[t].trigger /\ r.vendor = task[t].vendor
    BY <1>2, <2>3 DEF IsTask
  <2>6. p["questionnaire"] = task[t].parts["questionnaire"]
    <3>1. "questionnaire" \in DOMAIN task[t].parts
      BY <1>2, <2>1 DEF TaskTyped, Known
    <3> QED
      BY <2>2, <3>1, AlsoKeeps
  <2>7. TaskFresh(t, r)
    BY <1>2, <2>1, <2>5, <2>6 DEF TaskFresh, Requested, Fresh
  <2>8. TaskFresh(t, r)'
    BY <1>0, <1>1, <2>7, FreshStays
  <2> QED
    BY <1>0, <1>1, <2>4, <2>8, FreshProceed
<1> QED
  BY <1>3, <1>4, <1>5

\* It is kept by the other reads, in the row, and in the commit.
LEMMA FreshReadStack ==
    ASSUME LossInv, TypeInv, FreshInv, NEW t \in Tasks, ReadTechStack(t)
    PROVE  FreshInv'
<1>1. /\ UNCHANGED vendorVars /\ scores' = scores /\ faults' = faults /\ task[t].step = "stack"
  BY DEF ReadTechStack, rowVars
<1>2. IsTask(task[t]) /\ TaskTyped(task[t]) /\ TaskFresh(t, task[t])
  BY TaskInMemory DEF TypeInv, FreshInv
<1>3. PICK n, w, p :
        /\ n = clock["risk"] + 1 /\ w = StackParts(task[t].vendor)
        /\ p = Also(task[t].parts, w)
  OBVIOUS
<1>4. PICK r : r = [task[t] EXCEPT !.at = n, !.step = "evidence", !.parts = p]
  OBVIOUS
<1>5. Proceed(t, r)
  BY <1>3, <1>4 DEF ReadTechStack
<1>6. /\ r.step = "evidence" /\ r.parts = p /\ r.trigger = task[t].trigger
      /\ r.vendor = task[t].vendor
  BY <1>2, <1>4 DEF IsTask
<1>7. p["questionnaire"] = task[t].parts["questionnaire"]
  <2>1. "questionnaire" \in DOMAIN task[t].parts
    BY <1>1, <1>2 DEF TaskTyped
  <2> QED
    BY <1>3, <2>1, AlsoKeeps
<1>8. TaskFresh(t, r)
  BY <1>1, <1>2, <1>6, <1>7 DEF TaskFresh, Requested, Fresh
<1>9. TaskFresh(t, r)'
  BY <1>1, <1>8, FreshStays
<1> QED
  BY <1>1, <1>5, <1>9, FreshProceed

LEMMA FreshFlush ==
    ASSUME LossInv, TypeInv, FreshInv, NEW t \in Tasks, FlushScore(t)
    PROVE  FreshInv'
<1>1. UNCHANGED vendorVars /\ scores' = scores /\ faults' = faults /\ task[t].step = "flush"
  BY DEF FlushScore, rowVars
<1>2. IsTask(task[t]) /\ TaskTyped(task[t]) /\ TaskFresh(t, task[t])
  BY TaskInMemory DEF TypeInv, FreshInv
<1>3. PICK row : row = ScoreRow(task[t])
  OBVIOUS
<1>4. PICK r : r = [task[t] EXCEPT !.row = row, !.step = "commitScore"]
  OBVIOUS
<1>5. Proceed(t, r)
  BY <1>3, <1>4 DEF FlushScore
<1>6. /\ r.step = "commitScore" /\ r.row = row /\ r.trigger = task[t].trigger
      /\ r.vendor = task[t].vendor
  BY <1>2, <1>4 DEF IsTask
<1>7. row.parts = task[t].parts /\ row.vendor = task[t].vendor
  BY <1>1, <1>2, <1>3, ScoreRowTyped DEF TaskTyped
<1>8. TaskFresh(t, r)
  BY <1>1, <1>2, <1>6, <1>7 DEF TaskFresh, Requested
<1>9. TaskFresh(t, r)'
  BY <1>1, <1>8, FreshStays
<1> QED
  BY <1>1, <1>5, <1>9, FreshProceed

LEMMA FreshCommit ==
    ASSUME LossInv, FreshInv, NEW t \in Scorers \cup {"risk"}, CommitScore(t)
    PROVE  FreshInv'
<1>t. t \in Tasks
  BY DEF Tasks, Groups
<1>1. /\ UNCHANGED vendorVars /\ faults' = faults /\ scores' = scores \cup {task[t].row}
      /\ task[t].step = "commitScore"
  BY DEF CommitScore
<1>2. IsTask(task[t]) /\ TaskFresh(t, task[t]) /\ task[t].row.trigger = task[t].trigger
  BY <1>1, <1>t, TaskInMemory DEF FreshInv, TaskOK
<1>3. RowFresh(task[t].row)
  <2>1. CASE t \in Scorers
    BY <1>2, <2>1 DEF TaskFresh, RowFresh
  <2>2. CASE t = "risk"
    <3>1. Requested(task[t]) /\ task[t].row.vendor = task[t].vendor
      BY <1>1, <1>2, <2>2 DEF TaskFresh
    <3>2. Requested(task[t].row)
      BY <1>2, <3>1 DEF Requested
    <3>3. Undisturbed => Fresh(task[t].row.vendor, task[t].row.parts)
      BY <1>1, <1>2, <2>2, <3>1 DEF TaskFresh
    <3> QED
      BY <3>2, <3>3 DEF RowFresh
  <2> QED
    BY <2>1, <2>2
<1>4. PICK r : Proceed(t, r) /\ TaskFresh(t, r)'
  <2>1. CASE t \in Scorers
    BY <1>1, <2>1, NoTaskFresh DEF CommitScore, FinishTask
  <2>2. CASE t \notin Scorers
    <3>1. PICK r : r = [task[t] EXCEPT !.step = "update"]
      OBVIOUS
    <3>2. Proceed(t, r)
      BY <2>2, <3>1 DEF CommitScore
    <3>3. r.step = "update" /\ r.trigger = task[t].trigger /\ r.vendor = task[t].vendor
      BY <1>2, <3>1, StepOnly
    <3>4. t = "risk" => Requested(r)
      BY <1>1, <1>2, <3>3 DEF TaskFresh, Requested
    <3>5. TaskFresh(t, r)
      BY <2>2, <3>3, <3>4, NothingFresh
    <3> QED
      BY <1>1, <3>2, <3>5, FreshStays
  <2> QED
    BY <2>1, <2>2
<1> QED
  BY <1>t, <1>1, <1>3, <1>4, FreshProceed

\* Publishing changes neither rows nor what was read.
LEMMA FreshPublish ==
    ASSUME LossInv, FreshInv, NEW t \in Tasks, t \notin Scorers,
           PublishUpdate(t) \/ PublishAnomaly(t)
    PROVE  FreshInv'
<1>0. /\ UNCHANGED vendorVars /\ scores' = scores /\ faults' \in {faults, faults + 1}
      /\ faults \in Nat /\ task[t].step \in {"update", "anomaly"}
  BY DEF PublishUpdate, PublishAnomaly, Publish, Fault, rowVars, LossInv
<1>1. faults' = 0 => faults = 0
  BY <1>0
<1>2. IsTask(task[t]) /\ TaskFresh(t, task[t])
  BY TaskInMemory DEF FreshInv
<1>3. CASE FinishTask(t)
  BY <1>0, <1>1, <1>3, NoTaskFresh, FreshProceed DEF FinishTask
<1>4. CASE Proceed(t, [task[t] EXCEPT !.step = "anomaly"])
  <2>1. PICK r : r = [task[t] EXCEPT !.step = "anomaly"]
    OBVIOUS
  <2>2. r.step = "anomaly" /\ r.trigger = task[t].trigger /\ r.vendor = task[t].vendor
    BY <1>2, <2>1, StepOnly
  <2>3. t = "risk" => Requested(r)
    BY <1>0, <1>2, <2>2 DEF TaskFresh, Requested
  <2>4. TaskFresh(t, r)'
    BY <1>0, <1>1, <2>2, <2>3, NothingFresh, FreshStays
  <2> QED
    BY <1>0, <1>1, <1>4, <2>1, <2>4, FreshProceed
<1> QED
  BY <1>3, <1>4 DEF PublishUpdate, PublishAnomaly

\* The other steps of a task that no event of the risk consumer asked for.
LEMMA FreshOther ==
    ASSUME LossInv, FreshInv, NEW t \in Tasks, NEW r, Proceed(t, r),
           UNCHANGED vendorVars, faults' = 0 => faults = 0, scores' = scores,
           t # "risk", t \in Scorers => r.trigger = 0,
           r.step \notin {"stack", "evidence", "flush", "commitScore"}
    PROVE  FreshInv'
<1>1. TaskFresh(t, r)
  BY NothingFresh
<1>2. TaskFresh(t, r)'
  BY <1>1, FreshStays
<1> QED
  BY <1>2, FreshProceed

\* An event taken up asks about its vendor.
LEMMA FreshFetch ==
    ASSUME LossInv, FreshInv, NEW g \in Groups, Fetch(g)
    PROVE  FreshInv'
<1>1. /\ UNCHANGED vendorVars /\ scores' = scores /\ faults' = faults /\ g \in Tasks
      /\ position[g] < Len(topic) /\ position' = [position EXCEPT ![g] = @ + 1]
  BY GroupsAreTasks DEF Fetch, rowVars
<1>2. PICK n : n = position[g] + 1
  OBVIOUS
<1>3. position[g] \in Nat /\ position'[g] = n
  BY <1>1, <1>2 DEF LossInv, ConsumerInv, Positions
<1>4. n \in DOMAIN topic
  <2>1. Len(topic) \in Nat /\ DOMAIN topic = 1..Len(topic)
    BY AppendOne DEF LossInv, ConsumerInv
  <2> QED
    BY <1>1, <1>2, <1>3, <2>1
<1>5. CASE Triggers(g, n)' /\ Proceed(g, NewTask(g, topic[n].vendor, n))
  <2>1. PICK r : r = NewTask(g, topic[n].vendor, n)
    OBVIOUS
  <2>2. r.trigger = n /\ r.vendor = topic[n].vendor /\ r.step \in {"questionnaire", "assess"}
    BY <2>1, NewTaskOK, NoTaskTyped
  <2>3. Triggers(g, n)
    BY <1>1, <1>5 DEF Triggers, TriggerStates, vendorVars
  <2>4. g = "risk" => Requested(r)
    BY <1>4, <2>2, <2>3 DEF Requested
  <2>5. g \notin Scorers
    BY TaskAssumption
  <2>6. TaskFresh(g, r)
    BY <2>2, <2>4, <2>5, NothingFresh
  <2>7. TaskFresh(g, r)'
    BY <1>1, <2>6, FreshStays
  <2> QED
    BY <1>1, <1>5, <2>1, <2>7, FreshProceed
<1>6. CASE UNCHANGED task
  <2>1. ASSUME NEW t \in Tasks PROVE TaskFresh(t, task[t])'
    <3>1. PICK x : x = task[t] /\ TaskFresh(t, x)
      BY DEF FreshInv
    <3>2. TaskFresh(t, x)'
      BY <1>1, <3>1, FreshStays
    <3> QED
      BY <1>6, <3>1, <3>2
  <2>2. \A r \in scores' : RowFresh(r)'
    BY <1>1, FreshStays DEF FreshInv
  <2> QED
    BY <2>1, <2>2 DEF FreshInv
<1>7. \/ Triggers(g, n) /\ Proceed(g, NewTask(g, topic[n].vendor, n))
      \/ UNCHANGED task
  BY <1>3 DEF Fetch
<1>8. Triggers(g, n) => Triggers(g, n)'
  BY <1>1 DEF Triggers, TriggerStates, vendorVars
<1> QED
  BY <1>5, <1>6, <1>7, <1>8

\* Tasks that begin, end, or assess.
LEMMA FreshRejoin ==
    ASSUME LossInv, FreshInv, NEW g \in Groups, Rejoin(g)
    PROVE  FreshInv'
<1>1. /\ UNCHANGED vendorVars /\ scores' = scores /\ faults' = faults + 1 /\ faults \in Nat
      /\ Proceed(g, NoTask) /\ g \in Tasks
  BY GroupsAreTasks DEF Rejoin, Fault, FinishTask, rowVars, LossInv
<1>2. faults' # 0
  BY <1>1
<1> QED
  BY <1>1, <1>2, NoTaskFresh, FreshProceed

LEMMA FreshRequest ==
    ASSUME LossInv, FreshInv, NEW t \in Scorers \cup Assessors,
           RequestComputation(t) \/ CutOff(t)
    PROVE  FreshInv'
<1>1. UNCHANGED vendorVars /\ scores' = scores /\ faults' = faults
  BY DEF RequestComputation, CutOff, rowVars
<1>2. t \in Tasks /\ t # "risk"
  BY RequestsAreNot DEF Groups
<1>3. PICK r : Proceed(t, r) /\ r.trigger = 0 /\ r.step \in {"idle", "questionnaire", "assess"}
  BY NewTaskOK DEF RequestComputation, CutOff, FinishTask
<1> QED
  BY <1>1, <1>2, <1>3, FreshOther

LEMMA FreshAssess ==
    ASSUME LossInv, FreshInv, NEW t \in Assessors \cup {"compliance"},
           NEW framework, NEW overrides, NEW actor,
           RunAssessment(t, framework, overrides, actor)
    PROVE  FreshInv'
<1>1. t \in Tasks /\ t # "risk" /\ t \notin Scorers
  BY RequestsAreNot, TaskAssumption DEF Tasks, Groups
<1>2. UNCHANGED vendorVars /\ scores' = scores /\ faults' = faults
  BY DEF RunAssessment, rowVars
<1>3. PICK row : Proceed(t, [task[t] EXCEPT !.step = "commitAssessment", !.row = row])
  BY DEF RunAssessment
<1>4. PICK r : r = [task[t] EXCEPT !.step = "commitAssessment", !.row = row]
  OBVIOUS
<1>5. IsTask(task[t])
  BY <1>1, TaskInMemory
<1>6. r.step = "commitAssessment"
  BY <1>4, <1>5 DEF IsTask
<1> QED
  BY <1>1, <1>2, <1>3, <1>4, <1>6, FreshOther

LEMMA FreshCompliance ==
    ASSUME LossInv, FreshInv, NEW t \in Assessors \cup {"compliance"}, ComplianceStep(t)
    PROVE  FreshInv'
<1>1. t \in Tasks /\ t # "risk" /\ t \notin Scorers
  BY RequestsAreNot, TaskAssumption DEF Tasks, Groups
<1>2. IsTask(task[t])
  BY <1>1, TaskInMemory
<1>3. CASE CommitAssessment(t)
  <2>1. UNCHANGED vendorVars /\ scores' = scores /\ faults' = faults
    BY <1>3 DEF CommitAssessment
  <2>2. PICK r : r = [task[t] EXCEPT !.step = "verdict"]
    OBVIOUS
  <2>3. Proceed(t, r) /\ r.step = "verdict"
    BY <1>2, <1>3, <2>2, StepOnly DEF CommitAssessment
  <2> QED
    BY <1>1, <2>1, <2>3, FreshOther
<1>4. CASE PublishAssessment(t)
  <2>1. /\ UNCHANGED vendorVars /\ scores' = scores /\ faults' \in {faults, faults + 1}
        /\ faults \in Nat /\ Proceed(t, NoTask)
    BY <1>4 DEF PublishAssessment, FinishTask, Fault, rowVars, LossInv
  <2>2. faults' = 0 => faults = 0
    BY <2>1
  <2> QED
    BY <1>1, <2>1, <2>2, NoTaskFresh, FreshProceed
<1> QED
  BY <1>3, <1>4 DEF ComplianceStep

\* What an event asked about keeps its freshness while vendor-service goes on.
LEMMA FreshVendor ==
    ASSUME LossInv, AloneInv, Overlapping \/ Frozen, FreshInv, VendorAction
    PROVE  FreshInv'
<1>1. /\ task' = task /\ scores' = scores /\ faults' = faults
      /\ topic' = topic \/ \E e : topic' = Append(topic, e)
  BY VendorAppends DEF VendorAction, serviceVars, rowVars
<1>2. \A i \in DOMAIN topic : i \in DOMAIN topic' /\ topic'[i] = topic[i]
  <2>1. CASE topic' = topic
    BY <2>1
  <2>2. ASSUME NEW e, topic' = Append(topic, e)
        PROVE  \A i \in DOMAIN topic : i \in DOMAIN topic' /\ topic'[i] = topic[i]
    <3>1. /\ Len(topic) \in Nat /\ DOMAIN topic = 1..Len(topic)
          /\ DOMAIN topic' = 1..Len(topic) + 1
          /\ \A i \in 1..Len(topic) : topic'[i] = topic[i]
      BY <2>2, AppendOne DEF LossInv, ConsumerInv
    <3> QED
      BY <3>1
  <2> QED
    BY <1>1, <2>1, <2>2
<1>3. \A r : Requested(r) => Requested(r)'
  BY <1>2 DEF Requested, Triggers, TriggerStates
<1>4. Undisturbed' <=> Undisturbed
  BY <1>1 DEF Undisturbed, Overlapping
<1>5. ASSUME Undisturbed, NEW r, Requested(r), NEW parts, Fresh(r.vendor, parts)
      PROVE  Fresh(r.vendor, parts)'
  <2>1. SeqInv /\ Frozen
    BY <1>5 DEF Undisturbed, AloneInv
  <2>2. topic[r.trigger].to \in Late
    BY <1>5 DEF Requested, Triggers, TriggerStates, Late
  <2>3. r.vendor \in DOMAIN vendors /\ vendors[r.vendor].state \in Late
    BY <1>5, <2>1, <2>2 DEF SeqInv, Requested
  <2>4. Completed(r.vendor)' => Completed(r.vendor)
                                /\ CurrentScore(r.vendor)' = CurrentScore(r.vendor)
    BY <2>1, <2>3 DEF Frozen
  <2> QED
    BY <1>5, <2>4 DEF Fresh
<1>6. ASSUME NEW t \in Tasks PROVE TaskFresh(t, task[t])'
  <2>1. PICK x : x = task[t]
    OBVIOUS
  <2>2. TaskFresh(t, x)
    BY <2>1 DEF FreshInv
  <2>3. TaskFresh(t, x)'
    <3>1. t = "risk" /\ x.step # "idle" => Requested(x) /\ Requested(x)'
      BY <2>2, <1>3 DEF TaskFresh
    <3>2. ASSUME Undisturbed', t = "risk", x.step \in {"stack", "evidence", "flush"}
          PROVE  Fresh(x.vendor, x.parts)'
      BY <1>4, <1>5, <2>2, <3>1, <3>2 DEF TaskFresh
    <3>3. ASSUME Undisturbed', t = "risk", x.step = "commitScore"
          PROVE  Fresh(x.vendor, x.row.parts)'
      BY <1>4, <1>5, <2>2, <3>1, <3>3 DEF TaskFresh
    <3> QED
      BY <2>2, <3>1, <3>2, <3>3 DEF TaskFresh
  <2> QED
    BY <1>1, <2>1, <2>3
<1>7. ASSUME NEW r \in scores' PROVE RowFresh(r)'
  <2>1. RowFresh(r)
    BY <1>1, <1>7 DEF FreshInv
  <2> QED
    BY <1>3, <1>4, <1>5, <2>1 DEF RowFresh
<1> QED
  BY <1>6, <1>7 DEF FreshInv

LEMMA FreshInit == Init => FreshInv
<1> SUFFICES ASSUME Init PROVE FreshInv
  OBVIOUS
<1>1. scores = {} /\ task = [t \in Tasks |-> NoTask]
  BY DEF Init
<1>2. PICK r : r = NoTask
  OBVIOUS
<1>3. r.step = "idle" /\ r.trigger = 0
  BY <1>2 DEF NoTask
<1>4. \A t : TaskFresh(t, r)
  BY <1>3, NothingFresh
<1> QED
  BY <1>1, <1>2, <1>4 DEF FreshInv

\* Freshness is inductive, given what vendor-service keeps.
LEMMA FreshNext ==
    LossInv /\ SheetInv /\ TypeInv /\ AloneInv /\ FreshInv /\ [Next]_vars => FreshInv'
<1> SUFFICES ASSUME LossInv, SheetInv, TypeInv, AloneInv, FreshInv, [Next]_vars
             PROVE  FreshInv'
  OBVIOUS
<1>t. /\ "risk" \in Tasks /\ "compliance" \in Tasks /\ "risk" \in Groups
      /\ "compliance" \in Groups /\ "risk" \notin Scorers
  BY TaskAssumption DEF Tasks, Groups
<1>1. CASE VendorAction
  BY <1>1, AloneNext, FreshVendor
<1>2. ASSUME NEW t \in Scorers \cup {"risk"}, RiskStep(t) PROVE FreshInv'
  <2>1. t \in Tasks
    BY <1>t DEF Tasks
  <2> QED
    BY <1>2, <2>1, FreshRead, FreshReadStack, FreshFlush, FreshCommit DEF RiskStep
<1>3. CASE ConsumeRisk
  BY <1>t, <1>2, <1>3, FreshFetch, FreshPublish DEF ConsumeRisk
<1>4. CASE ConsumeCompliance
  BY <1>t, <1>4, FreshFetch, FreshAssess, FreshCompliance DEF ConsumeCompliance, AssessBaseline
<1>5. ASSUME NEW g \in Groups, Rejoin(g) PROVE FreshInv'
  BY <1>5, FreshRejoin
<1>6. ASSUME NEW t \in Scorers, RequestComputation(t) \/ RiskStep(t) \/ CutOff(t)
      PROVE  FreshInv'
  BY <1>2, <1>6, FreshRequest
<1>7. ASSUME NEW t \in Assessors,
             RequestComputation(t) \/ CreateAssessment(t) \/ ComplianceStep(t) \/ CutOff(t)
      PROVE  FreshInv'
  BY <1>7, FreshRequest, FreshAssess, FreshCompliance DEF CreateAssessment
<1>8. CASE AddTechStackComponent \/ Quiescent \/ UNCHANGED vars
  <2>1. UNCHANGED vendorVars /\ task' = task /\ scores' = scores /\ faults' = faults
    BY <1>8 DEF AddTechStackComponent, Quiescent, vars, serviceVars, rowVars
  <2>2. ASSUME NEW t \in Tasks PROVE TaskFresh(t, task[t])'
    <3>1. PICK x : x = task[t] /\ TaskFresh(t, x)
      BY DEF FreshInv
    <3>2. TaskFresh(t, x)'
      BY <2>1, <3>1, FreshStays
    <3> QED
      BY <2>1, <3>1, <3>2
  <2>3. \A r \in scores' : RowFresh(r)'
    BY <2>1, FreshStays DEF FreshInv
  <2> QED
    BY <2>2, <2>3 DEF FreshInv
<1> QED
  BY <1>1, <1>3, <1>4, <1>5, <1>6, <1>7, <1>8 DEF Next

------------------------------------------------------------------------------
(* Nothing left to do.                                                      *)

\* When nothing failed and nothing is left to do, every event that calls for a score
\* has led to one.
LEMMA DrainedIsHandled ==
    ASSUME LossInv, Drained, faults = 0, NEW i \in DOMAIN topic, Triggers("risk", i), i # 0
    PROVE  Handled("risk", i)
<1>1. "risk" \in Groups /\ "risk" \in Tasks
  BY DEF Tasks, Groups
<1>2. IsFiniteSet(Missing("risk")) /\ Cardinality(Missing("risk")) \in Nat
  BY <1>1, MissingIsFinite DEF LossInv
<1>3. Cardinality(Missing("risk")) <= 0
  BY <1>1 DEF LossInv, OneLossPerFault, Missing
<1>4. Missing("risk") = {}
  <2>1. PICK M : M = Missing("risk")
    OBVIOUS
  <2>2. Cardinality(M) = 0 /\ IsFiniteSet(M)
    BY <1>2, <1>3, <2>1
  <2> QED
    BY <2>1, <2>2, FS_EmptySet
<1>5. task["risk"].trigger = 0
  BY <1>1, TaskInMemory DEF Drained, TaskOK
<1>6. i \in 1..position["risk"]
  BY <1>1, AppendOne DEF Drained, LossInv, ConsumerInv
<1> QED
  BY <1>4, <1>5, <1>6 DEF Missing

\* The rows of a vendor have a newest one.
LEMMA NewestRow ==
    ASSUME RowInv, NEW S \in SUBSET scores, S # {}
    PROVE  \E r \in S : \A q \in S : q.at <= r.at
<1>1. PICK n \in Nat : n = clock["risk"]
  BY DEF RowInv, Groups
<1>2. PICK T : T = {r.at : r \in S}
  OBVIOUS
<1>3. T \in SUBSET (1..n) /\ T # {}
  BY <1>1, <1>2 DEF RowInv
<1>4. Max(T) \in T /\ \A y \in T : y <= Max(T)
  BY <1>3, MaxBounded
<1> QED
  BY <1>2, <1>4

\* Nothing left to do, nothing failed: every event was announced and handled, and the
\* rows it led to are fresh, the newest among them.
LEMMA DrainedIsFresh ==
    ASSUME LossInv, RowInv, SheetInv, EventInv, FreshInv
    PROVE  FreshWhenDrained
<1> SUFFICES ASSUME Drained, faults = 0, failures = 0, NEW v \in DOMAIN vendors,
                    vendors[v].state \in TriggerStates.risk
             PROVE  LET mine == {r \in scores : r.vendor = v /\ r.trigger > 0} IN
                    \E r \in mine :
                       /\ \A q \in mine : q.at <= r.at
                       /\ Completed(v) /\ ~Overlapping =>
                             r.parts.questionnaire = CurrentScore(v)
  BY DEF FreshWhenDrained
<1>1. \A h \in Handlers : ~Announces(h, v)
  BY DEF Drained, SheetInv, Shapes, Announces
<1>2. PICK i \in DOMAIN topic : topic[i].vendor = v /\ topic[i].to = vendors[v].state
  BY <1>1 DEF EventInv, Announced
<1>3. i \in Nat /\ i # 0
  BY AppendOne DEF LossInv, ConsumerInv
<1>4. Triggers("risk", i)
  BY <1>2 DEF Triggers, TriggerStates
<1>5. PICK r0 \in scores : r0.trigger = i
  BY <1>3, <1>4, DrainedIsHandled DEF Handled
<1>6. r0.vendor = v /\ r0.trigger > 0
  BY <1>2, <1>3, <1>5 DEF FreshInv, RowFresh, Requested
<1>7. PICK mine : mine = {r \in scores : r.vendor = v /\ r.trigger > 0}
  OBVIOUS
<1>8. mine \in SUBSET scores /\ r0 \in mine
  BY <1>5, <1>6, <1>7
<1>9. PICK r \in mine : \A q \in mine : q.at <= r.at
  BY <1>8, NewestRow
<1>10. Completed(v) /\ ~Overlapping => r.parts.questionnaire = CurrentScore(v)
  <2>1. r \in scores /\ r.vendor = v /\ r.trigger # 0
    BY <1>7, <1>9
  <2> QED
    BY <2>1 DEF FreshInv, RowFresh, Undisturbed, Fresh
<1> QED
  BY <1>7, <1>9, <1>10

\* compute_for_vendor and handle_vendor_lifecycle_event, for any number of vendors,
\* requests and computations: when nothing failed and nothing is left to do, each
\* vendor in a trigger state has a consumer's row, and the newest has the score of its
\* completed questionnaire unless requests to vendor-service overlapped.
THEOREM ScoresAreFresh == Spec => []FreshWhenDrained
<1> DEFINE Inv == /\ LossInv /\ RowInv /\ SheetInv /\ TypeInv
                  /\ EventInv /\ AloneInv /\ FreshInv
<1>1. Inv => FreshWhenDrained
  BY DrainedIsFresh
<1>2. Init => Inv
  BY LossInit, RowsInit, SheetsInit, TypesInit, EventsInit, AloneInit, FreshInit
<1>3. Inv /\ [Next]_vars => Inv'
  <2> SUFFICES ASSUME Inv, [Next]_vars PROVE Inv'
    OBVIOUS
  <2>1. LossInv'
    BY LossNext
  <2>2. RowInv'
    BY <2>1, RowsNext
  <2> QED
    BY <2>1, <2>2, SheetsNext, TypesNext, EventsNext, AloneNext, FreshNext
<1> HIDE DEF Inv
<1> QED
  BY <1>1, <1>2, <1>3, PTL DEF Spec
=============================================================================
