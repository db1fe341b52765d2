---------------------------- MODULE VendorProofs -----------------------------
(***************************************************************************)
(* Proofs about vendor-service, for any number of concurrent requests,     *)
(* vendors and questionnaires: the tables keep their shape, a completed    *)
(* questionnaire is answered in full and moved its vendor, every document  *)
(* row has its file, only a PATCH changes dimensions and tier, lifecycle   *)
(* events announce committed, legal steps, and a client that pages through *)
(* the list misses little.                                                 *)
(*                                                                         *)
(* The inductive invariant says what each request has established about    *)
(* the rows it holds in memory (SessionOK), that no commit of another one  *)
(* undoes it (Grows, SessionKept), and that questionnaire numbers are      *)
(* written once (Fresh).  ChangeInv adds what a request may change of its  *)
(* vendor, and ListingInv what a listing under way has collected.          *)
(***************************************************************************)
EXTENDS VendorProperties, WellFoundedInduction, NaturalsInduction, FiniteSetTheorems,
        SequenceTheorems, TLAPS

\* A rank between 0 and 3 is the rank of a tier, and so compute_tier answers one.
LEMMA TierOfRankType ==
    ASSUME NEW rank \in 0..3 PROVE TierOfRank(rank) \in Tiers
<1>1. \E tier \in Tiers : TierRanks[tier] = rank
  <2>1. TierRanks["Low"] = 0 /\ TierRanks["Medium"] = 1 /\ TierRanks["High"] = 2
        /\ TierRanks["Critical"] = 3
    BY DEF TierRanks
  <2>2. {"Low", "Medium", "High", "Critical"} \subseteq Tiers
    BY DEF Tiers, TierRanks
  <2>3. rank = 0 \/ rank = 1 \/ rank = 2 \/ rank = 3
    OBVIOUS
  <2> QED
    BY <2>1, <2>2, <2>3
<1> QED
  BY <1>1 DEF TierOfRank

LEMMA ComputeTierType ==
    ASSUME NEW dims \in [Dimensions -> Tiers] PROVE ComputeTier(dims) \in Tiers
<1> DEFINE rank(d) == TierRanks[dims[d]]
           ranks == {rank(d) : d \in Dimensions}
<1>1. \A tier \in Tiers : TierRanks[tier] \in 0..3
  BY DEF Tiers, TierRanks
<1>2. \A d \in Dimensions : rank(d) \in 0..3
  BY <1>1
<1>3. \E x \in ranks : \A y \in ranks : x >= y
  <2>1. ranks = {rank("data_access_scope"), rank("service_criticality"), rank("integration_depth")}
    BY DEF Dimensions
  <2>2. /\ rank("data_access_scope") \in 0..3 /\ rank("service_criticality") \in 0..3
        /\ rank("integration_depth") \in 0..3
    BY <1>2 DEF Dimensions
  <2> HIDE DEF rank, ranks
  <2> QED
    BY <2>1, <2>2
<1>4. Max(ranks) \in ranks
  BY <1>3 DEF Max
<1>5. Max(ranks) \in 0..3
  BY <1>2, <1>4
<1> QED
  BY <1>5, TierOfRankType DEF ComputeTier

\* A set of numbers with a bound has a greatest one.
LEMMA MaxBounded ==
    ASSUME NEW n \in Nat, NEW S \in SUBSET (1..n), S # {}
    PROVE  Max(S) \in S
<1> DEFINE T == {n - x : x \in S}
<1>1. T \subseteq Nat /\ T # {}
  OBVIOUS
<1>2. \E t \in T : \A u \in T : ~(<<u, t>> \in OpToRel(<, Nat))
  <2> HIDE DEF T
  <2> QED
    BY <1>1, NatLessThanWellFounded, WFMin
<1>3. PICK x \in S : \A u \in T : ~(<<u, n - x>> \in OpToRel(<, Nat))
  BY <1>2
<1>4. \A y \in S : x >= y
  <2> TAKE y \in S
  <2>1. n - y \in T /\ n - y \in Nat /\ n - x \in Nat
    OBVIOUS
  <2>2. ~(n - y < n - x)
    BY <1>3, <2>1 DEF OpToRel
  <2> QED
    BY <2>2
<1> QED
  BY <1>4 DEF Max

\* What an UPDATE leaves of a vendor: each column that the request changed, and the
\* others as they are now.
LEMMA MergeVendor ==
    ASSUME NEW c \in VendorRow, NEW r \in VendorRow, NEW w \in VendorRow
    PROVE  /\ MergeDims(c, r, w) \in VendorRow
           /\ MergeDims(c, r, w).state = IF w.state # r.state THEN w.state ELSE c.state
           /\ MergeDims(c, r, w).tier = IF w.tier # r.tier THEN w.tier ELSE c.tier
           /\ w.dims = r.dims => MergeDims(c, r, w).dims = c.dims
<1> DEFINE m == Merge(c, r, w)
           d == Merge(c.dims, r.dims, w.dims)
<1>1. m = [dims |-> IF w.dims # r.dims THEN w.dims ELSE c.dims,
           tier |-> IF w.tier # r.tier THEN w.tier ELSE c.tier,
           state |-> IF w.state # r.state THEN w.state ELSE c.state]
  BY DEF Merge, VendorRow
<1>2. d \in [Dimensions -> Tiers] /\ (w.dims = r.dims => d = c.dims)
  BY DEF Merge, VendorRow
<1>3. MergeDims(c, r, w) = [m EXCEPT !.dims = d]
  BY DEF MergeDims
<1> HIDE DEF m, d
<1> QED
  BY <1>1, <1>2, <1>3 DEF VendorRow
------------------------------------------------------------------------------
\* ... and of a questionnaire's answers.
LEMMA MergeAnswer ==
    ASSUME NEW X, NEW Y, NEW a \in [answer : X, score : Y], NEW b \in [answer : X, score : Y],
           NEW d \in [answer : X, score : Y]
    PROVE  /\ Merge(a, b, d) \in [answer : X, score : Y]
           /\ Merge(a, b, d).answer = IF d.answer # b.answer THEN d.answer ELSE a.answer
<1>1. Merge(a, b, d) = [answer |-> IF d.answer # b.answer THEN d.answer ELSE a.answer,
                        score |-> IF d.score # b.score THEN d.score ELSE a.score]
  BY DEF Merge
<1> QED
  BY <1>1

LEMMA MergeAnswers ==
    ASSUME NEW tier, NEW c \in QuestionnaireRow(tier), NEW r \in QuestionnaireRow(tier),
           NEW w \in QuestionnaireRow(tier)
    PROVE  LET m == MergeResponses(c, r, w) IN
           /\ m \in QuestionnaireRow(tier)
           /\ m.status = IF w.status # r.status THEN w.status ELSE c.status
           /\ m.tier = c.tier /\ (w.vendor = r.vendor => m.vendor = c.vendor)
           /\ DOMAIN m.responses = DOMAIN c.responses
           /\ \A code \in DOMAIN c.responses :
                 m.responses[code].answer =
                     IF w.responses[code].answer # r.responses[code].answer
                     THEN w.responses[code].answer ELSE c.responses[code].answer
<1> DEFINE m == Merge(c, r, w)
           one(code) == Merge(c.responses[code], r.responses[code], w.responses[code])
           Q == QuestionsForTier(NumDomains, tier)
           X == Answers \cup {Unanswered}
           Y == {NoScore, 0, 50, 100}
           A == [answer : X, score : Y]
<1>1. m = [vendor |-> IF w.vendor # r.vendor THEN w.vendor ELSE c.vendor,
           tier |-> IF w.tier # r.tier THEN w.tier ELSE c.tier,
           status |-> IF w.status # r.status THEN w.status ELSE c.status,
           responses |-> IF w.responses # r.responses THEN w.responses ELSE c.responses]
  BY DEF Merge, QuestionnaireRow
<1>2. c.responses \in [Q -> A] /\ r.responses \in [Q -> A] /\ w.responses \in [Q -> A]
  BY DEF QuestionnaireRow
<1>4. ASSUME NEW code \in Q
      PROVE  /\ one(code) \in A
             /\ one(code).answer = IF w.responses[code].answer # r.responses[code].answer
                                   THEN w.responses[code].answer ELSE c.responses[code].answer
  <2> HIDE DEF Q, A, X, Y
  <2>1. c.responses[code] \in A /\ r.responses[code] \in A /\ w.responses[code] \in A
    BY <1>2
  <2> QED
    BY <2>1, MergeAnswer DEF A
<1>5. DOMAIN m.responses = Q
  BY <1>1, <1>2
<1> DEFINE all == [code \in Q |-> one(code)]
<1>6. MergeResponses(c, r, w) = [m EXCEPT !.responses = all]
  BY <1>5 DEF MergeResponses
<1>7. m = [vendor |-> m.vendor, tier |-> m.tier, status |-> m.status, responses |-> m.responses]
      /\ m.vendor \in DOMAIN vendors /\ m.tier = tier /\ c.tier = tier
      /\ m.status \in {"SENT", "IN_PROGRESS", "COMPLETED"}
      /\ m.status = (IF w.status # r.status THEN w.status ELSE c.status)
      /\ (w.vendor = r.vendor => m.vendor = c.vendor)
  BY <1>1 DEF QuestionnaireRow
<1>8. all \in [Q -> A] /\ DOMAIN all = Q
  BY <1>4
<1>9. MergeResponses(c, r, w) = [vendor |-> m.vendor, tier |-> m.tier, status |-> m.status,
                                 responses |-> all]
  <2> HIDE DEF m, all
  <2> QED
    BY <1>6, <1>7
<1>10. MergeResponses(c, r, w) \in QuestionnaireRow(tier)
  <2> HIDE DEF m, all
  <2> QED
    BY <1>7, <1>8, <1>9 DEF QuestionnaireRow
<1>11. DOMAIN c.responses = Q
  BY <1>2
<1> QED
  BY <1>4, <1>7, <1>9, <1>10, <1>11

------------------------------------------------------------------------------
Ops == {"create", "update", "transition", "generate", "answer", "upload"}

IsSession(s) ==
    s = [op |-> s.op, vendor |-> s.vendor, read |-> s.read, row |-> s.row,
         q |-> s.q, qread |-> s.qread, qrow |-> s.qrow]

\* What a request holds once it has loaded its vendor ...
Loaded(s) == s.vendor \in DOMAIN vendors /\ s.read \in VendorRow /\ s.row \in VendorRow
\* ... its questionnaire ...
Reading(s) ==
    /\ s.q \in DOMAIN questionnaires /\ questionnaires[s.q].vendor = s.vendor
    /\ s.qread \in QuestionnaireRow(questionnaires[s.q].tier)
    /\ s.qread.vendor = s.vendor
\* ... and what it is about to write: it writes an answer or leaves the one it read,
\* which nobody has taken back.
Answering(s) ==
    /\ Reading(s)
    /\ s.qrow \in QuestionnaireRow(questionnaires[s.q].tier) /\ s.qrow.vendor = s.vendor
    /\ \A code \in DOMAIN s.qread.responses :
          /\ s.qread.responses[code].answer # Unanswered
                 => questionnaires[s.q].responses[code].answer # Unanswered
          /\ \/ s.qrow.responses[code].answer = s.qread.responses[code].answer
             \/ s.qrow.responses[code].answer # Unanswered
    /\ s.qrow.status = "COMPLETED" =>
          /\ \A code \in DOMAIN s.qrow.responses : s.qrow.responses[code].answer # Unanswered
          /\ s.row.state = "QUESTIONNAIRE_COMPLETED" /\ s.read.state # s.row.state

SessionOK(step, s) ==
    /\ IsSession(s)
    /\ step # "idle" => s.op \in Ops
    /\ step \in {"latest", "responses"} => s.op = "answer"
    /\ step = "store" => s.op = "upload"
    /\ step = "refresh" => s.op = "transition"
    /\ step = "commit" /\ s.op = "create" => s.vendor \in 1..MaxVendors /\ s.row \in VendorRow
    /\ step # "idle" /\ s.op # "create" => Loaded(s)
    /\ step # "idle" /\ s.op \in {"generate", "upload"} => s.q \in 1..MaxRequests
    /\ step = "responses" => Reading(s)
    /\ step = "commit" /\ s.op = "answer" => Answering(s)

TypeInv ==
    /\ TypeOK
    /\ seqs \in [{"vendor", "q", "document"} -> Nat]
    /\ DOMAIN sess = Handlers
    /\ \A h \in Handlers : SessionOK(pc[h], sess[h])

\* Rows are not deleted, questionnaires keep their vendor and tier, and no answer
\* is taken back.
Grows ==
    /\ DOMAIN vendors \subseteq DOMAIN vendors'
    /\ DOMAIN questionnaires \subseteq DOMAIN questionnaires'
    /\ \A q \in DOMAIN questionnaires :
          /\ questionnaires'[q].vendor = questionnaires[q].vendor
          /\ questionnaires'[q].tier = questionnaires[q].tier
          /\ \A code \in DOMAIN questionnaires[q].responses :
                questionnaires[q].responses[code].answer # Unanswered
                    => questionnaires'[q].responses[code].answer # Unanswered

LEMMA VendorRowSame == VendorRow' = VendorRow
BY DEF VendorRow

LEMMA QuestionnaireRowGrows ==
    ASSUME DOMAIN vendors \subseteq DOMAIN vendors', NEW tier
    PROVE  QuestionnaireRow(tier) \subseteq (QuestionnaireRow(tier))'
BY DEF QuestionnaireRow

\* What a session has established is not undone by the commit of another one.
LEMMA SessionKept ==
    ASSUME Grows, TypeOK, NEW step, NEW s, SessionOK(step, s)
    PROVE  SessionOK(step, s)'
<1>1. Loaded(s) => Loaded(s)'
  BY VendorRowSame DEF Loaded, Grows
<1>2. ASSUME Reading(s) PROVE Reading(s)'
  <2>1. (questionnaires[s.q].tier)' = questionnaires[s.q].tier
    BY <1>2 DEF Reading, Grows
  <2>2. s.qread \in (QuestionnaireRow(questionnaires[s.q].tier))'
    BY <1>2, <2>1, QuestionnaireRowGrows DEF Reading, Grows, QuestionnaireRow
  <2> QED
    BY <1>2, <2>2 DEF Reading, Grows
<1>3. ASSUME Answering(s) PROVE Answering(s)'
  <2>1. Reading(s) /\ Reading(s)'
    BY <1>2, <1>3 DEF Answering
  <2>2. (questionnaires[s.q].tier)' = questionnaires[s.q].tier
    BY <2>1 DEF Reading, Grows
  <2>3. s.qrow \in (QuestionnaireRow(questionnaires[s.q].tier))'
    BY <1>3, <2>2, QuestionnaireRowGrows DEF Answering, Grows, QuestionnaireRow
  <2>4. DOMAIN s.qread.responses = DOMAIN questionnaires[s.q].responses
    BY <2>1 DEF Reading, TypeOK, QuestionnaireRow
  <2> QED
    BY <1>3, <2>1, <2>3, <2>4 DEF Answering, Reading, Grows
<1> QED
  BY <1>1, <1>2, <1>3, VendorRowSame DEF SessionOK

LEMMA Unchanged ==
    ASSUME UNCHANGED <<vendors, questionnaires>> PROVE Grows
BY DEF Grows

\* A step of one session, as the others see it.
LEMMA OneMoves ==
    ASSUME TypeInv, Grows, TypeOK', NEW h \in Handlers, NEW step, NEW s,
           Move(h, step, s), SessionOK(step, s)',
           seqs' \in [{"vendor", "q", "document"} -> Nat]
    PROVE  TypeInv'
<1>1. DOMAIN sess' = Handlers /\ DOMAIN pc = Handlers \cup Listers
  BY DEF Move, TypeInv, TypeOK
<1>2. ASSUME NEW g \in Handlers, NEW p, NEW x, pc'[g] = p, sess'[g] = x, SessionOK(p, x)'
      PROVE  SessionOK(pc[g], sess[g])'
  BY <1>2 DEF SessionOK, IsSession, Loaded, Reading, Answering
<1>3. ASSUME NEW g \in Handlers PROVE SessionOK(pc[g], sess[g])'
  <2>1. CASE g = h
    <3>1. pc'[g] = step /\ sess'[g] = s
      BY <1>1, <2>1 DEF Move, TypeInv
    <3> QED
      BY <1>2, <3>1
  <2>2. CASE g # h
    <3>1. pc'[g] = pc[g] /\ sess'[g] = sess[g]
      BY <1>1, <2>2 DEF Move, TypeInv
    <3>2. PICK p, x : p = pc[g] /\ x = sess[g]
      OBVIOUS
    <3>3. SessionOK(p, x)
      BY <3>2 DEF TypeInv
    <3>4. SessionOK(p, x)'
      BY <3>3, SessionKept DEF TypeInv
    <3> QED
      BY <1>2, <3>1, <3>2, <3>4
  <2> QED
    BY <2>1, <2>2
<1> QED
  BY <1>1, <1>3 DEF TypeInv
------------------------------------------------------------------------------
Generates(h) == pc[h] = "commit" /\ sess[h].op = "generate"

\* No two requests write the same questionnaire number, and none was used before.
Fresh ==
    /\ \A q \in DOMAIN questionnaires : q <= seqs.q
    /\ \A h \in Handlers :
          Generates(h) => sess[h].q <= seqs.q /\ sess[h].q \notin DOMAIN questionnaires
    /\ \A g, h \in Handlers : Generates(g) /\ Generates(h) /\ sess[g].q = sess[h].q => g = h

VendorInv == TypeInv /\ Fresh /\ CompletedIsAnswered

Moves == {"idle", "latest", "responses", "store", "commit", "refresh", "publish"}

\* A step of a session that leaves the tables alone, but for documents and files.
LEMMA QuietMove ==
    ASSUME VendorInv, NEW h \in Handlers, NEW step \in Moves, NEW s, Move(h, step, s),
           SessionOK(step, s)', UNCHANGED <<vendors, questionnaires>>,
           documents' \subseteq [id : 1..MaxRequests, vendor : 1..MaxVendors],
           files' \subseteq 1..MaxRequests,
           seqs' \in [{"vendor", "q", "document"} -> Nat], seqs'.q >= seqs.q,
           step = "commit" /\ s.op = "generate" => s.q = seqs.q + 1 /\ s.q <= seqs'.q
    PROVE  VendorInv'
<1>1. TypeOK'
  <2>1. pc' \in [Handlers \cup Listers ->
                    {"idle", "latest", "responses", "store", "commit", "refresh", "publish",
                     "count", "page"}]
    BY DEF VendorInv, TypeInv, TypeOK, Move, Moves
  <2>2. \A tier : (QuestionnaireRow(tier))' = QuestionnaireRow(tier)
    BY DEF QuestionnaireRow
  <2> QED
    BY <2>1, <2>2, VendorRowSame DEF VendorInv, TypeInv, TypeOK
<1>2. TypeInv'
  BY <1>1, OneMoves, Unchanged DEF VendorInv
<1>3. CompletedIsAnswered'
  BY DEF VendorInv, CompletedIsAnswered
<1>4. Fresh'
  <2>1. \A q \in DOMAIN questionnaires' : q <= seqs'.q
    <3>1. \A q \in DOMAIN questionnaires' : q \in Nat /\ q <= seqs.q
      BY DEF VendorInv, TypeInv, TypeOK, Fresh
    <3>2. seqs.q \in Nat /\ seqs'.q \in Nat
      BY DEF VendorInv, TypeInv
    <3> QED
      BY <3>1, <3>2
  <2>2. \A g \in Handlers : g # h => pc'[g] = pc[g] /\ sess'[g] = sess[g]
    BY DEF Move, VendorInv, TypeInv, TypeOK
  <2>3. pc'[h] = step /\ sess'[h] = s
    BY DEF Move, VendorInv, TypeInv, TypeOK
  <2>4. \A g \in Handlers : Generates(g) => sess[g].q \in Nat
    BY DEF Generates, VendorInv, TypeInv, SessionOK
  <2>5. seqs.q \in Nat /\ seqs'.q \in Nat
    BY DEF VendorInv, TypeInv
  <2>6. \A g \in Handlers : Generates(g)' =>
            sess'[g].q <= seqs'.q /\ sess'[g].q \notin DOMAIN questionnaires'
    <3> SUFFICES ASSUME NEW g \in Handlers, Generates(g)'
                 PROVE  sess'[g].q <= seqs'.q /\ sess'[g].q \notin DOMAIN questionnaires'
      OBVIOUS
    <3>1. CASE g = h
      <4>1. step = "commit" /\ s.op = "generate" /\ sess'[g].q = s.q
        BY <2>3, <3>1 DEF Generates
      <4>2. \A q \in DOMAIN questionnaires : q \in Nat /\ q <= seqs.q
        BY DEF VendorInv, TypeInv, TypeOK, Fresh
      <4> QED
        BY <4>1, <4>2, <2>5
    <3>2. CASE g # h
      <4>1. Generates(g) /\ sess'[g].q = sess[g].q
        BY <2>2, <3>2 DEF Generates
      <4>2. sess[g].q <= seqs.q /\ sess[g].q \notin DOMAIN questionnaires
        BY <4>1 DEF VendorInv, Fresh
      <4> QED
        BY <4>1, <4>2, <2>4, <2>5
    <3> QED
      BY <3>1, <3>2
  <2>7. ASSUME NEW g \in Handlers, NEW k \in Handlers, Generates(g)', Generates(k)',
               sess'[g].q = sess'[k].q
        PROVE  g = k
    <3>1. \A x \in Handlers : x # h /\ Generates(x)' => Generates(x) /\ sess'[x].q <= seqs.q
      BY <2>2 DEF Generates, VendorInv, Fresh
    <3>2. Generates(h)' => sess'[h].q = seqs.q + 1
      BY <2>3 DEF Generates
    <3>3. CASE g # h /\ k # h
      BY <2>2, <2>7, <3>1, <3>3 DEF VendorInv, Fresh
    <3>4. CASE g = h /\ k # h
      BY <2>5, <2>7, <3>1, <3>2, <3>4
    <3>5. CASE g # h /\ k = h
      BY <2>5, <2>7, <3>1, <3>2, <3>5
    <3> QED
      BY <3>3, <3>4, <3>5
  <2> QED
    BY <2>1, <2>6, <2>7 DEF Fresh
<1> QED
  BY <1>2, <1>3, <1>4 DEF VendorInv
------------------------------------------------------------------------------
SeqsGrow == seqs' \in [{"vendor", "q", "document"} -> Nat] /\ seqs'.q >= seqs.q

LEMMA TakeSeqs ==
    ASSUME VendorInv, NEW seq \in {"vendor", "q", "document"}, NEW bound \in Nat,
           Take(seq, bound)
    PROVE  SeqsGrow /\ seqs[seq] + 1 \in 1..bound /\ seqs'[seq] = seqs[seq] + 1
<1>1. seqs \in [{"vendor", "q", "document"} -> Nat]
  BY DEF VendorInv, TypeInv
<1>2. seqs[seq] \in Nat /\ seqs[seq] + 1 \in Nat /\ seqs' = [seqs EXCEPT ![seq] = seqs[seq] + 1]
      /\ seqs[seq] < bound
  BY <1>1 DEF Take
<1>3. seqs' \in [{"vendor", "q", "document"} -> Nat] /\ seqs'[seq] = seqs[seq] + 1
  BY <1>1, <1>2
<1>4. seqs'.q >= seqs.q
  BY <1>1, <1>2
<1> QED
  BY <1>2, <1>3, <1>4 DEF SeqsGrow

LEMMA SeqsKept ==
    ASSUME VendorInv, UNCHANGED seqs PROVE SeqsGrow
BY DEF SeqsGrow, VendorInv, TypeInv

LEMMA RequestMoves ==
    ASSUME VendorInv, SeqsGrow, NEW h \in Handlers, NEW op \in Ops, NEW v \in DOMAIN vendors,
           NEW STATE row, row \in VendorRow, NEW STATE q,
           NEW step \in {"commit", "latest", "store"},
           Request(h, op, v, row, step, q),
           op # "create", step = "latest" => op = "answer", step = "store" => op = "upload",
           op = "answer" => step = "latest",
           op \in {"generate", "upload"} => q \in 1..MaxRequests,
           op = "generate" => q = seqs.q + 1 /\ q <= seqs'.q
    PROVE  VendorInv'
<1>0. PICK s : s = [NoSession EXCEPT !.op = op, !.vendor = v, !.read = vendors[v],
                                     !.row = row, !.q = q]
  OBVIOUS
<1>1. Move(h, step, s) /\ UNCHANGED <<vendors, questionnaires, documents, files>>
  BY <1>0 DEF Request, Begin
<1>2. s = [op |-> op, vendor |-> v, read |-> vendors[v], row |-> row, q |-> q,
           qread |-> <<>>, qrow |-> <<>>]
  BY <1>0 DEF NoSession
<1>3. IsSession(s) /\ s.op = op /\ s.q = q
  BY <1>2 DEF IsSession
<1>4. vendors[v] \in VendorRow
  BY DEF VendorInv, TypeInv, TypeOK
<1>5. Loaded(s)'
  BY <1>1, <1>2, <1>4, VendorRowSame DEF Loaded
<1>6. SessionOK(step, s)'
  <2>1. IsSession(s)'
    BY <1>3 DEF IsSession
  <2> QED
    BY <1>3, <1>5, <2>1 DEF SessionOK
<1>7. documents' \subseteq [id : 1..MaxRequests, vendor : 1..MaxVendors]
      /\ files' \subseteq 1..MaxRequests
  BY <1>1 DEF VendorInv, TypeInv, TypeOK
<1> QED
  BY <1>1, <1>3, <1>6, <1>7, QuietMove DEF SeqsGrow, Moves

LEMMA StepCreateVendor ==
    ASSUME VendorInv, NEW h \in Handlers, CreateVendor(h) PROVE VendorInv'
<1>1. PICK dims \in NewDims :
        /\ Take("vendor", MaxVendors)
        /\ Begin(h, "commit", [NoSession EXCEPT
                    !.op = "create", !.vendor = seqs.vendor + 1, !.row = NewVendor(dims)])
  BY DEF CreateVendor
<1>0. PICK s : s = [NoSession EXCEPT
                    !.op = "create", !.vendor = seqs.vendor + 1, !.row = NewVendor(dims)]
  OBVIOUS
<1>2. Move(h, "commit", s) /\ UNCHANGED <<vendors, questionnaires, documents, files>>
  BY <1>0, <1>1 DEF Begin
<1>3. SeqsGrow /\ seqs.vendor + 1 \in 1..MaxVendors
  BY <1>1, TakeSeqs, VendorBoundAssumption
<1>4. NewVendor(dims) \in VendorRow
  <2>1. dims \in [Dimensions -> Tiers]
    BY VendorDataAssumption
  <2> QED
    BY <2>1, ComputeTierType DEF NewVendor, VendorRow, States
<1>5. s = [op |-> "create", vendor |-> seqs.vendor + 1, read |-> NoRow, row |-> NewVendor(dims),
           q |-> 0, qread |-> <<>>, qrow |-> <<>>]
  BY <1>0 DEF NoSession
<1>6. SessionOK("commit", s)'
  <2>1. IsSession(s) /\ s.op = "create" /\ s.vendor \in 1..MaxVendors /\ s.row \in VendorRow
    BY <1>3, <1>4, <1>5 DEF IsSession
  <2>2. IsSession(s)'
    BY <2>1 DEF IsSession
  <2> QED
    BY <2>1, <2>2, VendorRowSame DEF SessionOK, Ops
<1>7. s.op = "create"
  BY <1>5
<1>8. documents' \subseteq [id : 1..MaxRequests, vendor : 1..MaxVendors]
      /\ files' \subseteq 1..MaxRequests
  BY <1>2 DEF VendorInv, TypeInv, TypeOK
<1> QED
  BY <1>2, <1>3, <1>6, <1>7, <1>8, QuietMove DEF SeqsGrow, Moves

LEMMA StepUpdateVendor ==
    ASSUME VendorInv, NEW h \in Patchers, UpdateVendor(h) PROVE VendorInv'
<1>1. PICK v \in DOMAIN vendors, patch \in Patches :
        LET dims == [d \in Dimensions |->
                        IF d \in DOMAIN patch THEN patch[d] ELSE vendors[v].dims[d]]
        IN  /\ Request(h, "update", v,
                       [vendors[v] EXCEPT !.dims = dims, !.tier = ComputeTier(dims)],
                       "commit", 0)
            /\ UNCHANGED seqs
  BY DEF UpdateVendor
<1> DEFINE dims == [d \in Dimensions |->
                        IF d \in DOMAIN patch THEN patch[d] ELSE vendors[v].dims[d]]
           row == [vendors[v] EXCEPT !.dims = dims, !.tier = ComputeTier(dims)]
<1>2. vendors[v] \in VendorRow
  BY DEF VendorInv, TypeInv, TypeOK
<1>3. dims \in [Dimensions -> Tiers]
  <2>1. vendors[v].dims \in [Dimensions -> Tiers]
    BY <1>2 DEF VendorRow
  <2> QED
    BY <2>1, VendorDataAssumption
<1>4. ComputeTier(dims) \in Tiers
  BY <1>3, ComputeTierType
<1> HIDE DEF dims
<1>5. row \in VendorRow
  BY <1>2, <1>3, <1>4 DEF VendorRow
<1>6. Request(h, "update", v, row, "commit", 0) /\ UNCHANGED seqs
  BY <1>1 DEF dims
<1> HIDE DEF row
<1> QED
  BY <1>5, <1>6, SeqsKept, RequestMoves, HandlerAssumption DEF Ops

LEMMA StepTransitionVendor ==
    ASSUME VendorInv, NEW h \in Handlers, TransitionVendor(h) PROVE VendorInv'
<1>1. PICK v \in DOMAIN vendors, target \in States :
        /\ Request(h, "transition", v, [vendors[v] EXCEPT !.state = target], "commit", 0)
        /\ UNCHANGED seqs
  BY DEF TransitionVendor
<1>2. [vendors[v] EXCEPT !.state = target] \in VendorRow
  BY DEF VendorInv, TypeInv, TypeOK, VendorRow
<1> QED
  BY <1>1, <1>2, SeqsKept, RequestMoves DEF Ops

LEMMA StepGenerateQuestionnaire ==
    ASSUME VendorInv, NEW h \in Handlers, GenerateQuestionnaire(h) PROVE VendorInv'
<1>1. PICK v \in DOMAIN vendors :
        /\ Take("q", MaxRequests)
        /\ Request(h, "generate", v, [vendors[v] EXCEPT !.state = "QUESTIONNAIRE_SENT"],
                   "commit", seqs.q + 1)
  BY DEF GenerateQuestionnaire
<1>2. [vendors[v] EXCEPT !.state = "QUESTIONNAIRE_SENT"] \in VendorRow
  BY DEF VendorInv, TypeInv, TypeOK, VendorRow, States
<1>3. SeqsGrow /\ seqs.q + 1 \in 1..MaxRequests /\ seqs'.q = seqs.q + 1
  BY <1>1, TakeSeqs, VendorBoundAssumption
<1> QED
  BY <1>1, <1>2, <1>3, RequestMoves DEF Ops

LEMMA StepUpdateResponses ==
    ASSUME VendorInv, NEW h \in Handlers, UpdateResponses(h) PROVE VendorInv'
<1>1. PICK v \in DOMAIN vendors :
        Request(h, "answer", v, vendors[v], "latest", 0) /\ UNCHANGED seqs
  BY DEF UpdateResponses
<1>2. vendors[v] \in VendorRow
  BY DEF VendorInv, TypeInv, TypeOK
<1> QED
  BY <1>1, <1>2, SeqsKept, RequestMoves DEF Ops

LEMMA StepUploadDocument ==
    ASSUME VendorInv, NEW h \in Handlers, UploadDocument(h) PROVE VendorInv'
<1>1. PICK v \in DOMAIN vendors :
        /\ Take("document", MaxRequests)
        /\ Request(h, "upload", v, vendors[v], "store", seqs.document + 1)
  BY DEF UploadDocument
<1>2. vendors[v] \in VendorRow
  BY DEF VendorInv, TypeInv, TypeOK
<1>3. SeqsGrow /\ seqs.document + 1 \in 1..MaxRequests
  BY <1>1, TakeSeqs, VendorBoundAssumption
<1> QED
  BY <1>1, <1>2, <1>3, RequestMoves DEF Ops
------------------------------------------------------------------------------
\* Requests that end.
LEMMA Finishes ==
    ASSUME VendorInv, NEW h \in Handlers, Finish(h), UNCHANGED dbVars
    PROVE  VendorInv'
<1>1. SessionOK("idle", NoSession)'
  BY DEF SessionOK, IsSession, NoSession
<1>2. Move(h, "idle", NoSession) /\ NoSession.op # "generate"
  BY DEF Finish, NoSession
<1>3. SeqsGrow
  BY SeqsKept DEF dbVars
<1> QED
  BY <1>1, <1>2, <1>3, QuietMove DEF SeqsGrow, Moves, dbVars, VendorInv, TypeInv, TypeOK

LEMMA StepEnds ==
    ASSUME VendorInv, NEW h \in Handlers, Publish(h) \/ PublishFails(h) \/ Crash(h)
    PROVE  VendorInv'
<1>1. Finish(h) /\ UNCHANGED dbVars
  BY DEF Publish, PublishFails, Crash
<1> QED
  BY <1>1, Finishes

LEMMA StepReadLatest ==
    ASSUME VendorInv, NEW h \in Handlers, ReadLatest(h) PROVE VendorInv'
<1> DEFINE mine == OfVendor(sess[h].vendor)
<1>1. UNCHANGED dbVars
  BY DEF ReadLatest
<1>2. CASE Finish(h)
  BY <1>1, <1>2, Finishes
<1>3. CASE ~Finish(h)
  <2>1. mine # {}
    BY <1>3 DEF ReadLatest
  <2>2. PICK s : s = [sess[h] EXCEPT !.q = Max(mine), !.qread = questionnaires[Max(mine)]]
    OBVIOUS
  <2>3. Move(h, "responses", s)
    BY <1>3, <2>2 DEF ReadLatest
  <2>4. Max(mine) \in mine
    <3>1. mine \in SUBSET (1..MaxRequests)
      BY DEF OfVendor, VendorInv, TypeInv, TypeOK
    <3>2. MaxRequests \in Nat
      BY VendorBoundAssumption
    <3> HIDE DEF mine
    <3> QED
      BY <2>1, <3>1, <3>2, MaxBounded
  <2>5. Max(mine) \in DOMAIN questionnaires /\ questionnaires[Max(mine)].vendor = sess[h].vendor
    BY <2>4 DEF OfVendor
  <2>6. SessionOK("latest", sess[h]) /\ pc[h] = "latest"
    BY DEF ReadLatest, VendorInv, TypeInv
  <2> HIDE DEF mine
  <2>7. s = [op |-> "answer", vendor |-> sess[h].vendor, read |-> sess[h].read,
             row |-> sess[h].row, q |-> Max(mine), qread |-> questionnaires[Max(mine)],
             qrow |-> sess[h].qrow]
    BY <2>2, <2>6 DEF SessionOK, IsSession
  <2>8. IsSession(s) /\ s.op = "answer"
    BY <2>7 DEF IsSession
  <2>9. Loaded(s)
    BY <2>6, <2>7 DEF SessionOK, Loaded
  <2>10. Reading(s)
    <3>1. questionnaires[s.q] \in QuestionnaireRow(questionnaires[s.q].tier)
      BY <2>5, <2>7 DEF VendorInv, TypeInv, TypeOK
    <3> QED
      BY <2>5, <2>7, <3>1 DEF Reading
  <2>11. SessionOK("responses", s)
    BY <2>8, <2>9, <2>10 DEF SessionOK, Ops
  <2>12. SessionOK("responses", s)'
    <3>1. Grows
      BY <1>1, Unchanged DEF dbVars
    <3> QED
      BY <2>11, <3>1, SessionKept DEF VendorInv, TypeInv
  <2>13. SeqsGrow
    BY <1>1, SeqsKept DEF dbVars
  <2> QED
    BY <1>1, <2>3, <2>8, <2>12, <2>13, QuietMove
    DEF SeqsGrow, Moves, dbVars, VendorInv, TypeInv, TypeOK
<1> QED
  BY <1>2, <1>3

LEMMA StepStoreFile ==
    ASSUME VendorInv, NEW h \in Handlers, StoreFile(h) PROVE VendorInv'
<1>1. PICK s : s = sess[h]
  OBVIOUS
<1>2. Move(h, "commit", s) /\ UNCHANGED <<vendors, questionnaires, documents, seqs>>
  BY <1>1 DEF StoreFile
<1>3. SessionOK("store", s)
  BY <1>1 DEF StoreFile, VendorInv, TypeInv
<1>4. SessionOK("commit", s) /\ s.op = "upload" /\ s.q \in 1..MaxRequests
  BY <1>3 DEF SessionOK
<1>5. SessionOK("commit", s)'
  BY <1>2, <1>4, SessionKept, Unchanged DEF VendorInv, TypeInv
<1>6. files' \subseteq 1..MaxRequests
  BY <1>1, <1>4 DEF StoreFile, VendorInv, TypeInv, TypeOK
<1>7. SeqsGrow
  BY <1>2, SeqsKept
<1> QED
  BY <1>2, <1>4, <1>5, <1>6, <1>7, QuietMove DEF SeqsGrow, Moves, VendorInv, TypeInv, TypeOK

LEMMA StepRefresh ==
    ASSUME VendorInv, NEW h \in Handlers, Refresh(h) PROVE VendorInv'
<1>1. PICK s : s = [sess[h] EXCEPT !.row.tier = vendors[sess[h].vendor].tier]
  OBVIOUS
<1>2. Move(h, "publish", s) /\ UNCHANGED dbVars /\ pc[h] = "refresh"
  BY <1>1 DEF Refresh
<1>3. SessionOK("refresh", sess[h])
  BY <1>2 DEF VendorInv, TypeInv
<1>4. sess[h].row \in VendorRow /\ vendors[sess[h].vendor] \in VendorRow
      /\ sess[h].op = "transition"
  BY <1>3 DEF SessionOK, Loaded, VendorInv, TypeInv, TypeOK
<1>5. [sess[h].row EXCEPT !.tier = vendors[sess[h].vendor].tier] \in VendorRow
  BY <1>4 DEF VendorRow
<1>6. s = [op |-> "transition", vendor |-> sess[h].vendor, read |-> sess[h].read,
           row |-> [sess[h].row EXCEPT !.tier = vendors[sess[h].vendor].tier], q |-> sess[h].q,
           qread |-> sess[h].qread, qrow |-> sess[h].qrow]
  BY <1>1, <1>3, <1>4 DEF SessionOK, IsSession
<1>7. SessionOK("publish", s) /\ s.op = "transition"
  <2>1. IsSession(s)
    BY <1>6 DEF IsSession
  <2>2. Loaded(s)
    BY <1>3, <1>5, <1>6 DEF SessionOK, Loaded
  <2> QED
    BY <1>6, <2>1, <2>2 DEF SessionOK, Ops
<1>8. SessionOK("publish", s)'
  BY <1>2, <1>7, SessionKept, Unchanged DEF VendorInv, TypeInv, dbVars
<1>9. SeqsGrow
  BY <1>2, SeqsKept DEF dbVars
<1> QED
  BY <1>2, <1>7, <1>8, <1>9, QuietMove DEF SeqsGrow, Moves, dbVars, VendorInv, TypeInv, TypeOK
WithAnswers(s, a, b, c) == [s EXCEPT !.qread = a, !.qrow = b, !.row = c]
LEMMA SessionAnswers ==
    ASSUME NEW s, IsSession(s), NEW a, NEW b, NEW c
    PROVE  WithAnswers(s, a, b, c) =
               [op |-> s.op, vendor |-> s.vendor, read |-> s.read, row |-> c,
                q |-> s.q, qread |-> a, qrow |-> b]
<1>1. PICK op, vendor, read, row, q, qread, qrow :
          s = [op |-> op, vendor |-> vendor, read |-> read, row |-> row, q |-> q,
               qread |-> qread, qrow |-> qrow]
  BY DEF IsSession
<1> DEFINE t == [op |-> op, vendor |-> vendor, read |-> read, row |-> row, q |-> q,
                 qread |-> qread, qrow |-> qrow]
<1>2. [t EXCEPT !.qread = a, !.qrow = b, !.row = c] =
          [op |-> op, vendor |-> vendor, read |-> read, row |-> c, q |-> q, qread |-> a, qrow |-> b]
  <2> DEFINE t1 == [t EXCEPT !.qread = a]
             t2 == [t1 EXCEPT !.qrow = b]
             t3 == [t2 EXCEPT !.row = c]
  <2>1. t1 = [op |-> op, vendor |-> vendor, read |-> read, row |-> row, q |-> q, qread |-> a,
              qrow |-> qrow]
    OBVIOUS
  <2>2. [t EXCEPT !.qread = a, !.qrow = b, !.row = c] = t3
    OBVIOUS
  <2> HIDE DEF t1
  <2>3. t2 = [op |-> op, vendor |-> vendor, read |-> read, row |-> row, q |-> q, qread |-> a,
              qrow |-> b]
    BY <2>1
  <2> HIDE DEF t2
  <2>4. t3 = [op |-> op, vendor |-> vendor, read |-> read, row |-> c, q |-> q, qread |-> a,
              qrow |-> b]
    BY <2>3
  <2> QED
    BY <2>2, <2>4
<1>3. s.op = op /\ s.vendor = vendor /\ s.read = read /\ s.q = q
  BY <1>1
<1>4. s = t
  BY <1>1
<1> HIDE DEF t
<1> QED
  BY <1>2, <1>3, <1>4 DEF WithAnswers

LEMMA ScoreType ==
    ASSUME NEW answer \in Answers PROVE ScoreForAnswer(answer) \in {NoScore, 0, 50, 100}
BY DEF ScoreForAnswer, Answers, NoScore, Unanswered

LEMMA StepReadResponses ==
    ASSUME VendorInv, NEW h \in Handlers, ReadResponses(h) PROVE VendorInv'
<1>1. UNCHANGED dbVars /\ pc[h] = "responses"
  BY DEF ReadResponses
<1>2. CASE Finish(h)
  BY <1>1, <1>2, Finishes
<1>3. CASE ~Finish(h)
  <2> DEFINE o == sess[h]
             Q == DOMAIN o.qread.responses
             current == questionnaires[o.q].responses
             read == [o.qread EXCEPT !.responses = current]
  <2>1. PICK codes \in SUBSET Q, answer \in AnswersGiven :
          LET responses == Answered(read.responses, codes, answer)
              full == FullyAnswered(responses, codes)
          IN  IF full /\ ~MayComplete(o.read.state)
              THEN Finish(h)
              ELSE Move(h, "commit",
                        [o EXCEPT
                           !.qread = read,
                           !.qrow = [read EXCEPT
                              !.responses = responses,
                              !.status = IF full THEN "COMPLETED" ELSE "IN_PROGRESS"],
                           !.row.state = IF full THEN "QUESTIONNAIRE_COMPLETED" ELSE @])
    BY DEF ReadResponses
  <2> DEFINE responses == Answered(read.responses, codes, answer)
             full == FullyAnswered(responses, codes)
             qrow == [read EXCEPT !.responses = responses,
                                  !.status = IF full THEN "COMPLETED" ELSE "IN_PROGRESS"]
             row == [o.row EXCEPT !.state = IF full THEN "QUESTIONNAIRE_COMPLETED" ELSE @]
             tier == questionnaires[o.q].tier
             X == Answers \cup {Unanswered}
             Y == {NoScore, 0, 50, 100}
             A == [answer : X, score : Y]
             B == QuestionsForTier(NumDomains, tier)
  <2>2. SessionOK("responses", o)
    BY <1>1 DEF VendorInv, TypeInv
  <2>3. Reading(o) /\ Loaded(o) /\ o.op = "answer" /\ IsSession(o)
    BY <2>2 DEF SessionOK
  <2>4. questionnaires[o.q] \in QuestionnaireRow(tier) /\ o.qread \in QuestionnaireRow(tier)
    BY <2>3 DEF Reading, VendorInv, TypeInv, TypeOK
  <2>5. current \in [B -> A] /\ Q = B
    BY <2>4 DEF QuestionnaireRow
  <2>6. read = [vendor |-> o.qread.vendor, tier |-> o.qread.tier, status |-> o.qread.status,
                responses |-> current]
        /\ o.qread.vendor \in DOMAIN vendors /\ o.qread.tier = tier
        /\ o.qread.status \in {"SENT", "IN_PROGRESS", "COMPLETED"}
    BY <2>4 DEF QuestionnaireRow
  <2>7. answer \in Answers /\ answer # Unanswered /\ ScoreForAnswer(answer) \in Y
    BY ScoreType, VendorDataAssumption DEF Answers, Unanswered
  <2>8. responses \in [B -> A]
        /\ \A code \in B : responses[code].answer = current[code].answer
                           \/ responses[code].answer # Unanswered
    <3>1. responses = [code \in B |-> IF code \in codes
                                      THEN [answer |-> answer, score |-> ScoreForAnswer(answer)]
                                      ELSE current[code]]
      BY <2>5, <2>6 DEF Answered
    <3>2. [answer |-> answer, score |-> ScoreForAnswer(answer)] \in A
      BY <2>7
    <3>3. [answer |-> answer, score |-> ScoreForAnswer(answer)].answer # Unanswered
      BY <2>7
    <3> HIDE DEF responses, current, A, B
    <3> QED
      BY <2>5, <3>1, <3>2, <3>3
  <2>9. read \in QuestionnaireRow(tier)
    <3> HIDE DEF read, current
    <3> QED
      BY <2>5, <2>6 DEF QuestionnaireRow
  <2>10. qrow = [vendor |-> o.qread.vendor, tier |-> tier,
                 status |-> IF full THEN "COMPLETED" ELSE "IN_PROGRESS", responses |-> responses]
    <3>1. PICK status : status = IF full THEN "COMPLETED" ELSE "IN_PROGRESS"
      OBVIOUS
    <3>2. qrow = [read EXCEPT !.responses = responses, !.status = status]
      BY <3>1
    <3> HIDE DEF qrow, read, current, responses, full, tier
    <3> QED
      BY <2>6, <3>1, <3>2
  <2>11. qrow \in QuestionnaireRow(tier)
    <3> HIDE DEF qrow, read, current, responses, full, tier
    <3> QED
      BY <2>6, <2>8, <2>10 DEF QuestionnaireRow
  <2>12. full => \A code \in B : responses[code].answer # Unanswered
    <3>1. DOMAIN responses = B
      BY <2>8
    <3> HIDE DEF responses
    <3> QED
      BY <3>1 DEF FullyAnswered
  <2>13. full => MayComplete(o.read.state)
    BY <1>3, <2>1
  <2>14. full => o.read.state # "QUESTIONNAIRE_COMPLETED"
    BY <2>13 DEF MayComplete, ValidTransition, AllowedTransitions, States
  <2>15. row \in VendorRow /\ (full => row.state = "QUESTIONNAIRE_COMPLETED")
    <3>1. o.row \in VendorRow
      BY <2>3 DEF Loaded
    <3> HIDE DEF full
    <3> QED
      BY <3>1 DEF VendorRow, States
  <2>16. PICK s : s = [op |-> "answer", vendor |-> o.vendor, read |-> o.read, row |-> row,
                       q |-> o.q, qread |-> read, qrow |-> qrow]
    OBVIOUS
  <2>17. Move(h, "commit", s)
    <3>1. Move(h, "commit", WithAnswers(o, read, qrow, row))
      BY <1>3, <2>1 DEF WithAnswers
    <3>2. PICK x, a, b, c : x = o /\ a = read /\ b = qrow /\ c = row
      OBVIOUS
    <3>3. IsSession(x) /\ x.op = "answer"
      BY <2>3, <3>2
    <3>4. WithAnswers(x, a, b, c) =
               [op |-> x.op, vendor |-> x.vendor, read |-> x.read, row |-> c,
                q |-> x.q, qread |-> a, qrow |-> b]
      BY <3>3, SessionAnswers
    <3>5. s = [op |-> x.op, vendor |-> x.vendor, read |-> x.read, row |-> c,
               q |-> x.q, qread |-> a, qrow |-> b]
      BY <2>16, <3>2, <3>3
    <3>6. Move(h, "commit", WithAnswers(x, a, b, c))
      BY <3>1, <3>2
    <3> QED
      BY <3>4, <3>5, <3>6
  <2>18. Reading(s) /\ Loaded(s) /\ IsSession(s) /\ s.op = "answer"
    <3>1. s.qread.vendor = s.vendor
      BY <2>3, <2>6, <2>16 DEF Reading
    <3>2. s.qread \in QuestionnaireRow(questionnaires[s.q].tier)
      BY <2>9, <2>16
    <3> HIDE DEF read, qrow, row
    <3> QED
      BY <2>3, <2>15, <2>16, <3>1, <3>2 DEF Reading, Loaded, IsSession
  <2>19. Answering(s)
    <3>1. s.qrow \in QuestionnaireRow(questionnaires[s.q].tier)
      BY <2>11, <2>16
    <3>2. s.qrow.vendor = s.vendor /\ s.qrow.responses = responses
          /\ s.qread.responses = current /\ questionnaires[s.q].responses = current
          /\ (s.qrow.status = "COMPLETED" => full) /\ s.row = row /\ s.read = o.read
      <4>1. s.qrow = qrow /\ s.qread = read /\ s.row = row /\ s.read = o.read /\ s.q = o.q
            /\ s.vendor = o.vendor
        BY SMTT(30), <2>16
      <4> HIDE DEF full, responses, row
      <4> QED
        BY <2>3, <2>6, <2>10, <4>1 DEF Reading
    <3>3. DOMAIN current = B /\ DOMAIN responses = B
      BY <2>5, <2>8
    <3> HIDE DEF full, responses, row, current, B, o
    <3> QED
      BY <2>8, <2>12, <2>14, <2>15, <2>18, <3>1, <3>2, <3>3 DEF Answering
  <2>20. SessionOK("commit", s)
    BY <2>18, <2>19 DEF SessionOK, Ops
  <2>21. SessionOK("commit", s)'
    BY <1>1, <2>20, SessionKept, Unchanged DEF VendorInv, TypeInv, dbVars
  <2>22. SeqsGrow
    BY <1>1, SeqsKept DEF dbVars
  <2> QED
    BY <1>1, <2>17, <2>18, <2>21, <2>22, QuietMove
    DEF SeqsGrow, Moves, dbVars, VendorInv, TypeInv, TypeOK
<1> QED
  BY <1>2, <1>3
------------------------------------------------------------------------------
\* What a commit writes.
LEMMA CommitVendors ==
    ASSUME VendorInv, NEW h \in Handlers, Commit(h)
    PROVE  /\ DOMAIN vendors \subseteq DOMAIN vendors' /\ DOMAIN vendors' \subseteq 1..MaxVendors
           /\ \A v \in DOMAIN vendors' : vendors'[v] \in VendorRow
<1>1. PICK s : s = sess[h]
  OBVIOUS
<1>2. SessionOK("commit", s)
  BY <1>1 DEF Commit, VendorInv, TypeInv
<1>3. \A v \in DOMAIN vendors : v \in 1..MaxVendors /\ vendors[v] \in VendorRow
  BY DEF VendorInv, TypeInv, TypeOK
<1>4. CASE s.op = "create"
  <2>1. vendors' = [k \in DOMAIN vendors \cup {s.vendor} |->
                        IF k = s.vendor THEN s.row ELSE vendors[k]]
    BY <1>1, <1>4 DEF Commit, Put
  <2>2. s.vendor \in 1..MaxVendors /\ s.row \in VendorRow
    BY <1>2, <1>4 DEF SessionOK
  <2> QED
    BY <1>3, <2>1, <2>2
<1>5. CASE s.op # "create"
  <2>1. vendors' = [vendors EXCEPT ![s.vendor] = MergeDims(vendors[s.vendor], s.read, s.row)]
    BY <1>1, <1>5 DEF Commit
  <2>2. s.vendor \in DOMAIN vendors /\ s.read \in VendorRow /\ s.row \in VendorRow
    BY <1>2, <1>5 DEF SessionOK, Loaded
  <2>3. PICK m : m = MergeDims(vendors[s.vendor], s.read, s.row)
    OBVIOUS
  <2>4. m \in VendorRow
    BY <1>3, <2>2, <2>3, MergeVendor
  <2> QED
    BY <1>3, <2>1, <2>3, <2>4
<1> QED
  BY <1>4, <1>5

RowsGrow ==
    /\ Grows
    /\ DOMAIN questionnaires' \subseteq 1..MaxRequests
    /\ \A q \in DOMAIN questionnaires' :
          questionnaires'[q] \in (QuestionnaireRow(questionnaires[q].tier))'
    /\ CompletedIsAnswered'

LEMMA CommitGenerated ==
    ASSUME VendorInv, NEW h \in Handlers, Commit(h), sess[h].op = "generate"
    PROVE  RowsGrow /\ DOMAIN questionnaires' = DOMAIN questionnaires \cup {sess[h].q}
<1>1. PICK s : s = sess[h]
  OBVIOUS
<1>2. SessionOK("commit", s) /\ s.op = "generate"
  BY <1>1 DEF Commit, VendorInv, TypeInv
<1>3. s.vendor \in DOMAIN vendors /\ s.read \in VendorRow /\ s.q \in 1..MaxRequests
  BY <1>2 DEF SessionOK, Loaded
<1>4. s.q \notin DOMAIN questionnaires
  BY <1>1, <1>2 DEF Commit, Generates, VendorInv, Fresh
<1>5. PICK n : n = NewQuestionnaire(s.vendor, s.read.tier)
  OBVIOUS
<1>6. questionnaires' = [k \in DOMAIN questionnaires \cup {s.q} |->
                            IF k = s.q THEN n ELSE questionnaires[k]]
  BY <1>1, <1>2, <1>5 DEF Commit, Put
<1>7. DOMAIN questionnaires' = DOMAIN questionnaires \cup {s.q}
      /\ questionnaires'[s.q] = n
      /\ \A q \in DOMAIN questionnaires : questionnaires'[q] = questionnaires[q]
  BY <1>4, <1>6
<1>8. DOMAIN vendors \subseteq DOMAIN vendors'
  BY CommitVendors
<1>9. Grows
  BY <1>7, <1>8 DEF Grows
<1>10. n.tier = s.read.tier /\ n.status = "SENT" /\ n \in QuestionnaireRow(n.tier)
  <2>1. NoResponse \in [answer : Answers \cup {Unanswered}, score : {NoScore, 0, 50, 100}]
    BY DEF NoResponse
  <2>2. n.tier = s.read.tier /\ n.status = "SENT"
    BY <1>5 DEF NewQuestionnaire
  <2> QED
    BY <1>3, <1>5, <2>1, <2>2 DEF NewQuestionnaire, QuestionnaireRow
<1>11. \A q \in DOMAIN questionnaires' :
          questionnaires'[q] \in (QuestionnaireRow(questionnaires[q].tier))'
  <2> SUFFICES ASSUME NEW q \in DOMAIN questionnaires'
               PROVE  questionnaires'[q] \in (QuestionnaireRow(questionnaires[q].tier))'
    OBVIOUS
  <2>1. PICK row, tier : row = questionnaires'[q] /\ tier = row.tier
    OBVIOUS
  <2>2. row \in QuestionnaireRow(tier)
    BY <1>7, <1>10, <2>1 DEF VendorInv, TypeInv, TypeOK
  <2>3. row \in (QuestionnaireRow(tier))'
    BY <1>8, <2>2, QuestionnaireRowGrows
  <2>4. row.tier = questionnaires'[q].tier
    BY <2>1
  <2> QED
    BY <2>1, <2>3, <2>4 DEF QuestionnaireRow
<1>12. CompletedIsAnswered'
  BY <1>7, <1>10 DEF VendorInv, CompletedIsAnswered
<1>13. DOMAIN questionnaires' \subseteq 1..MaxRequests
  BY <1>3, <1>7 DEF VendorInv, TypeInv, TypeOK
<1> QED
  BY <1>1, <1>7, <1>9, <1>11, <1>12, <1>13 DEF RowsGrow

LEMMA CommitAnswered ==
    ASSUME VendorInv, NEW h \in Handlers, Commit(h), sess[h].op = "answer"
    PROVE  RowsGrow /\ DOMAIN questionnaires' = DOMAIN questionnaires
<1>1. PICK s : s = sess[h]
  OBVIOUS
<1>2. SessionOK("commit", s) /\ s.op = "answer"
  BY <1>1 DEF Commit, VendorInv, TypeInv
<1>3. Answering(s) /\ Reading(s)
  BY <1>2 DEF SessionOK, Answering
<1>4. PICK c, r, w, m, tier : /\ c = questionnaires[s.q] /\ r = s.qread /\ w = s.qrow
                              /\ m = MergeResponses(c, r, w) /\ tier = questionnaires[s.q].tier
  OBVIOUS
<1>5. c \in QuestionnaireRow(tier) /\ r \in QuestionnaireRow(tier) /\ w \in QuestionnaireRow(tier)
  BY <1>3, <1>4 DEF Answering, Reading, VendorInv, TypeInv, TypeOK
<1>6. /\ m \in QuestionnaireRow(tier)
      /\ m.status = IF w.status # r.status THEN w.status ELSE c.status
      /\ m.tier = c.tier /\ (w.vendor = r.vendor => m.vendor = c.vendor)
      /\ DOMAIN m.responses = DOMAIN c.responses
      /\ \A code \in DOMAIN c.responses :
            m.responses[code].answer =
                IF w.responses[code].answer # r.responses[code].answer
                THEN w.responses[code].answer ELSE c.responses[code].answer
  BY SMTT(30), <1>4, <1>5, MergeAnswers
<1>7. questionnaires' = [questionnaires EXCEPT ![s.q] = m]
  BY <1>1, <1>2, <1>4 DEF Commit
<1>8. DOMAIN questionnaires' = DOMAIN questionnaires /\ s.q \in DOMAIN questionnaires
      /\ questionnaires'[s.q] = m
      /\ \A q \in DOMAIN questionnaires : q # s.q => questionnaires'[q] = questionnaires[q]
  BY <1>3, <1>7 DEF Reading
<1>9. DOMAIN vendors \subseteq DOMAIN vendors'
  BY CommitVendors
<1>10. DOMAIN r.responses = DOMAIN c.responses /\ DOMAIN w.responses = DOMAIN c.responses
  BY <1>5 DEF QuestionnaireRow
<1>11. \A code \in DOMAIN c.responses :
          /\ r.responses[code].answer # Unanswered => c.responses[code].answer # Unanswered
          /\ \/ w.responses[code].answer = r.responses[code].answer
             \/ w.responses[code].answer # Unanswered
  BY <1>3, <1>4, <1>10 DEF Answering
<1>12. \A code \in DOMAIN c.responses :
          c.responses[code].answer # Unanswered => m.responses[code].answer # Unanswered
  BY <1>6, <1>11
<1>13. w.vendor = r.vendor /\ m.vendor = c.vendor
  BY <1>3, <1>4, <1>6 DEF Answering, Reading
<1>14. Grows
  BY <1>4, <1>6, <1>8, <1>9, <1>12, <1>13 DEF Grows
<1>15. \A q \in DOMAIN questionnaires' :
          questionnaires'[q] \in (QuestionnaireRow(questionnaires[q].tier))'
  <2> SUFFICES ASSUME NEW q \in DOMAIN questionnaires'
               PROVE  questionnaires'[q] \in (QuestionnaireRow(questionnaires[q].tier))'
    OBVIOUS
  <2>1. PICK row, t : row = questionnaires'[q] /\ t = row.tier
    OBVIOUS
  <2>2. row \in QuestionnaireRow(t)
    <3>1. CASE q = s.q
      BY <1>4, <1>6, <1>8, <2>1, <3>1
    <3>2. CASE q # s.q
      BY <1>8, <2>1, <3>2 DEF VendorInv, TypeInv, TypeOK
    <3> QED
      BY <3>1, <3>2
  <2>3. row \in (QuestionnaireRow(t))'
    BY <1>9, <2>2, QuestionnaireRowGrows
  <2>4. t = questionnaires'[q].tier
    BY <2>1
  <2> QED
    BY <2>1, <2>3, <2>4 DEF QuestionnaireRow
<1>16. m.status = "COMPLETED" =>
          \A code \in DOMAIN m.responses : m.responses[code].answer # Unanswered
  <2>1. CASE w.status # r.status /\ w.status = "COMPLETED"
    <3>1. \A code \in DOMAIN c.responses : w.responses[code].answer # Unanswered
      BY <1>3, <1>4, <1>10, <2>1 DEF Answering
    <3> QED
      BY <1>6, <1>11, <3>1
  <2>2. CASE w.status = r.status /\ c.status = "COMPLETED"
    <3>1. \A code \in DOMAIN c.responses : c.responses[code].answer # Unanswered
      BY <1>4, <1>8, <2>2 DEF VendorInv, CompletedIsAnswered
    <3> QED
      BY <1>6, <1>12, <3>1
  <2> QED
    BY <1>6, <2>1, <2>2
<1>17. CompletedIsAnswered'
  BY <1>8, <1>16 DEF VendorInv, CompletedIsAnswered
<1>18. DOMAIN questionnaires' \subseteq 1..MaxRequests
  BY <1>8 DEF VendorInv, TypeInv, TypeOK
<1> QED
  BY <1>8, <1>14, <1>15, <1>17, <1>18 DEF RowsGrow

LEMMA CommitOther ==
    ASSUME VendorInv, NEW h \in Handlers, Commit(h), sess[h].op \notin {"generate", "answer"}
    PROVE  RowsGrow /\ UNCHANGED questionnaires
<1>1. questionnaires' = questionnaires
  BY DEF Commit
<1>2. DOMAIN vendors \subseteq DOMAIN vendors'
  BY CommitVendors
<1>3. Grows
  BY <1>1, <1>2 DEF Grows
<1>4. \A q \in DOMAIN questionnaires' :
          questionnaires'[q] \in (QuestionnaireRow(questionnaires[q].tier))'
  <2> SUFFICES ASSUME NEW q \in DOMAIN questionnaires'
               PROVE  questionnaires'[q] \in (QuestionnaireRow(questionnaires[q].tier))'
    OBVIOUS
  <2>1. PICK row, t : row = questionnaires'[q] /\ t = row.tier
    OBVIOUS
  <2>2. row \in QuestionnaireRow(t)
    BY <1>1, <2>1 DEF VendorInv, TypeInv, TypeOK
  <2>3. row \in (QuestionnaireRow(t))'
    BY <1>2, <2>2, QuestionnaireRowGrows
  <2>4. t = questionnaires'[q].tier
    BY <2>1
  <2> QED
    BY <2>1, <2>3, <2>4 DEF QuestionnaireRow
<1>5. CompletedIsAnswered'
  BY <1>1 DEF VendorInv, CompletedIsAnswered
<1> QED
  BY <1>1, <1>3, <1>4, <1>5 DEF RowsGrow, VendorInv, TypeInv, TypeOK

LEMMA StepCommit ==
    ASSUME VendorInv, NEW h \in Handlers, Commit(h) PROVE VendorInv'
<1>1. PICK s : s = sess[h]
  OBVIOUS
<1>2. SessionOK("commit", s) /\ pc[h] = "commit"
  BY <1>1 DEF Commit, VendorInv, TypeInv
<1>3. RowsGrow
  BY CommitGenerated, CommitAnswered, CommitOther
<1>4. \A q \in DOMAIN questionnaires' :
          q \in DOMAIN questionnaires \/ (Generates(h) /\ q = sess[h].q)
  <2>1. CASE sess[h].op = "generate"
    <3>1. Generates(h)
      BY <1>2, <2>1 DEF Generates
    <3> QED
      BY <2>1, <3>1, CommitGenerated
  <2>2. CASE sess[h].op = "answer"
    BY <2>2, CommitAnswered
  <2>3. CASE sess[h].op \notin {"generate", "answer"}
    BY <2>3, CommitOther
  <2> QED
    BY <2>1, <2>2, <2>3
<1>5. UNCHANGED <<files, seqs>>
      /\ documents' \subseteq [id : 1..MaxRequests, vendor : 1..MaxVendors]
  <2>1. s.op = "upload" => s.q \in 1..MaxRequests /\ s.vendor \in 1..MaxVendors
    BY <1>2 DEF SessionOK, Loaded, VendorInv, TypeInv, TypeOK
  <2> QED
    BY <1>1, <2>1 DEF Commit, VendorInv, TypeInv, TypeOK
<1>6. PICK step, r :
          /\ step \in {"refresh", "publish", "idle"}
          /\ Move(h, step, r)
          /\ \/ step = "idle" /\ r = NoSession
             \/ step # "idle" /\ r = s
          /\ step = "refresh" => s.op = "transition"
  <2>1. CASE Moved(s)
    <3>1. Move(h, IF s.op = "transition" THEN "refresh" ELSE "publish", s)
      BY <1>1, <2>1 DEF Commit
    <3> QED
      BY <3>1
  <2>2. CASE ~Moved(s)
    BY <1>1, <2>2 DEF Commit, Finish
  <2> QED
    BY <2>1, <2>2
<1>7. SessionOK(step, r)
  <2>1. CASE step = "idle"
    BY <1>6, <2>1 DEF SessionOK, IsSession, NoSession
  <2>2. CASE step # "idle"
    BY <1>2, <1>6, <2>2 DEF SessionOK
  <2> QED
    BY <2>1, <2>2
<1>8. SessionOK(step, r)'
  BY <1>3, <1>7, SessionKept DEF RowsGrow, VendorInv, TypeInv
<1>9. TypeOK'
  <2>1. pc' \in [Handlers \cup Listers ->
                    {"idle", "latest", "responses", "store", "commit", "refresh", "publish",
                     "count", "page"}]
    BY <1>6 DEF Move, VendorInv, TypeInv, TypeOK
  <2>2. files' \subseteq 1..MaxRequests
    BY <1>5 DEF VendorInv, TypeInv, TypeOK
  <2> QED
    BY <1>3, <1>5, <2>1, <2>2, CommitVendors, VendorRowSame DEF RowsGrow, TypeOK
<1>10. TypeInv'
  BY <1>3, <1>5, <1>6, <1>8, <1>9, OneMoves DEF RowsGrow, VendorInv, TypeInv
<1>11. Fresh'
  <2>1. \A g \in Handlers : g # h => pc'[g] = pc[g] /\ sess'[g] = sess[g]
    BY <1>6 DEF Move, VendorInv, TypeInv, TypeOK
  <2>2. pc'[h] # "commit"
    BY <1>6 DEF Move, VendorInv, TypeInv, TypeOK
  <2>3. \A g \in Handlers : Generates(g)' => Generates(g) /\ g # h /\ sess'[g].q = sess[g].q
    BY <2>1, <2>2 DEF Generates
  <2>4. \A q \in DOMAIN questionnaires' : q <= seqs'.q
    BY <1>4, <1>5 DEF VendorInv, Fresh
  <2>5. \A g \in Handlers : Generates(g)' =>
            sess'[g].q <= seqs'.q /\ sess'[g].q \notin DOMAIN questionnaires'
    BY <1>4, <1>5, <2>3 DEF VendorInv, Fresh
  <2>6. \A g, k \in Handlers : Generates(g)' /\ Generates(k)' /\ sess'[g].q = sess'[k].q => g = k
    BY <2>3 DEF VendorInv, Fresh
  <2> QED
    BY <2>4, <2>5, <2>6 DEF Fresh
<1> QED
  BY <1>3, <1>10, <1>11 DEF RowsGrow, VendorInv
------------------------------------------------------------------------------
LEMMA VendorInit == Init => VendorInv
<1> SUFFICES ASSUME Init PROVE VendorInv
  OBVIOUS
<1>1. DOMAIN vendors = {} /\ DOMAIN questionnaires = {} /\ documents = {} /\ files = {}
  BY DEF Init
<1>2. pc \in [Handlers \cup Listers -> {"idle"}]
  BY DEF Init
<1>3. TypeOK
  BY <1>1, <1>2 DEF TypeOK
<1>4. \A h \in Handlers : pc[h] = "idle" /\ sess[h] = NoSession
  BY DEF Init
<1>5. SessionOK("idle", NoSession)
  BY DEF SessionOK, IsSession, NoSession
<1>6. TypeInv
  BY <1>3, <1>4, <1>5 DEF TypeInv, Init
<1>7. Fresh
  BY <1>1, <1>4 DEF Fresh, Generates
<1> QED
  BY <1>1, <1>6, <1>7 DEF VendorInv, CompletedIsAnswered

\* Sessions that stay where they are.
LEMMA SameSessions ==
    ASSUME VendorInv, UNCHANGED dbVars, sess' = sess, \A h \in Handlers : pc'[h] = pc[h]
    PROVE  \A h \in Handlers : SessionOK(pc[h], sess[h])'
<1> SUFFICES ASSUME NEW h \in Handlers PROVE SessionOK(pc[h], sess[h])'
  OBVIOUS
<1>1. PICK p, x : p = pc[h] /\ x = sess[h]
  OBVIOUS
<1>2. SessionOK(p, x)
  BY <1>1 DEF VendorInv, TypeInv
<1>3. SessionOK(p, x)'
  BY <1>2, SessionKept, Unchanged DEF VendorInv, TypeInv, dbVars
<1>4. p = pc'[h] /\ x = sess'[h]
  BY <1>1
<1> QED
  BY <1>3, <1>4 DEF SessionOK, IsSession, Loaded, Reading, Answering

\* Listings read.
LEMMA StepListing ==
    ASSUME VendorInv, NEW l \in Listers,
           StartListing(l) \/ CountVendors(l) \/ ReadPage(l) \/ ListingFails(l)
    PROVE  VendorInv'
<1>1. PICK step, record :
          step \in {"count", "page", "idle"} /\ Turn(l, step, record)
  <2>1. CASE StartListing(l)
    BY <2>1 DEF StartListing
  <2>2. CASE CountVendors(l)
    BY <2>2 DEF CountVendors
  <2>3. CASE ReadPage(l)
    <3>1. \E record : Turn(l, "idle", record) \/ Turn(l, "count", record)
      BY <2>3 DEF ReadPage
    <3> QED
      BY <3>1
  <2>4. CASE ListingFails(l)
    BY <2>4 DEF ListingFails
  <2> QED
    BY <2>1, <2>2, <2>3, <2>4
<1>2. UNCHANGED dbVars /\ sess' = sess /\ pc' = [pc EXCEPT ![l] = step]
  BY <1>1 DEF Turn
<1>3. \A h \in Handlers : pc'[h] = pc[h]
  BY <1>2, HandlerAssumption DEF VendorInv, TypeInv, TypeOK
<1>4. TypeOK'
  <2>1. pc' \in [Handlers \cup Listers ->
                    {"idle", "latest", "responses", "store", "commit", "refresh", "publish",
                     "count", "page"}]
    BY <1>1, <1>2 DEF VendorInv, TypeInv, TypeOK
  <2>2. \A tier : (QuestionnaireRow(tier))' = QuestionnaireRow(tier)
    BY <1>2 DEF QuestionnaireRow, dbVars
  <2> QED
    BY <1>2, <2>1, <2>2, VendorRowSame DEF VendorInv, TypeInv, TypeOK, dbVars
<1>5. \A h \in Handlers : SessionOK(pc[h], sess[h])'
  BY <1>2, <1>3, SameSessions
<1>6. TypeInv'
  BY <1>2, <1>4, <1>5 DEF VendorInv, TypeInv, dbVars
<1>7. Fresh'
  BY <1>2, <1>3 DEF VendorInv, Fresh, Generates, dbVars
<1>8. CompletedIsAnswered'
  BY <1>2 DEF VendorInv, CompletedIsAnswered, dbVars
<1> QED
  BY <1>6, <1>7, <1>8 DEF VendorInv

LEMMA StepNone ==
    ASSUME VendorInv, UNCHANGED vars PROVE VendorInv'
<1>1. UNCHANGED dbVars /\ sess' = sess /\ pc' = pc
  BY DEF vars
<1>2. TypeOK'
  <2>1. \A tier : (QuestionnaireRow(tier))' = QuestionnaireRow(tier)
    BY <1>1 DEF QuestionnaireRow, dbVars
  <2> QED
    BY <1>1, <2>1, VendorRowSame DEF VendorInv, TypeInv, TypeOK, dbVars
<1>3. \A h \in Handlers : SessionOK(pc[h], sess[h])'
  BY <1>1, SameSessions
<1>4. TypeInv'
  BY <1>1, <1>2, <1>3 DEF VendorInv, TypeInv, dbVars
<1>5. Fresh'
  BY <1>1 DEF VendorInv, Fresh, Generates, dbVars
<1>6. CompletedIsAnswered'
  BY <1>1 DEF VendorInv, CompletedIsAnswered, dbVars
<1> QED
  BY <1>4, <1>5, <1>6 DEF VendorInv

\* The inductive step.
LEMMA VendorNext == VendorInv /\ [Next]_vars => VendorInv'
<1> SUFFICES ASSUME VendorInv, [Next]_vars PROVE VendorInv'
  OBVIOUS
<1>1. CASE UNCHANGED vars
  BY <1>1, StepNone
<1>2. ASSUME NEW h \in Patchers, UpdateVendor(h) PROVE VendorInv'
  BY <1>2, StepUpdateVendor
<1>3. ASSUME NEW h \in Handlers, Start(h) PROVE VendorInv'
  BY <1>3, StepCreateVendor, StepTransitionVendor, StepGenerateQuestionnaire,
     StepUpdateResponses, StepUploadDocument DEF Start
<1>4. ASSUME NEW h \in Handlers, Step(h) PROVE VendorInv'
  BY <1>4, StepReadLatest, StepReadResponses, StepStoreFile, StepCommit, StepRefresh, StepEnds
  DEF Step
<1>5. ASSUME NEW h \in Handlers, PublishFails(h) \/ Crash(h) PROVE VendorInv'
  BY <1>5, StepEnds
<1>6. ASSUME NEW l \in Listers,
             StartListing(l) \/ CountVendors(l) \/ ReadPage(l) \/ ListingFails(l)
      PROVE  VendorInv'
  BY <1>6, StepListing
<1> QED
  BY <1>1, <1>2, <1>3, <1>4, <1>5, <1>6 DEF Next, Action, Quiescent

LEMMA AlwaysVendorInv == Spec => []VendorInv
BY VendorInit, VendorNext, PTL DEF Spec

\* The tables keep their shape, whatever requests run at once and wherever they are
\* cut off.
THEOREM VendorTypes == Spec => []TypeOK
<1>1. VendorInv => TypeOK
  BY DEF VendorInv, TypeInv
<1> QED
  BY <1>1, AlwaysVendorInv, PTL

\* update_responses: a completed questionnaire has an answer to every question,
\* although the sessions that answer it overwrite each other's columns.
THEOREM CompletionIsFull == Spec => []CompletedIsAnswered
<1>1. VendorInv => CompletedIsAnswered
  BY DEF VendorInv
<1> QED
  BY <1>1, AlwaysVendorInv, PTL
------------------------------------------------------------------------------
\* Only a commit writes questionnaires or document rows.
LEMMA OnlyCommitsWrite ==
    ASSUME [Next]_vars, \A h \in Handlers : ~Commit(h)
    PROVE  UNCHANGED <<questionnaires, documents>>
<1>1. CASE UNCHANGED vars
  BY SMTT(30), <1>1 DEF vars, dbVars
<1>2. ASSUME NEW h \in Handlers, Start(h) \/ UpdateVendor(h)
      PROVE  UNCHANGED <<questionnaires, documents>>
  BY <1>2 DEF Start, CreateVendor, UpdateVendor, TransitionVendor, GenerateQuestionnaire,
              UpdateResponses, UploadDocument, Request, Begin
<1>3. ASSUME NEW h \in Handlers, Step(h) \/ PublishFails(h) \/ Crash(h)
      PROVE  UNCHANGED <<questionnaires, documents>>
  BY <1>3 DEF Step, ReadLatest, ReadResponses, StoreFile, Refresh, Publish, PublishFails, Crash,
              dbVars
<1>4. ASSUME NEW l \in Listers,
             StartListing(l) \/ CountVendors(l) \/ ReadPage(l) \/ ListingFails(l)
      PROVE  UNCHANGED <<questionnaires, documents>>
  BY <1>4 DEF StartListing, CountVendors, ReadPage, ListingFails, Turn, dbVars
<1> QED
  BY <1>1, <1>2, <1>3, <1>4, HandlerAssumption DEF Next, Action, Quiescent

\* Only an answer completes a questionnaire that existed before, and its session
\* changed the state of the vendor it read.
LEMMA CompletionStep ==
    ASSUME VendorInv, [Next]_vars, NEW q \in DOMAIN questionnaires,
           questionnaires[q].status # "COMPLETED", questionnaires'[q].status = "COMPLETED"
    PROVE  vendors'[questionnaires[q].vendor].state = "QUESTIONNAIRE_COMPLETED"
<1>1. PICK h \in Handlers : Commit(h)
  BY OnlyCommitsWrite
<1>2. PICK s : s = sess[h]
  OBVIOUS
<1>3. SessionOK("commit", s)
  BY <1>1, <1>2 DEF Commit, VendorInv, TypeInv
<1>4. s.op = "answer"
  <2>1. CASE s.op = "generate"
    <3>1. questionnaires' = Put(questionnaires, s.q, NewQuestionnaire(s.vendor, s.read.tier))
      BY <1>1, <1>2, <2>1 DEF Commit
    <3>2. s.q \notin DOMAIN questionnaires
      BY <1>1, <1>2, <2>1 DEF Commit, Generates, VendorInv, Fresh
    <3>3. questionnaires'[q] = questionnaires[q]
      BY <3>1, <3>2 DEF Put
    <3> QED
      BY <3>3
  <2>2. CASE s.op \notin {"generate", "answer"}
    BY <1>1, <1>2, <2>2, CommitOther
  <2> QED
    BY <2>1, <2>2
<1>5. Answering(s) /\ Reading(s) /\ Loaded(s)
  BY <1>3, <1>4 DEF SessionOK, Answering
<1>6. PICK c, m : c = questionnaires[s.q] /\ m = MergeResponses(c, s.qread, s.qrow)
  OBVIOUS
<1>7. questionnaires' = [questionnaires EXCEPT ![s.q] = m]
  BY <1>1, <1>2, <1>4, <1>6 DEF Commit
<1>8. q = s.q /\ m.status = "COMPLETED" /\ c.status # "COMPLETED"
  BY <1>6, <1>7
<1>9. m.status = IF s.qrow.status # s.qread.status THEN s.qrow.status ELSE c.status
  <2>1. c \in QuestionnaireRow(c.tier) /\ s.qread \in QuestionnaireRow(c.tier)
        /\ s.qrow \in QuestionnaireRow(c.tier)
    BY <1>5, <1>6 DEF Answering, Reading, VendorInv, TypeInv, TypeOK
  <2> QED
    BY <1>6, <2>1, MergeAnswers
<1>10. s.row.state = "QUESTIONNAIRE_COMPLETED" /\ s.read.state # s.row.state
  BY <1>5, <1>8, <1>9 DEF Answering
<1>11. s.vendor = questionnaires[q].vendor
  BY <1>5, <1>8 DEF Reading
<1>12. vendors' = [vendors EXCEPT ![s.vendor] = MergeDims(vendors[s.vendor], s.read, s.row)]
  BY <1>1, <1>2, <1>4 DEF Commit
<1>13. s.vendor \in DOMAIN vendors /\ vendors[s.vendor] \in VendorRow
       /\ s.read \in VendorRow /\ s.row \in VendorRow
  BY <1>5 DEF Loaded, VendorInv, TypeInv, TypeOK
<1>14. PICK v : v = MergeDims(vendors[s.vendor], s.read, s.row)
  OBVIOUS
<1>15. v.state = "QUESTIONNAIRE_COMPLETED"
  BY <1>10, <1>13, <1>14, MergeVendor
<1> QED
  BY <1>11, <1>12, <1>13, <1>14, <1>15

\* update_responses: the commit that completes a questionnaire moves its vendor.
THEOREM CompletionMoves == Spec => CompletionMovesVendor
<1>1. VendorInv /\ [Next]_vars =>
        [\A q \in DOMAIN questionnaires :
            questionnaires[q].status # "COMPLETED" /\ questionnaires'[q].status = "COMPLETED" =>
              vendors'[questionnaires[q].vendor].state = "QUESTIONNAIRE_COMPLETED"]_vars
  BY CompletionStep
<1> QED
  BY <1>1, AlwaysVendorInv, PTL DEF Spec, CompletionMovesVendor

------------------------------------------------------------------------------
\* The file of a document that is about to be committed has been written.
FilesFirst ==
    /\ DocumentsHaveFiles
    /\ \A h \in Handlers : pc[h] = "commit" /\ sess[h].op = "upload" => sess[h].q \in files

LEMMA FilesFirstNext == VendorInv /\ FilesFirst /\ [Next]_vars => FilesFirst'
<1> SUFFICES ASSUME VendorInv, FilesFirst, [Next]_vars PROVE FilesFirst'
  OBVIOUS
<1>1. files \subseteq files'
  <2>1. CASE UNCHANGED vars
    BY SMTT(30), <2>1 DEF vars, dbVars
  <2>2. ASSUME NEW h \in Handlers, Start(h) \/ UpdateVendor(h) PROVE files \subseteq files'
    BY <2>2 DEF Start, CreateVendor, UpdateVendor, TransitionVendor, GenerateQuestionnaire,
                UpdateResponses, UploadDocument, Request, Begin
  <2>3. ASSUME NEW h \in Handlers, Step(h) \/ PublishFails(h) \/ Crash(h)
        PROVE  files \subseteq files'
    BY <2>3 DEF Step, ReadLatest, ReadResponses, StoreFile, Commit, Refresh, Publish,
                PublishFails, Crash, dbVars
  <2>4. ASSUME NEW l \in Listers,
               StartListing(l) \/ CountVendors(l) \/ ReadPage(l) \/ ListingFails(l)
        PROVE  files \subseteq files'
    BY <2>4 DEF StartListing, CountVendors, ReadPage, ListingFails, Turn, dbVars
  <2> QED
    BY <2>1, <2>2, <2>3, <2>4, HandlerAssumption DEF Next, Action, Quiescent
<1>2. DocumentsHaveFiles'
  <2>1. CASE \A h \in Handlers : ~Commit(h)
    BY <1>1, <2>1, OnlyCommitsWrite DEF FilesFirst, DocumentsHaveFiles
  <2>2. ASSUME NEW h \in Handlers, Commit(h) PROVE DocumentsHaveFiles'
    BY <1>1, <2>2 DEF Commit, FilesFirst, DocumentsHaveFiles
  <2> QED
    BY <2>1, <2>2
<1> DEFINE Ready(step, s) == step = "commit" /\ s.op = "upload" => s.q \in files'
<1>3. ASSUME NEW g \in Handlers, NEW step, NEW s, Move(g, step, s), Ready(step, s)
      PROVE  \A h \in Handlers : Ready(pc'[h], sess'[h])
  <2>1. \A h \in Handlers : Ready(pc[h], sess[h])
    BY <1>1 DEF FilesFirst
  <2>2. \A h \in Handlers : IF h = g THEN pc'[h] = step /\ sess'[h] = s
                            ELSE pc'[h] = pc[h] /\ sess'[h] = sess[h]
    BY <1>3 DEF Move, VendorInv, TypeInv, TypeOK
  <2> HIDE DEF Ready
  <2> QED
    BY <1>3, <2>1, <2>2
<1>4. \A h \in Handlers : Ready(pc'[h], sess'[h])
  <2>1. ASSUME sess' = sess, \A h \in Handlers : pc'[h] = pc[h]
        PROVE  \A h \in Handlers : Ready(pc'[h], sess'[h])
    BY <1>1, <2>1 DEF FilesFirst
  <2>2. CASE UNCHANGED vars
    BY <2>1, <2>2 DEF vars
  <2>3. ASSUME NEW g \in Handlers, NEW step, NEW s, Move(g, step, s),
               step # "commit" \/ s.op # "upload"
        PROVE  \A h \in Handlers : Ready(pc'[h], sess'[h])
    BY <1>3, <2>3
  <2>4. ASSUME NEW g \in Handlers, Start(g) \/ UpdateVendor(g)
        PROVE  \A h \in Handlers : Ready(pc'[h], sess'[h])
    <3>1. \E step, s : Move(g, step, s) /\ (step # "commit" \/ s.op # "upload")
      <4>1. CASE CreateVendor(g)
        <5>1. PICK dims \in NewDims :
                Begin(g, "commit", [NoSession EXCEPT !.op = "create",
                                        !.vendor = seqs.vendor + 1, !.row = NewVendor(dims)])
          BY <4>1 DEF CreateVendor
        <5>2. PICK s : s = [NoSession EXCEPT !.op = "create", !.vendor = seqs.vendor + 1,
                                             !.row = NewVendor(dims)]
          OBVIOUS
        <5>3. Move(g, "commit", s)
          BY <5>1, <5>2 DEF Begin
        <5>4. s.op = "create"
          BY <5>2 DEF NoSession
        <5> QED
          BY <5>3, <5>4
      <4>2. ASSUME NEW op, NEW v, NEW STATE row, NEW step, NEW STATE q,
                   Request(g, op, v, row, step, q), op # "upload" \/ step # "commit"
            PROVE  \E st, s : Move(g, st, s) /\ (st # "commit" \/ s.op # "upload")
        <5>1. PICK s : s = [NoSession EXCEPT !.op = op, !.vendor = v, !.read = vendors[v],
                                             !.row = row, !.q = q]
          OBVIOUS
        <5>2. Move(g, step, s)
          BY <4>2, <5>1 DEF Request, Begin
        <5>3. s.op = op
          BY <5>1 DEF NoSession
        <5> QED
          BY <4>2, <5>2, <5>3
      <4>3. CASE UpdateVendor(g)
        BY <4>2, <4>3 DEF UpdateVendor
      <4>4. CASE TransitionVendor(g)
        BY <4>2, <4>4 DEF TransitionVendor
      <4>5. CASE GenerateQuestionnaire(g)
        BY <4>2, <4>5 DEF GenerateQuestionnaire
      <4>6. CASE UpdateResponses(g)
        BY <4>2, <4>6 DEF UpdateResponses
      <4>7. CASE UploadDocument(g)
        BY <4>2, <4>7 DEF UploadDocument
      <4> QED
        BY <2>4, <4>1, <4>3, <4>4, <4>5, <4>6, <4>7 DEF Start
    <3> QED
      BY <2>3, <3>1
  <2>5. ASSUME NEW g \in Handlers,
               ReadLatest(g) \/ Commit(g) \/ Refresh(g) \/ Publish(g) \/ PublishFails(g) \/ Crash(g)
        PROVE  \A h \in Handlers : Ready(pc'[h], sess'[h])
    <3>1. \E step, s : Move(g, step, s) /\ step # "commit"
      BY <2>5 DEF ReadLatest, Commit, Refresh, Publish, PublishFails, Crash, Finish
    <3> QED
      BY <2>3, <3>1
  <2>6. ASSUME NEW g \in Handlers, ReadResponses(g)
        PROVE  \A h \in Handlers : Ready(pc'[h], sess'[h])
    <3>1. sess[g].op = "answer"
      BY <2>6 DEF ReadResponses, VendorInv, TypeInv, SessionOK
    <3>2. CASE Finish(g)
      BY <2>3, <3>2 DEF Finish
    <3>3. CASE ~Finish(g)
      <4>1. PICK a, b, c : Move(g, "commit", WithAnswers(sess[g], a, b, c))
        <5> DEFINE o == sess[g]
                   read == [o.qread EXCEPT !.responses = questionnaires[o.q].responses]
        <5>1. PICK codes \in SUBSET DOMAIN o.qread.responses, answer \in AnswersGiven :
                LET responses == Answered(read.responses, codes, answer)
                    full == FullyAnswered(responses, codes)
                IN  IF full /\ ~MayComplete(o.read.state)
                    THEN Finish(g)
                    ELSE Move(g, "commit",
                              [o EXCEPT
                                 !.qread = read,
                                 !.qrow = [read EXCEPT
                                    !.responses = responses,
                                    !.status = IF full THEN "COMPLETED" ELSE "IN_PROGRESS"],
                                 !.row.state = IF full THEN "QUESTIONNAIRE_COMPLETED" ELSE @])
          BY <2>6 DEF ReadResponses
        <5> DEFINE responses == Answered(read.responses, codes, answer)
                   full == FullyAnswered(responses, codes)
                   qrow == [read EXCEPT !.responses = responses,
                                        !.status = IF full THEN "COMPLETED" ELSE "IN_PROGRESS"]
                   row == [o.row EXCEPT !.state = IF full THEN "QUESTIONNAIRE_COMPLETED" ELSE @]
        <5>2. Move(g, "commit", WithAnswers(o, read, qrow, row))
          BY <3>3, <5>1 DEF WithAnswers
        <5> HIDE DEF read, qrow, row
        <5> QED
          BY SMTT(30), <5>2
      <4>2. IsSession(sess[g])
        BY DEF VendorInv, TypeInv, SessionOK
      <4>3. WithAnswers(sess[g], a, b, c).op = "answer"
        BY <3>1, <4>2, SessionAnswers
      <4> QED
        BY <2>3, <4>1, <4>3
    <3> QED
      BY <3>2, <3>3
  <2>7. ASSUME NEW g \in Handlers, StoreFile(g)
        PROVE  \A h \in Handlers : Ready(pc'[h], sess'[h])
    <3>1. PICK s : s = sess[g]
      OBVIOUS
    <3>2. Move(g, "commit", s) /\ s.q \in files'
      BY <2>7, <3>1 DEF StoreFile
    <3> QED
      BY <1>3, <3>2
  <2>8. ASSUME NEW l \in Listers,
               StartListing(l) \/ CountVendors(l) \/ ReadPage(l) \/ ListingFails(l)
        PROVE  \A h \in Handlers : Ready(pc'[h], sess'[h])
    <3>1. \E step, record : Turn(l, step, record)
      BY <2>8 DEF StartListing, CountVendors, ReadPage, ListingFails
    <3>2. sess' = sess /\ \A h \in Handlers : pc'[h] = pc[h]
      BY <3>1, HandlerAssumption DEF Turn, VendorInv, TypeInv, TypeOK
    <3> QED
      BY <2>1, <3>2
  <2> HIDE DEF Ready
  <2> QED
    BY <2>2, <2>4, <2>5, <2>6, <2>7, <2>8, HandlerAssumption
    DEF Next, Action, Quiescent, Step
<1> QED
  BY <1>2, <1>4 DEF FilesFirst

\* upload_document: no document row is without its file.
THEOREM RowsHaveFiles == Spec => []DocumentsHaveFiles
<1>1. Init => FilesFirst
  BY DEF Init, FilesFirst, DocumentsHaveFiles
<1>2. FilesFirst => DocumentsHaveFiles
  BY DEF FilesFirst
<1> QED
  BY <1>1, <1>2, FilesFirstNext, AlwaysVendorInv, PTL DEF Spec

------------------------------------------------------------------------------
(* What a request may change of its vendor.                                *)

\* A creation starts the lifecycle, any other request leaves the state or takes a
\* legal step from the one it read; only a PATCH has other dimensions or another
\* tier than it read, but for the tier a transition is announced with.
ChangeOK(h, step, s) ==
    step # "idle" =>
        /\ s.op = "create" => s.read.state = "" /\ s.row.state = "INITIATED"
        /\ s.op # "create" =>
              s.row.state = s.read.state \/ ValidTransition(s.read.state, s.row.state)
        /\ step \in {"latest", "responses"} => s.row.state = s.read.state
        /\ s.op \notin {"create", "update"} =>
              s.row.dims = s.read.dims /\ (step # "publish" => s.row.tier = s.read.tier)
        /\ s.op = "update" => h \in Patchers

Creates(h) == pc[h] = "commit" /\ sess[h].op = "create"

\* No two creations take the same number, and none was used before.
NewVendors ==
    /\ \A v \in DOMAIN vendors : v <= seqs.vendor
    /\ \A h \in Handlers :
          Creates(h) => sess[h].vendor <= seqs.vendor /\ sess[h].vendor \notin DOMAIN vendors
    /\ \A g, h \in Handlers :
          Creates(g) /\ Creates(h) /\ sess[g].vendor = sess[h].vendor => g = h

ChangeInv == NewVendors /\ \A h \in Handlers : ChangeOK(h, pc[h], sess[h])

\* A request that starts takes a number when it creates, and holds its vendor.
StartsChange(h, step, s) ==
    /\ Move(h, step, s) /\ ChangeOK(h, step, s)
    /\ pc[h] = "idle" /\ step \in {"commit", "latest", "store"}
    /\ IF s.op = "create" THEN s.vendor = seqs.vendor + 1 /\ seqs'.vendor = seqs.vendor + 1
       ELSE seqs'.vendor = seqs.vendor

LEMMA RequestHolds ==
    ASSUME NEW h, NEW op, NEW v, NEW STATE row, NEW step, NEW STATE q,
           Request(h, op, v, row, step, q)
    PROVE  \E s : /\ Move(h, step, s) /\ pc[h] = "idle"
                  /\ s.op = op /\ s.vendor = v /\ s.read = vendors[v] /\ s.row = row
<1>1. PICK s : s = [NoSession EXCEPT !.op = op, !.vendor = v, !.read = vendors[v],
                                     !.row = row, !.q = q]
  OBVIOUS
<1>2. Move(h, step, s) /\ pc[h] = "idle"
  BY <1>1 DEF Request, Begin
<1>3. s.op = op /\ s.vendor = v /\ s.read = vendors[v] /\ s.row = row
  BY <1>1 DEF NoSession
<1> QED
  BY <1>2, <1>3

LEMMA TakeKeepsVendors ==
    ASSUME VendorInv, NEW seq \in {"q", "document"}, NEW bound, Take(seq, bound)
    PROVE  seqs'.vendor = seqs.vendor
BY DEF VendorInv, TypeInv, Take

LEMMA StartChanges ==
    ASSUME VendorInv, NEW h \in Handlers, Start(h) \/ (h \in Patchers /\ UpdateVendor(h))
    PROVE  \E step, s : StartsChange(h, step, s) /\ UNCHANGED <<vendors, topic>>
<1>1. CASE CreateVendor(h)
  <2>1. PICK dims \in NewDims :
          /\ Take("vendor", MaxVendors)
          /\ Begin(h, "commit", [NoSession EXCEPT
                      !.op = "create", !.vendor = seqs.vendor + 1, !.row = NewVendor(dims)])
    BY <1>1 DEF CreateVendor
  <2>2. PICK s : s = [NoSession EXCEPT
                      !.op = "create", !.vendor = seqs.vendor + 1, !.row = NewVendor(dims)]
    OBVIOUS
  <2>3. Move(h, "commit", s) /\ pc[h] = "idle" /\ UNCHANGED <<vendors, topic>>
    BY <2>1, <2>2 DEF Begin
  <2>4. /\ s.op = "create" /\ s.vendor = seqs.vendor + 1
        /\ s.read.state = "" /\ s.row.state = "INITIATED"
    BY <2>2 DEF NoSession, NoRow, NewVendor
  <2>5. seqs'.vendor = seqs.vendor + 1
    BY <2>1, TakeSeqs, VendorBoundAssumption
  <2>6. ChangeOK(h, "commit", s)
    BY <2>4 DEF ChangeOK
  <2> QED
    BY <2>3, <2>4, <2>5, <2>6 DEF StartsChange
<1>2. ASSUME NEW op \in Ops \ {"create"}, NEW v \in DOMAIN vendors, NEW STATE row,
             NEW step \in {"commit", "latest", "store"},
             NEW STATE q, Request(h, op, v, row, step, q), seqs'.vendor = seqs.vendor,
             row.state = vendors[v].state
                \/ (step # "latest" /\ ValidTransition(vendors[v].state, row.state)),
             op = "update" => h \in Patchers,
             op # "update" => row.dims = vendors[v].dims /\ row.tier = vendors[v].tier
      PROVE  \E st, s : StartsChange(h, st, s) /\ UNCHANGED <<vendors, topic>>
  <2>1. PICK s : /\ Move(h, step, s) /\ pc[h] = "idle"
                 /\ s.op = op /\ s.vendor = v /\ s.read = vendors[v] /\ s.row = row
    BY <1>2, RequestHolds
  <2>2. ChangeOK(h, step, s)
    BY <1>2, <2>1 DEF ChangeOK
  <2>3. UNCHANGED <<vendors, topic>>
    BY <1>2 DEF Request, Begin
  <2> QED
    BY <1>2, <2>1, <2>2, <2>3 DEF StartsChange
<1>3. \A v \in DOMAIN vendors : vendors[v] \in VendorRow
  BY DEF VendorInv, TypeInv, TypeOK
<1>4. CASE h \in Patchers /\ UpdateVendor(h)
  <2>1. PICK v \in DOMAIN vendors, patch \in Patches :
          LET dims == [d \in Dimensions |->
                          IF d \in DOMAIN patch THEN patch[d] ELSE vendors[v].dims[d]]
          IN  /\ Request(h, "update", v,
                         [vendors[v] EXCEPT !.dims = dims, !.tier = ComputeTier(dims)],
                         "commit", 0)
              /\ UNCHANGED seqs
    BY <1>4 DEF UpdateVendor
  <2> DEFINE dims == [d \in Dimensions |->
                          IF d \in DOMAIN patch THEN patch[d] ELSE vendors[v].dims[d]]
             row == [vendors[v] EXCEPT !.dims = dims, !.tier = ComputeTier(dims)]
  <2>2. Request(h, "update", v, row, "commit", 0) /\ UNCHANGED seqs
    BY <2>1
  <2> HIDE DEF dims
  <2>3. row.state = vendors[v].state
    BY <1>3 DEF VendorRow
  <2> HIDE DEF row
  <2> QED
    BY <1>2, <1>4, <2>2, <2>3 DEF Ops
<1>5. CASE TransitionVendor(h)
  <2>1. PICK v \in DOMAIN vendors, target \in States :
          /\ ValidTransition(vendors[v].state, target)
          /\ Request(h, "transition", v, [vendors[v] EXCEPT !.state = target], "commit", 0)
          /\ UNCHANGED seqs
    BY <1>5 DEF TransitionVendor
  <2> DEFINE row == [vendors[v] EXCEPT !.state = target]
  <2>2. row.state = target /\ row.dims = vendors[v].dims /\ row.tier = vendors[v].tier
    BY <1>3 DEF VendorRow
  <2>3. Request(h, "transition", v, row, "commit", 0)
    BY <2>1
  <2> HIDE DEF row
  <2> QED
    BY <1>2, <2>1, <2>2, <2>3 DEF Ops
<1>6. CASE GenerateQuestionnaire(h)
  <2>1. PICK v \in DOMAIN vendors :
          /\ ValidTransition(vendors[v].state, "QUESTIONNAIRE_SENT")
          /\ Take("q", MaxRequests)
          /\ Request(h, "generate", v, [vendors[v] EXCEPT !.state = "QUESTIONNAIRE_SENT"],
                     "commit", seqs.q + 1)
    BY <1>6 DEF GenerateQuestionnaire
  <2> DEFINE row == [vendors[v] EXCEPT !.state = "QUESTIONNAIRE_SENT"]
  <2>2. row.state = "QUESTIONNAIRE_SENT" /\ row.dims = vendors[v].dims /\ row.tier = vendors[v].tier
    BY <1>3 DEF VendorRow
  <2>3. Request(h, "generate", v, row, "commit", seqs.q + 1)
    BY <2>1
  <2>4. seqs'.vendor = seqs.vendor
    BY <2>1, TakeKeepsVendors
  <2> HIDE DEF row
  <2> QED
    BY <1>2, <2>1, <2>2, <2>3, <2>4 DEF Ops
<1>7. CASE UpdateResponses(h)
  BY <1>2, <1>7 DEF UpdateResponses, Ops
<1>8. CASE UploadDocument(h)
  <2>1. PICK v \in DOMAIN vendors :
          /\ Take("document", MaxRequests)
          /\ Request(h, "upload", v, vendors[v], "store", seqs.document + 1)
    BY <1>8 DEF UploadDocument
  <2>2. seqs'.vendor = seqs.vendor
    BY <2>1, TakeKeepsVendors
  <2> QED
    BY <1>2, <2>1, <2>2 DEF Ops
<1> QED
  BY <1>1, <1>4, <1>5, <1>6, <1>7, <1>8 DEF Start

\* The later steps of a request leave what it holds legal; only those a commit is
\* followed by begin at a commit.
LEMMA StepChanges ==
    ASSUME VendorInv, NEW h \in Handlers, ChangeOK(h, pc[h], sess[h]),
           Step(h) \/ PublishFails(h) \/ Crash(h)
    PROVE  \E step, s : /\ Move(h, step, s) /\ ChangeOK(h, step, s)
                        /\ ~(step = "commit" /\ s.op = "create") /\ UNCHANGED seqs
                        /\ Commit(h) \/ UNCHANGED vendors
<1>1. PICK s : s = sess[h]
  OBVIOUS
<1>2. IsSession(s) /\ ChangeOK(h, pc[h], s) /\ SessionOK(pc[h], s)
  BY <1>1 DEF VendorInv, TypeInv, SessionOK
<1>3. ASSUME Finish(h)
      PROVE  \E step, r : /\ Move(h, step, r) /\ ChangeOK(h, step, r)
                          /\ ~(step = "commit" /\ r.op = "create")
  <2>1. Move(h, "idle", NoSession)
    BY <1>3 DEF Finish
  <2>2. ChangeOK(h, "idle", NoSession)
    BY DEF ChangeOK
  <2> QED
    BY <2>1, <2>2
<1>4. CASE Publish(h) \/ PublishFails(h) \/ Crash(h)
  BY <1>3, <1>4 DEF Publish, PublishFails, Crash, dbVars
<1>5. CASE ReadLatest(h)
  <2>1. UNCHANGED <<vendors, seqs>> /\ pc[h] = "latest"
    BY <1>5 DEF ReadLatest, dbVars
  <2>2. CASE Finish(h)
    BY <1>3, <2>1, <2>2
  <2>3. CASE ~Finish(h)
    <3>1. PICK q, qread : Move(h, "responses", [s EXCEPT !.q = q, !.qread = qread])
      BY <1>1, <1>5, <2>3 DEF ReadLatest
    <3>2. PICK r : r = [s EXCEPT !.q = q, !.qread = qread]
      OBVIOUS
    <3>3. r.op = s.op /\ r.read = s.read /\ r.row = s.row
      BY <1>2, <3>2 DEF IsSession
    <3>4. ChangeOK(h, "responses", r)
      BY <1>2, <2>1, <3>3 DEF ChangeOK
    <3> QED
      BY <2>1, <3>1, <3>2, <3>4
  <2> QED
    BY <2>2, <2>3
<1>6. CASE ReadResponses(h)
  <2>1. UNCHANGED <<vendors, seqs>> /\ pc[h] = "responses"
    BY <1>6 DEF ReadResponses, dbVars
  <2>2. CASE Finish(h)
    BY <1>3, <2>1, <2>2
  <2>3. CASE ~Finish(h)
    <3>1. PICK a, b, c : /\ Move(h, "commit", WithAnswers(s, a, b, c))
                         /\ \/ c = s.row
                            \/ /\ c = [s.row EXCEPT !.state = "QUESTIONNAIRE_COMPLETED"]
                               /\ ValidTransition(s.read.state, "QUESTIONNAIRE_COMPLETED")
      <4> DEFINE read == [s.qread EXCEPT !.responses = questionnaires[s.q].responses]
      <4>1. PICK codes \in SUBSET DOMAIN s.qread.responses, answer \in AnswersGiven :
              LET responses == Answered(read.responses, codes, answer)
                  full == FullyAnswered(responses, codes)
              IN  IF full /\ ~MayComplete(s.read.state)
                  THEN Finish(h)
                  ELSE Move(h, "commit",
                            [s EXCEPT
                               !.qread = read,
                               !.qrow = [read EXCEPT
                                  !.responses = responses,
                                  !.status = IF full THEN "COMPLETED" ELSE "IN_PROGRESS"],
                               !.row.state = IF full THEN "QUESTIONNAIRE_COMPLETED" ELSE @])
        BY <1>1, <1>6 DEF ReadResponses
      <4> DEFINE responses == Answered(read.responses, codes, answer)
                 full == FullyAnswered(responses, codes)
                 qrow == [read EXCEPT !.responses = responses,
                                      !.status = IF full THEN "COMPLETED" ELSE "IN_PROGRESS"]
                 row == [s.row EXCEPT !.state = IF full THEN "QUESTIONNAIRE_COMPLETED" ELSE @]
      <4>2. /\ Move(h, "commit", WithAnswers(s, read, qrow, row))
            /\ full => MayComplete(s.read.state)
        BY <2>3, <4>1 DEF WithAnswers
      <4>3. s.row \in VendorRow
        BY <1>2, <2>1 DEF SessionOK, Reading, Loaded
      <4>4. ~full => row = s.row
        BY <4>3 DEF VendorRow
      <4>5. full => row = [s.row EXCEPT !.state = "QUESTIONNAIRE_COMPLETED"]
        OBVIOUS
      <4> HIDE DEF read, qrow, full, row
      <4> QED
        BY SMTT(30), <4>2, <4>4, <4>5 DEF MayComplete
    <3>2. PICK r : r = WithAnswers(s, a, b, c)
      OBVIOUS
    <3>3. r.op = s.op /\ r.read = s.read /\ r.row = c
      BY <1>2, <3>2 DEF IsSession, WithAnswers
    <3>4. s.row \in VendorRow /\ s.op = "answer"
      BY <1>2, <2>1 DEF SessionOK, Reading, Loaded
    <3>5. ChangeOK(h, "commit", r)
      BY <1>2, <2>1, <3>1, <3>3, <3>4 DEF ChangeOK, VendorRow
    <3> QED
      BY <2>1, <3>1, <3>2, <3>3, <3>4, <3>5
  <2> QED
    BY <2>2, <2>3
<1>7. CASE StoreFile(h)
  <2>1. Move(h, "commit", s) /\ UNCHANGED <<vendors, seqs>> /\ pc[h] = "store"
    BY <1>1, <1>7 DEF StoreFile
  <2>2. s.op = "upload"
    BY <1>2, <2>1 DEF SessionOK
  <2>3. ChangeOK(h, "commit", s)
    BY <1>2, <2>1 DEF ChangeOK
  <2> QED
    BY <2>1, <2>2, <2>3
<1>8. CASE Commit(h)
  <2>1. UNCHANGED seqs /\ pc[h] = "commit"
    BY <1>8 DEF Commit
  <2>2. CASE Finish(h)
    BY <1>3, <1>8, <2>1, <2>2
  <2>3. CASE ~Finish(h)
    <3>1. PICK step \in {"refresh", "publish"} : Move(h, step, s)
      BY <1>1, <1>8, <2>3 DEF Commit
    <3>2. ChangeOK(h, step, s)
      BY <1>2, <2>1 DEF ChangeOK
    <3> QED
      BY <1>8, <2>1, <3>1, <3>2
  <2> QED
    BY <2>2, <2>3
<1>9. CASE Refresh(h)
  <2>1. UNCHANGED <<vendors, seqs>> /\ pc[h] = "refresh"
    BY <1>9 DEF Refresh, dbVars
  <2>2. PICK t : Move(h, "publish", [s EXCEPT !.row.tier = t])
    BY <1>1, <1>9 DEF Refresh
  <2>3. PICK r : r = [s EXCEPT !.row.tier = t]
    OBVIOUS
  <2>4. s.op = "transition"
    BY <1>2, <2>1 DEF SessionOK
  <2>5. s.row \in VendorRow
    BY <1>2, <2>1, <2>4 DEF SessionOK, Loaded
  <2>6. r.op = s.op /\ r.read = s.read /\ r.row = [s.row EXCEPT !.tier = t]
    BY <1>2, <2>3 DEF IsSession
  <2>7. r.row.state = s.row.state /\ r.row.dims = s.row.dims
    BY <2>5, <2>6 DEF VendorRow
  <2>8. ChangeOK(h, "publish", r)
    BY <1>2, <2>1, <2>4, <2>6, <2>7 DEF ChangeOK
  <2> QED
    BY <2>1, <2>2, <2>3, <2>8
<1> QED
  BY <1>4, <1>5, <1>6, <1>7, <1>8, <1>9 DEF Step

\* Everybody else stays.
LEMMA OthersStay ==
    ASSUME VendorInv, NEW g \in Handlers, NEW step, NEW s, Move(g, step, s)
    PROVE  \A h \in Handlers : IF h = g THEN pc'[h] = step /\ sess'[h] = s
                               ELSE pc'[h] = pc[h] /\ sess'[h] = sess[h]
BY DEF Move, VendorInv, TypeInv, TypeOK

LEMMA ListingStays ==
    ASSUME VendorInv, NEW l \in Listers,
           StartListing(l) \/ CountVendors(l) \/ ReadPage(l) \/ ListingFails(l)
    PROVE  /\ UNCHANGED <<dbVars, topic, sess>> /\ \A h \in Handlers : pc'[h] = pc[h]
<1>1. \E step, record : Turn(l, step, record)
  BY DEF StartListing, CountVendors, ReadPage, ListingFails
<1> QED
  BY <1>1, HandlerAssumption DEF Turn, VendorInv, TypeInv, TypeOK

\* A commit of another vendor, or of this one, by the session whose vendor it is.
LEMMA CommitWrites ==
    ASSUME VendorInv, NEW h \in Handlers, Commit(h), NEW s, s = sess[h]
    PROVE  /\ DOMAIN vendors' = DOMAIN vendors \cup {s.vendor}
           /\ \A v \in DOMAIN vendors : v # s.vendor => vendors'[v] = vendors[v]
           /\ s.op # "create" => /\ s.vendor \in DOMAIN vendors
                                 /\ vendors'[s.vendor] = MergeDims(vendors[s.vendor], s.read, s.row)
<1>1. SessionOK("commit", s)
  BY DEF Commit, VendorInv, TypeInv
<1>2. CASE s.op = "create"
  <2>1. vendors' = Put(vendors, s.vendor, s.row)
    BY <1>2 DEF Commit
  <2> QED
    BY <1>2, <2>1 DEF Put
<1>3. CASE s.op # "create"
  <2>1. vendors' = [vendors EXCEPT ![s.vendor] = MergeDims(vendors[s.vendor], s.read, s.row)]
    BY <1>3 DEF Commit
  <2>2. s.vendor \in DOMAIN vendors
    BY <1>1, <1>3 DEF SessionOK, Loaded
  <2> QED
    BY <2>1, <2>2
<1> QED
  BY <1>2, <1>3

LEMMA NumbersAreNat ==
    ASSUME VendorInv
    PROVE  /\ seqs.vendor \in Nat /\ \A v \in DOMAIN vendors : v \in Nat
           /\ \A h \in Handlers : Creates(h) => sess[h].vendor \in Nat
<1>1. \A v \in DOMAIN vendors : v \in 1..MaxVendors
  BY DEF VendorInv, TypeInv, TypeOK
<1>2. \A h \in Handlers : Creates(h) => sess[h].vendor \in 1..MaxVendors
  BY DEF VendorInv, TypeInv, SessionOK, Creates
<1> QED
  BY <1>1, <1>2 DEF VendorInv, TypeInv

LEMMA ChangeNext == VendorInv /\ ChangeInv /\ [Next]_vars => ChangeInv'
<1> SUFFICES ASSUME VendorInv, ChangeInv, [Next]_vars PROVE ChangeInv'
  OBVIOUS
<1>0. /\ seqs.vendor \in Nat /\ \A v \in DOMAIN vendors : v \in Nat
      /\ \A h \in Handlers : Creates(h) => sess[h].vendor \in Nat
  BY NumbersAreNat
<1>1. ASSUME NEW g \in Handlers, NEW step, NEW s, Move(g, step, s), ChangeOK(g, step, s)
      PROVE  \A h \in Handlers : ChangeOK(h, pc[h], sess[h])'
  <2>1. \A h \in Handlers : ChangeOK(h, pc'[h], sess'[h])
    BY <1>1, OthersStay DEF ChangeInv
  <2> QED
    BY <2>1 DEF ChangeOK
<1>2. ASSUME UNCHANGED <<vendors, seqs, sess>>, \A h \in Handlers : pc'[h] = pc[h]
      PROVE  ChangeInv'
  <2>1. \A h \in Handlers : (Creates(h)' <=> Creates(h)) /\ sess'[h] = sess[h]
    BY <1>2 DEF Creates
  <2>2. NewVendors'
    BY <1>2, <2>1 DEF ChangeInv, NewVendors
  <2>3. \A h \in Handlers : ChangeOK(h, pc'[h], sess'[h])
    BY <1>2 DEF ChangeInv
  <2> QED
    BY <2>2, <2>3 DEF ChangeInv, ChangeOK
<1>3. ASSUME NEW h \in Handlers, Start(h) \/ (h \in Patchers /\ UpdateVendor(h))
      PROVE  ChangeInv'
  <2>1. PICK step, s : StartsChange(h, step, s) /\ UNCHANGED <<vendors, topic>>
    BY <1>3, StartChanges
  <2>2. \A g \in Handlers : IF g = h THEN pc'[g] = step /\ sess'[g] = s
                            ELSE pc'[g] = pc[g] /\ sess'[g] = sess[g]
    BY <2>1, OthersStay DEF StartsChange
  <2>3. \A g \in Handlers : g # h => (Creates(g)' <=> Creates(g)) /\ sess'[g] = sess[g]
    BY <2>2 DEF Creates
  <2>4. Creates(h)' => s.op = "create" /\ sess'[h] = s
    BY <2>2 DEF Creates
  <2>5. /\ seqs'.vendor \in Nat /\ seqs'.vendor >= seqs.vendor
        /\ Creates(h)' => sess'[h].vendor = seqs.vendor + 1 /\ seqs'.vendor = seqs.vendor + 1
    BY <1>0, <2>1, <2>4 DEF StartsChange
  <2>6. \A v \in DOMAIN vendors' : v \in Nat /\ v <= seqs.vendor /\ v <= seqs'.vendor
    BY <1>0, <2>1, <2>5 DEF ChangeInv, NewVendors
  <2>7. ASSUME NEW g \in Handlers, Creates(g)'
        PROVE  sess'[g].vendor <= seqs'.vendor /\ sess'[g].vendor \notin DOMAIN vendors'
    <3>1. CASE g = h
      BY <1>0, <2>5, <2>6, <2>7, <3>1
    <3>2. CASE g # h
      <4>1. Creates(g) /\ sess'[g] = sess[g]
        BY <2>3, <2>7, <3>2
      <4>2. sess[g].vendor \in Nat /\ sess[g].vendor <= seqs.vendor /\ sess[g].vendor \notin DOMAIN vendors
        BY <1>0, <4>1 DEF ChangeInv, NewVendors
      <4> QED
        BY <1>0, <2>1, <2>5, <4>1, <4>2
    <3> QED
      BY <3>1, <3>2
  <2>8. ASSUME NEW f \in Handlers, NEW g \in Handlers, Creates(f)', Creates(g)',
               sess'[f].vendor = sess'[g].vendor
        PROVE  f = g
    <3>1. \A k \in Handlers : k # h /\ Creates(k)' => sess'[k].vendor \in Nat /\ sess'[k].vendor <= seqs.vendor
      BY <1>0, <2>3 DEF ChangeInv, NewVendors
    <3>2. CASE f # h /\ g # h
      BY <2>3, <2>8, <3>2 DEF ChangeInv, NewVendors
    <3>3. CASE f = h /\ g # h
      BY <1>0, <2>5, <2>8, <3>1, <3>3
    <3>4. CASE f # h /\ g = h
      BY <1>0, <2>5, <2>8, <3>1, <3>4
    <3> QED
      BY <3>2, <3>3, <3>4
  <2>9. NewVendors'
    BY <2>6, <2>7, <2>8 DEF NewVendors
  <2> QED
    BY <1>1, <2>1, <2>9 DEF ChangeInv, StartsChange
<1>4. ASSUME NEW h \in Handlers, Step(h) \/ PublishFails(h) \/ Crash(h)
      PROVE  ChangeInv'
  <2>1. PICK step, s : /\ Move(h, step, s) /\ ChangeOK(h, step, s)
                       /\ ~(step = "commit" /\ s.op = "create") /\ UNCHANGED seqs
                       /\ Commit(h) \/ UNCHANGED vendors
    BY <1>4, StepChanges DEF ChangeInv
  <2>2. \A g \in Handlers : IF g = h THEN pc'[g] = step /\ sess'[g] = s
                            ELSE pc'[g] = pc[g] /\ sess'[g] = sess[g]
    BY <2>1, OthersStay
  <2>3. \A g \in Handlers : Creates(g)' => g # h /\ Creates(g) /\ sess'[g] = sess[g]
    BY <2>1, <2>2 DEF Creates
  <2>4. CASE UNCHANGED vendors
    BY <1>1, <2>1, <2>3, <2>4 DEF ChangeInv, NewVendors
  <2>5. CASE Commit(h)
    <3>1. PICK r : r = sess[h]
      OBVIOUS
    <3>2. DOMAIN vendors' = DOMAIN vendors \cup {r.vendor}
      BY <2>5, <3>1, CommitWrites
    <3>3. r.op # "create" => r.vendor \in DOMAIN vendors
      BY <2>5, <3>1, CommitWrites
    <3>4. r.op = "create" => Creates(h)
      BY <2>5, <3>1 DEF Commit, Creates
    <3>5. r.vendor <= seqs.vendor
      BY <3>1, <3>3, <3>4 DEF ChangeInv, NewVendors
    <3>6. \A g \in Handlers : Creates(g)' => sess[g].vendor # r.vendor
      BY <2>3, <3>1, <3>3, <3>4 DEF ChangeInv, NewVendors
    <3>7. NewVendors'
      BY <2>1, <2>3, <3>2, <3>5, <3>6 DEF ChangeInv, NewVendors
    <3> QED
      BY <1>1, <2>1, <3>7 DEF ChangeInv
  <2> QED
    BY <2>1, <2>4, <2>5
<1>5. ASSUME NEW l \in Listers,
             StartListing(l) \/ CountVendors(l) \/ ReadPage(l) \/ ListingFails(l)
      PROVE  ChangeInv'
  BY <1>2, <1>5, ListingStays DEF dbVars
<1>6. CASE UNCHANGED vars
  BY <1>2, <1>6 DEF vars, dbVars
<1> QED
  BY <1>3, <1>4, <1>5, <1>6, HandlerAssumption DEF Next, Action, Quiescent

LEMMA AlwaysChangeInv == Spec => []ChangeInv
<1>1. Init => ChangeInv
  BY DEF Init, ChangeInv, NewVendors, Creates, ChangeOK
<1> QED
  BY <1>1, ChangeNext, AlwaysVendorInv, PTL DEF Spec

------------------------------------------------------------------------------
(* Only a PATCH changes dimensions and tier.                               *)

\* Where vendors are written.
LEMMA OnlyCommitsWriteVendors ==
    ASSUME VendorInv, ChangeInv, [Next]_vars
    PROVE  UNCHANGED vendors \/ \E h \in Handlers : Commit(h)
<1>1. ASSUME NEW h \in Handlers, Start(h) \/ (h \in Patchers /\ UpdateVendor(h))
      PROVE  UNCHANGED vendors
  BY <1>1, StartChanges
<1>2. ASSUME NEW h \in Handlers, Step(h) \/ PublishFails(h) \/ Crash(h)
      PROVE  Commit(h) \/ UNCHANGED vendors
  BY <1>2, StepChanges DEF ChangeInv
<1>3. ASSUME NEW l \in Listers,
             StartListing(l) \/ CountVendors(l) \/ ReadPage(l) \/ ListingFails(l)
      PROVE  UNCHANGED vendors
  BY <1>3, ListingStays DEF dbVars
<1>4. CASE UNCHANGED vars
  BY <1>4 DEF vars, dbVars
<1> QED
  BY <1>1, <1>2, <1>3, <1>4, HandlerAssumption DEF Next, Action, Quiescent

LEMMA RetierStep ==
    ASSUME VendorInv, ChangeInv, [Next]_vars, NEW v \in DOMAIN vendors
    PROVE  \/ vendors'[v].dims = vendors[v].dims /\ vendors'[v].tier = vendors[v].tier
           \/ \E h \in Patchers : /\ pc[h] = "commit" /\ pc'[h] # "commit"
                                  /\ sess[h].op = "update" /\ sess[h].vendor = v
<1>1. CASE UNCHANGED vendors
  BY <1>1
<1>2. ASSUME NEW h \in Handlers, Commit(h)
      PROVE  \/ vendors'[v].dims = vendors[v].dims /\ vendors'[v].tier = vendors[v].tier
             \/ /\ h \in Patchers /\ pc[h] = "commit" /\ pc'[h] # "commit"
                /\ sess[h].op = "update" /\ sess[h].vendor = v
  <2>1. PICK s : s = sess[h]
    OBVIOUS
  <2>2. pc[h] = "commit" /\ ChangeOK(h, "commit", s) /\ SessionOK("commit", s)
    BY <1>2, <2>1 DEF Commit, ChangeInv, VendorInv, TypeInv
  <2>3. CASE s.vendor # v
    BY <1>2, <2>1, <2>3, CommitWrites
  <2>4. CASE s.vendor = v /\ s.op = "create"
    BY <2>1, <2>2, <2>4 DEF ChangeInv, NewVendors, Creates
  <2>5. CASE s.vendor = v /\ s.op = "update"
    <3>1. \E step \in {"refresh", "publish", "idle"} : \E r : Move(h, step, r)
      BY <1>2 DEF Commit, Finish
    <3>2. pc'[h] # "commit"
      BY <3>1, OthersStay
    <3> QED
      BY <2>1, <2>2, <2>5, <3>2 DEF ChangeOK
  <2>6. CASE s.vendor = v /\ s.op \notin {"create", "update"}
    <3>1. s.row.dims = s.read.dims /\ s.row.tier = s.read.tier
      BY <2>2, <2>6 DEF ChangeOK
    <3>2. s.read \in VendorRow /\ s.row \in VendorRow /\ vendors[v] \in VendorRow
      BY <2>2, <2>6 DEF SessionOK, Loaded, VendorInv, TypeInv, TypeOK
    <3>3. vendors'[v] = MergeDims(vendors[v], s.read, s.row)
      BY <1>2, <2>1, <2>6, CommitWrites
    <3>4. PICK m : m = MergeDims(vendors[v], s.read, s.row)
      OBVIOUS
    <3>5. m.dims = vendors[v].dims /\ m.tier = vendors[v].tier
      BY <3>1, <3>2, <3>4, MergeVendor
    <3> QED
      BY <3>3, <3>4, <3>5
  <2> QED
    BY <2>3, <2>4, <2>5, <2>6
<1> QED
  BY <1>1, <1>2, OnlyCommitsWriteVendors

\* update_vendor: whatever requests overlap and in which order they commit, the
\* dimensions and the tier of a vendor change only when a PATCH of it commits.
THEOREM RetieredByPatches == Spec => OnlyPatchesRetier
<1>1. VendorInv /\ ChangeInv /\ [Next]_vars =>
        [\A v \in DOMAIN vendors :
          \/ vendors'[v].dims = vendors[v].dims /\ vendors'[v].tier = vendors[v].tier
          \/ \E h \in Patchers : /\ pc[h] = "commit" /\ pc'[h] # "commit"
                                 /\ sess[h].op = "update" /\ sess[h].vendor = v]_vars
  BY RetierStep
<1> QED
  BY <1>1, AlwaysVendorInv, AlwaysChangeInv, PTL DEF Spec, OnlyPatchesRetier

------------------------------------------------------------------------------
(* The steps of VendorTopic.                                               *)

InPending(step) == step \in {"refresh", "publish"}
StepIn(s) == StepOf(Event(s.vendor, s.read.state, s.row.state, ""))
Waiting(h, step, s) == IF InPending(step) THEN {[by |-> h, step |-> StepIn(s)]} ELSE {}

LEMMA PendingIs ==
    /\ Pending = {[by |-> h, step |-> StepIn(sess[h])] : h \in {g \in Handlers : InPending(pc[g])}}
    /\ Pending' = {[by |-> h, step |-> StepIn(sess'[h])] :
                      h \in {g \in Handlers : InPending(pc'[g])}}
BY DEF Pending, StepIn, InPending, StepOf, Event

LEMMA PendingMoves ==
    ASSUME VendorInv, NEW g \in Handlers, NEW step, NEW s, Move(g, step, s)
    PROVE  Pending' = (Pending \ Waiting(g, pc[g], sess[g])) \cup Waiting(g, step, s)
<1>1. \A h \in Handlers : IF h = g THEN pc'[h] = step /\ sess'[h] = s
                          ELSE pc'[h] = pc[h] /\ sess'[h] = sess[h]
  BY OthersStay
<1> QED
  BY <1>1, PendingIs DEF Waiting

LEMMA PendingStays ==
    ASSUME UNCHANGED sess, \A h \in Handlers : pc'[h] = pc[h]
    PROVE  UNCHANGED Pending
BY PendingIs

\* What a commit announces later is a step of the lifecycle.
LEMMA CommittedStep ==
    ASSUME VendorInv, ChangeInv, NEW h \in Handlers, pc[h] = "commit", Moved(sess[h])
    PROVE  StepIn(sess[h]) \in Topic!LifecycleSteps
<1>1. PICK s : s = sess[h]
  OBVIOUS
<1>2. SessionOK("commit", s) /\ ChangeOK(h, "commit", s) /\ Moved(s)
  BY <1>1 DEF VendorInv, TypeInv, ChangeInv
<1>3. PICK e : e = [vendor |-> s.vendor, from |-> s.read.state, to |-> s.row.state]
  OBVIOUS
<1>6. StepIn(sess[h]) = e
  BY <1>1, <1>3 DEF StepIn, StepOf, Event
<1>7. e.from = s.read.state /\ e.to = s.row.state
  BY <1>3
<1>4. CASE s.op = "create"
  <2>1. s.vendor \in 1..MaxVendors /\ s.read.state = "" /\ s.row.state = "INITIATED"
    BY <1>2, <1>4 DEF SessionOK, ChangeOK
  <2>2. e \in [vendor : 1..MaxVendors, from : Topic!States \cup {""}, to : Topic!States]
    BY <1>3, <2>1 DEF Topic!States
  <2> QED
    BY <1>6, <1>7, <2>1, <2>2 DEF Topic!LifecycleSteps
<1>5. CASE s.op # "create"
  <2>1. s.vendor \in 1..MaxVendors /\ s.read \in VendorRow /\ s.row \in VendorRow
    BY <1>2, <1>5 DEF SessionOK, Loaded, VendorInv, TypeInv, TypeOK
  <2>2. s.read.state \in States /\ s.row.state \in States /\ s.read.state # ""
    BY <2>1 DEF VendorRow, States
  <2>3. ValidTransition(s.read.state, s.row.state)
    BY <1>2, <1>5 DEF Moved, ChangeOK
  <2>4. Topic!States = States /\ Topic!ValidTransition(s.read.state, s.row.state)
    BY <2>3 DEF Topic!States, States, Topic!ValidTransition, ValidTransition,
       Topic!AllowedTransitions, AllowedTransitions, Topic!TerminalStates, TerminalStates
  <2>5. e \in [vendor : 1..MaxVendors, from : Topic!States \cup {""}, to : Topic!States]
    BY <1>3, <2>1, <2>2, <2>4
  <2> QED
    BY <1>6, <1>7, <2>2, <2>4, <2>5 DEF Topic!LifecycleSteps
<1> QED
  BY <1>4, <1>5

LEMMA CommitRefines ==
    ASSUME VendorInv, ChangeInv, NEW h \in Handlers, Commit(h)
    PROVE  Topic!CommitStep(h) \/ UNCHANGED <<Announced, Pending>>
<1>1. PICK s : s = sess[h]
  OBVIOUS
<1>2. pc[h] = "commit" /\ UNCHANGED Announced
  BY DEF Commit, Announced
<1>3. Waiting(h, pc[h], sess[h]) = {}
  BY <1>2 DEF Waiting, InPending
<1>4. CASE Moved(s)
  <2>1. PICK step \in {"refresh", "publish"} : Move(h, step, s)
    BY <1>1, <1>4 DEF Commit
  <2>2. Pending' = Pending \cup {[by |-> h, step |-> StepIn(s)]}
    BY <1>3, <2>1, PendingMoves DEF Waiting, InPending
  <2>3. StepIn(s) \in Topic!LifecycleSteps
    BY <1>1, <1>2, <1>4, CommittedStep
  <2>4. \A p \in Pending : p.by # h
    BY <1>2, PendingIs DEF InPending
  <2> QED
    BY <1>2, <2>2, <2>3, <2>4 DEF Topic!CommitStep
<1>5. CASE ~Moved(s)
  <2>1. Move(h, "idle", NoSession)
    BY <1>1, <1>5 DEF Commit, Finish
  <2>2. Pending' = Pending
    BY <1>3, <2>1, PendingMoves DEF Waiting, InPending
  <2> QED
    BY <1>2, <2>2
<1> QED
  BY <1>4, <1>5

LEMMA EndRefines ==
    ASSUME VendorInv, NEW h \in Handlers, Publish(h) \/ PublishFails(h) \/ Crash(h)
    PROVE  Topic!Announce(h) \/ Topic!Drop(h) \/ UNCHANGED <<Announced, Pending>>
<1>1. PICK s : s = sess[h]
  OBVIOUS
<1>2. Pending' = Pending \ Waiting(h, pc[h], s)
  <2>1. Move(h, "idle", NoSession)
    BY DEF Publish, PublishFails, Crash, Finish
  <2> QED
    BY <1>1, <2>1, PendingMoves DEF Waiting, InPending
<1>3. PICK p : p = [by |-> h, step |-> StepIn(s)]
  OBVIOUS
<1>4. InPending(pc[h]) => p \in Pending /\ Pending' = Pending \ {p}
  BY <1>1, <1>2, <1>3, PendingIs DEF Waiting
<1>5. ~InPending(pc[h]) => Pending' = Pending
  BY <1>2 DEF Waiting
<1>6. CASE Publish(h)
  <2>1. pc[h] = "publish" /\ topic' = Append(topic, EventOf(s))
    BY <1>1, <1>6 DEF Publish
  <2>2. StepOf(EventOf(s)) = p.step
    BY <1>3 DEF StepIn, StepOf, EventOf, Event
  <2>3. Announced' = Append(Announced, p.step)
    BY <2>1, <2>2 DEF Announced
  <2> QED
    BY <1>3, <1>4, <2>1, <2>3 DEF Topic!Announce, InPending
<1>7. CASE PublishFails(h) \/ Crash(h)
  <2>1. UNCHANGED Announced
    BY <1>7 DEF PublishFails, Crash, Announced
  <2> QED
    BY <1>3, <1>4, <1>5, <2>1 DEF Topic!Drop
<1> QED
  BY <1>6, <1>7

\* A step that comes before the commit, or that reloads the row, is nothing to the
\* topic.
LEMMA StutterRefines ==
    ASSUME VendorInv, NEW h \in Handlers,
           \/ Start(h) \/ (h \in Patchers /\ UpdateVendor(h))
           \/ ReadLatest(h) \/ ReadResponses(h) \/ StoreFile(h) \/ Refresh(h)
    PROVE  UNCHANGED <<Announced, Pending>>
<1>1. PICK s : s = sess[h]
  OBVIOUS
<1>2. ASSUME NEW step, NEW r, Move(h, step, r), ~InPending(step), ~InPending(pc[h])
      PROVE  UNCHANGED Pending
  BY <1>2, PendingMoves DEF Waiting
<1>3. CASE Start(h) \/ (h \in Patchers /\ UpdateVendor(h))
  <2>1. PICK step, r : StartsChange(h, step, r) /\ UNCHANGED topic
    BY <1>3, StartChanges
  <2> QED
    BY <1>2, <2>1 DEF StartsChange, InPending, Announced
<1>4. CASE ReadLatest(h) \/ ReadResponses(h) \/ StoreFile(h)
  <2>1. \E step \in {"idle", "responses", "commit"} : \E r : Move(h, step, r)
    BY <1>4 DEF ReadLatest, ReadResponses, StoreFile, Finish
  <2>2. pc[h] \in {"latest", "responses", "store"} /\ UNCHANGED topic
    BY <1>4 DEF ReadLatest, ReadResponses, StoreFile
  <2> QED
    BY SMTT(30), <1>2, <2>1, <2>2 DEF InPending, Announced
<1>5. CASE Refresh(h)
  <2>1. pc[h] = "refresh" /\ UNCHANGED topic
    BY <1>5 DEF Refresh
  <2>2. PICK t : Move(h, "publish", [s EXCEPT !.row.tier = t])
    BY <1>1, <1>5 DEF Refresh
  <2>3. PICK r : r = [s EXCEPT !.row.tier = t]
    OBVIOUS
  <2>4. IsSession(s) /\ s.row \in VendorRow
    BY <1>1, <2>1 DEF VendorInv, TypeInv, SessionOK, Loaded
  <2>5. r.vendor = s.vendor /\ r.read = s.read /\ r.row = [s.row EXCEPT !.tier = t]
    BY <2>3, <2>4 DEF IsSession
  <2>6. r.row.state = s.row.state
    BY <2>4, <2>5 DEF VendorRow
  <2>7. StepIn(r) = StepIn(s)
    BY <2>5, <2>6 DEF StepIn
  <2>8. Pending' = (Pending \ Waiting(h, "refresh", s)) \cup Waiting(h, "publish", r)
    BY <1>1, <2>1, <2>2, <2>3, PendingMoves
  <2>9. Waiting(h, "refresh", s) = Waiting(h, "publish", r) /\ Waiting(h, "refresh", s) \subseteq Pending
    BY <1>1, <2>1, <2>7, PendingIs DEF Waiting, InPending
  <2> QED
    BY <2>1, <2>8, <2>9 DEF Announced
<1> QED
  BY <1>3, <1>4, <1>5

LEMMA TopicStep ==
    ASSUME VendorInv, ChangeInv, [Next]_vars
    PROVE  [Topic!Next]_<<Announced, Pending>>
<1>1. ASSUME NEW h \in Handlers, Start(h) \/ (h \in Patchers /\ UpdateVendor(h))
      PROVE  UNCHANGED <<Announced, Pending>>
  BY <1>1, StutterRefines
<1>2. ASSUME NEW h \in Handlers, Step(h) \/ PublishFails(h) \/ Crash(h)
      PROVE  \/ Topic!CommitStep(h) \/ Topic!Announce(h) \/ Topic!Drop(h)
             \/ UNCHANGED <<Announced, Pending>>
  BY <1>2, StutterRefines, CommitRefines, EndRefines DEF Step
<1>3. ASSUME NEW l \in Listers,
             StartListing(l) \/ CountVendors(l) \/ ReadPage(l) \/ ListingFails(l)
      PROVE  UNCHANGED <<Announced, Pending>>
  BY <1>3, ListingStays, PendingStays DEF Announced
<1>4. CASE UNCHANGED vars
  BY <1>4, PendingStays DEF vars, Announced
<1> QED
  BY <1>1, <1>2, <1>3, <1>4, HandlerAssumption DEF Next, Action, Quiescent, Topic!Next

\* VENDOR_LIFECYCLE_EVENTS: every announcement is of a step that the lifecycle
\* allows and that its own request committed, and no request announces twice,
\* whatever requests overlap, are cut off, or do not reach the broker.
THEOREM TopicIsLegal == Spec => Topic!Init /\ [][Topic!Next]_<<Announced, Pending>>
<1>1. Init => Topic!Init
  BY PendingIs DEF Init, Topic!Init, Announced, InPending
<1> QED
  BY <1>1, TopicStep, AlwaysVendorInv, AlwaysChangeInv, PTL DEF Spec

------------------------------------------------------------------------------
(* What a listing skips.                                                   *)

\* The vendors before v in a list, newest first: v is at this offset.
Above(S, v) == {w \in S : w > v}
Offset(S, v) == Cardinality(Above(S, v))

\* Offsets are distinct and run from 0 ...
LEMMA OffsetsDiffer ==
    ASSUME NEW S \in SUBSET Nat, IsFiniteSet(S), NEW v \in S
    PROVE  /\ Offset(S, v) \in 0..Cardinality(S) - 1
           /\ \A w \in S : v < w => Offset(S, w) < Offset(S, v)
<1>1. ASSUME NEW T \in SUBSET S, NEW x \in S, x \notin T
      PROVE  IsFiniteSet(T) /\ Cardinality(T) \in Nat /\ Cardinality(T) < Cardinality(S)
  <2>1. IsFiniteSet(T) /\ Cardinality(T) <= Cardinality(S)
        /\ (Cardinality(S) = Cardinality(T) => S = T)
    BY FS_Subset
  <2>2. Cardinality(T) \in Nat /\ Cardinality(S) \in Nat
    BY <2>1, FS_CardinalityType
  <2> QED
    BY <1>1, <2>1, <2>2
<1>2. v \notin Above(S, v) /\ Above(S, v) \in SUBSET S
  BY DEF Above
<1>3. ASSUME NEW w \in S, v < w PROVE Offset(S, w) < Offset(S, v)
  <2>1. IsFiniteSet(Above(S, v))
    BY <1>1, <1>2
  <2>2. w \in Above(S, v) /\ w \notin Above(S, w) /\ Above(S, w) \subseteq Above(S, v)
    <3>1. \A x \in S : x > w => x > v
      BY <1>3
    <3>2. ~(w > w)
      OBVIOUS
    <3> QED
      BY <1>3, <3>1, <3>2 DEF Above
  <2>3. Cardinality(Above(S, w)) <= Cardinality(Above(S, v))
        /\ (Cardinality(Above(S, v)) = Cardinality(Above(S, w)) => Above(S, v) = Above(S, w))
    BY <2>1, <2>2, FS_Subset
  <2>4. Cardinality(Above(S, w)) \in Nat /\ Cardinality(Above(S, v)) \in Nat
    BY <1>1, <1>2, <2>2, FS_CardinalityType, FS_Subset
  <2> QED
    BY <2>2, <2>3, <2>4 DEF Offset
<1>4. Cardinality(S) \in Nat
  BY FS_CardinalityType
<1>5. Offset(S, v) \in Nat /\ Offset(S, v) < Cardinality(S)
  BY <1>1, <1>2 DEF Offset
<1> QED
  BY <1>3, <1>4, <1>5

\* ... to the number of vendors.
LEMMA OffsetsAreTaken ==
    ASSUME NEW S \in SUBSET Nat, IsFiniteSet(S)
    PROVE  /\ \A k \in 1..Cardinality(S) : Newest(S, k) \in S /\ Offset(S, Newest(S, k)) = k - 1
           /\ \A v, w \in S : Offset(S, v) = Offset(S, w) => v = w
<1> DEFINE N == Cardinality(S)
           f == [v \in S |-> Offset(S, v)]
<1>1. N \in Nat
  BY FS_CardinalityType
<1>2. \A v, w \in S : Offset(S, v) = Offset(S, w) => v = w
  <2> SUFFICES ASSUME NEW v \in S, NEW w \in S, Offset(S, v) = Offset(S, w) PROVE v = w
    OBVIOUS
  <2>1. Offset(S, v) \in Nat /\ Offset(S, w) \in Nat
    BY OffsetsDiffer, <1>1
  <2>2. ~(v < w) /\ ~(w < v)
    BY <2>1, OffsetsDiffer
  <2> QED
    BY <2>2
<1>3. f \in [S -> 0..N - 1]
  BY OffsetsDiffer
<1>4. f \in Injection(S, 0..N - 1)
  BY <1>2, <1>3 DEF Injection, IsInjective
<1>5. IsFiniteSet(0..N - 1) /\ Cardinality(0..N - 1) = N
  <2> HIDE DEF N
  <2>1. 0 \in Int /\ N - 1 \in Int
    BY <1>1
  <2>2. /\ IsFiniteSet(0..N - 1)
        /\ Cardinality(0..N - 1) = IF 0 > N - 1 THEN 0 ELSE N - 1 - 0 + 1
    BY <2>1, FS_Interval
  <2> QED
    BY <1>1, <2>2
<1>6. f \in Surjection(S, 0..N - 1)
  <2> HIDE DEF f
  <2> QED
    BY <1>4, <1>5, FS_Injection
<1>7. ASSUME NEW k \in 1..N PROVE Newest(S, k) \in S /\ Offset(S, Newest(S, k)) = k - 1
  <2>1. k - 1 \in 0..N - 1
    BY <1>1
  <2>2. PICK v \in S : f[v] = k - 1
    BY <1>6, <2>1 DEF Surjection
  <2>3. Cardinality({w \in S : w > v}) = k - 1
    BY <2>2 DEF Offset, Above
  <2>4. Newest(S, k) \in S /\ Cardinality({w \in S : w > Newest(S, k)}) = k - 1
    BY <2>3 DEF Newest
  <2> QED
    BY <2>4 DEF Offset, Above
<1> QED
  BY <1>2, <1>7

\* Only so many vendors are at offset j or later.
LEMMA LaterOffsets ==
    ASSUME NEW S \in SUBSET Nat, IsFiniteSet(S), NEW j \in Nat, NEW T \in SUBSET S,
           \A v \in T : Offset(S, v) >= j
    PROVE  Cardinality(T) \in Nat
           /\ Cardinality(T) <= IF j <= Cardinality(S) THEN Cardinality(S) - j ELSE 0
<1> DEFINE N == Cardinality(S)
           f == [v \in T |-> Offset(S, v)]
<1>1. N \in Nat
  BY FS_CardinalityType
<1>2. f \in [T -> j..N - 1]
  BY <1>1, OffsetsDiffer
<1>3. f \in Injection(T, j..N - 1)
  BY <1>2, OffsetsAreTaken DEF Injection, IsInjective
<1>4. IsFiniteSet(j..N - 1) /\ Cardinality(j..N - 1) = IF j <= N THEN N - j ELSE 0
  <2> HIDE DEF N
  <2>1. j \in Int /\ N - 1 \in Int
    BY <1>1
  <2>2. /\ IsFiniteSet(j..N - 1)
        /\ Cardinality(j..N - 1) = IF j > N - 1 THEN 0 ELSE N - 1 - j + 1
    BY <2>1, FS_Interval
  <2> QED
    BY <1>1, <2>2
<1>5. IsFiniteSet(T) /\ Cardinality(T) <= Cardinality(j..N - 1)
  <2> HIDE DEF f
  <2> QED
    BY <1>3, <1>4, FS_Injection
<1> QED
  BY <1>4, <1>5, FS_CardinalityType

\* A vendor is never listed earlier than it would have been.
LEMMA OffsetsGrow ==
    ASSUME NEW S \in SUBSET Nat, IsFiniteSet(S), NEW T \in SUBSET S, NEW v \in T
    PROVE  Offset(T, v) \in Nat /\ Offset(S, v) \in Nat /\ Offset(T, v) <= Offset(S, v)
<1>1. Above(S, v) \in SUBSET S /\ Above(T, v) \in SUBSET Above(S, v)
  BY DEF Above
<1>2. IsFiniteSet(Above(S, v))
  BY <1>1, FS_Subset
<1>3. IsFiniteSet(Above(T, v)) /\ Cardinality(Above(T, v)) <= Cardinality(Above(S, v))
  BY <1>1, <1>2, FS_Subset
<1> QED
  BY <1>2, <1>3, FS_CardinalityType DEF Offset


\* A page ends where the next one begins.
LEMMA NextPage ==
    ASSUME NEW k \in Nat \ {0}
    PROVE  /\ (k - 1) * PageSize \in Nat /\ k * PageSize \in Nat
           /\ k * PageSize = (k - 1) * PageSize + PageSize
<1>1. PageSize \in Nat
  BY VendorBoundAssumption
<1> QED
  BY <1>1

LEMMA VendorsAreFinite ==
    ASSUME VendorInv
    PROVE  DOMAIN vendors \in SUBSET Nat /\ IsFiniteSet(DOMAIN vendors)
<1>1. DOMAIN vendors \in SUBSET (1..MaxVendors)
  BY DEF VendorInv, TypeInv, TypeOK
<1>2. MaxVendors \in Nat
  BY VendorBoundAssumption
<1>3. IsFiniteSet(1..MaxVendors)
  BY <1>2, FS_Interval
<1> QED
  BY <1>1, <1>2, <1>3, FS_Subset

\* A page holds the vendors at its offsets, as far as there are any.
LEMMA PageItems ==
    ASSUME VendorInv, NEW k \in Nat \ {0}, NEW m, m = (k - 1) * PageSize,
           NEW N, N = Cardinality(DOMAIN vendors), NEW items, items = ListVendors(k)
    PROVE  /\ N \in Nat /\ m \in Nat
           /\ items \in Seq(Nat) /\ Len(items) \in Nat
           /\ Len(items) = IF N <= m THEN 0 ELSE IF N <= m + PageSize THEN N - m ELSE PageSize
           /\ \A v \in DOMAIN vendors, i \in 1..Len(items) :
                  Offset(DOMAIN vendors, v) = m + i - 1 => items[i] = v
<1>1. PICK D : D = DOMAIN vendors
  OBVIOUS
<1>2. D \in SUBSET Nat /\ IsFiniteSet(D) /\ N = Cardinality(D)
  BY <1>1, VendorsAreFinite
<1>3. N \in Nat /\ PageSize \in Nat \ {0}
  BY <1>2, FS_CardinalityType, VendorBoundAssumption
<1>4. m \in Nat /\ k * PageSize = m + PageSize
  BY NextPage
<1> DEFINE last == IF N <= m + PageSize THEN N ELSE m + PageSize
           n == IF N <= m THEN 0 ELSE IF N <= m + PageSize THEN N - m ELSE PageSize
<1>5. PageOf(k) = m + 1..last
  BY <1>3, <1>4 DEF PageOf
<1>6. Cardinality(PageOf(k)) = n /\ n \in Nat
  <2>1. m + 1 \in Int /\ last \in Int
    BY <1>3, <1>4
  <2>2. Cardinality(m + 1..last) = IF m + 1 > last THEN 0 ELSE last - (m + 1) + 1
    <3> HIDE DEF last
    <3>1. PICK a \in Int : a = m + 1
      BY <2>1
    <3> QED
      BY <2>1, <3>1, FS_Interval
  <2> QED
    BY <1>3, <1>4, <1>5, <2>2
<1>7. items = [i \in 1..n |-> Newest(D, m + i)]
  <2> HIDE DEF n
  <2> QED
    BY <1>1, <1>6 DEF ListVendors
<1>8. \A i \in 1..n : m + i \in 1..N /\ Newest(D, m + i) \in D
                      /\ Offset(D, Newest(D, m + i)) = m + i - 1
  <2>1. \A i \in 1..n : m + i \in 1..N
    BY <1>3, <1>4
  <2> HIDE DEF n
  <2> QED
    BY <1>2, <2>1, OffsetsAreTaken
<1>9. items \in Seq(Nat) /\ Len(items) = n
  <2> HIDE DEF n
  <2>1. items \in [1..n -> Nat]
    BY <1>2, <1>7, <1>8
  <2> QED
    BY <1>6, <2>1
<1>10. \A v \in D, i \in 1..n : Offset(D, v) = m + i - 1 => items[i] = v
  <2> SUFFICES ASSUME NEW v \in D, NEW i \in 1..n, Offset(D, v) = m + i - 1
               PROVE  items[i] = v
    OBVIOUS
  <2> HIDE DEF n
  <2>1. items[i] = Newest(D, m + i)
    BY <1>7
  <2>2. Newest(D, m + i) \in D /\ Offset(D, Newest(D, m + i)) = Offset(D, v)
    BY <1>8
  <2> QED
    BY <1>2, <2>1, <2>2, OffsetsAreTaken
<1> QED
  BY <1>1, <1>3, <1>4, <1>6, <1>9, <1>10

\* The greater of two.
LEMMA MaxOfTwo ==
    ASSUME NEW a \in Int, NEW b \in Int
    PROVE  Max({a, b}) = IF a >= b THEN a ELSE b
<1>1. \E x \in {a, b} : \A y \in {a, b} : x >= y
  BY SMT
<1>2. Max({a, b}) \in {a, b} /\ \A y \in {a, b} : Max({a, b}) >= y
  BY <1>1 DEF Max
<1> QED
  BY <1>2

ListingRecord ==
    [page : Nat, total : Nat, listed : Seq(Nat), known : SUBSET Nat, complete : BOOLEAN]

\* What a complete listing misses.
Skips(r, all) ==
    Max({PortfolioLimit, Cardinality(r.known)}) - PortfolioLimit
        + Cardinality(all \ r.known) >= Cardinality(r.known \ Range(r.listed))

\* A listing under way has collected whole pages, and of the vendors it knew of only
\* such that have moved behind them are not among what it collected.  What it
\* counted is at least what it knew of.
Collects(step, r) ==
    /\ r \in ListingRecord /\ r.known \subseteq DOMAIN vendors
    /\ step \in {"count", "page"} =>
          /\ ~r.complete /\ r.page # 0
          /\ Len(r.listed) = (r.page - 1) * PageSize /\ Len(r.listed) < PortfolioLimit
          /\ \A v \in r.known \ Range(r.listed) : Offset(DOMAIN vendors, v) >= Len(r.listed)
    /\ step = "page" => Cardinality(r.known) <= r.total /\ r.total <= Cardinality(DOMAIN vendors)
    /\ r.complete => Skips(r, DOMAIN vendors)

ListingInv ==
    /\ listing \in [Listers -> ListingRecord]
    /\ \A l \in Listers : Collects(pc[l], listing[l])

LEMMA KnownIsFinite ==
    ASSUME VendorInv, NEW r, Collects("idle", r)
    PROVE  /\ IsFiniteSet(r.known) /\ IsFiniteSet(DOMAIN vendors)
           /\ Cardinality(r.known) \in Nat /\ Cardinality(DOMAIN vendors) \in Nat
           /\ Cardinality(DOMAIN vendors \ r.known) \in Nat
           /\ Cardinality(DOMAIN vendors) = Cardinality(r.known) + Cardinality(DOMAIN vendors \ r.known)
<1>1. PICK D : D = DOMAIN vendors
  OBVIOUS
<1>2. IsFiniteSet(D) /\ r.known \in SUBSET D
  BY <1>1, VendorsAreFinite DEF Collects
<1>3. IsFiniteSet(r.known) /\ IsFiniteSet(D \ r.known)
  BY <1>2, FS_Subset
<1>4. Cardinality(r.known) \in Nat /\ Cardinality(D) \in Nat /\ Cardinality(D \ r.known) \in Nat
  BY <1>2, <1>3, FS_CardinalityType
<1>5. /\ Cardinality(r.known \cup (D \ r.known))
           = Cardinality(r.known) + Cardinality(D \ r.known)
                 - Cardinality(r.known \cap (D \ r.known))
  BY <1>3, FS_Union
<1>6. r.known \cup (D \ r.known) = D /\ Cardinality(r.known \cap (D \ r.known)) = 0
  <2>1. r.known \cap (D \ r.known) = {}
    OBVIOUS
  <2> QED
    BY <1>2, <2>1, FS_EmptySet
<1> QED
  BY <1>1, <1>2, <1>3, <1>4, <1>5, <1>6

\* Other vendors only move back what a listing has not seen.
LEMMA CollectsStays ==
    ASSUME VendorInv, VendorInv', DOMAIN vendors \subseteq DOMAIN vendors',
           NEW step, NEW r, Collects(step, r)
    PROVE  Collects(step, r)'
<1>1. PICK D : D = DOMAIN vendors
  OBVIOUS
<1>2. PICK E : E = DOMAIN vendors'
  OBVIOUS
<1>3. E \in SUBSET Nat /\ IsFiniteSet(E) /\ D \in SUBSET E /\ r.known \in SUBSET D
  <2>1. DOMAIN vendors' \in SUBSET (1..MaxVendors)
    BY DEF VendorInv, TypeInv, TypeOK
  <2>2. MaxVendors \in Nat /\ IsFiniteSet(1..MaxVendors)
    BY VendorBoundAssumption, FS_Interval
  <2>3. DOMAIN vendors' \in SUBSET Nat /\ IsFiniteSet(DOMAIN vendors')
    BY <2>1, <2>2, FS_Subset
  <2> QED
    BY <1>1, <1>2, <2>3 DEF Collects
<1>4. /\ Cardinality(D) \in Nat /\ Cardinality(E) \in Nat /\ Cardinality(D) <= Cardinality(E)
      /\ Cardinality(D \ r.known) \in Nat /\ Cardinality(E \ r.known) \in Nat
      /\ Cardinality(D \ r.known) <= Cardinality(E \ r.known)
  <2>1. D \in SUBSET E /\ (D \ r.known) \in SUBSET (E \ r.known) /\ (E \ r.known) \in SUBSET E
    BY <1>3
  <2>2. IsFiniteSet(D) /\ IsFiniteSet(E \ r.known) /\ Cardinality(D) <= Cardinality(E)
    BY <1>3, <2>1, FS_Subset
  <2>3. IsFiniteSet(D \ r.known) /\ Cardinality(D \ r.known) <= Cardinality(E \ r.known)
    BY <2>1, <2>2, FS_Subset
  <2> QED
    BY <1>3, <2>2, <2>3, FS_CardinalityType
<1>5. \A v \in r.known : /\ Offset(D, v) \in Nat /\ Offset(E, v) \in Nat
                         /\ Offset(D, v) <= Offset(E, v)
  BY <1>3, OffsetsGrow
<1>6. ASSUME step \in {"count", "page"}
      PROVE  \A v \in r.known \ Range(r.listed) : Offset(E, v) >= Len(r.listed)
  <2>1. Len(r.listed) \in Nat
    BY DEF Collects, ListingRecord
  <2>2. \A v \in r.known \ Range(r.listed) : Offset(D, v) >= Len(r.listed)
    BY <1>1, <1>6 DEF Collects
  <2> QED
    BY <1>5, <2>1, <2>2
<1>7. ASSUME step = "page" PROVE r.total <= Cardinality(E)
  <2>1. r.total \in Nat /\ r.total <= Cardinality(D)
    BY <1>1, <1>7 DEF Collects, ListingRecord
  <2> QED
    BY <1>4, <2>1
<1>8. ASSUME r.complete PROVE Skips(r, E)
  <2>1. Skips(r, D)
    BY <1>1, <1>8 DEF Collects
  <2>2. IsFiniteSet(r.known \ Range(r.listed)) /\ IsFiniteSet(r.known)
    BY <1>3, FS_Subset
  <2>3. Cardinality(r.known \ Range(r.listed)) \in Nat /\ Cardinality(r.known) \in Nat
    BY <2>2, FS_CardinalityType
  <2>4. PortfolioLimit \in Nat /\ Max({PortfolioLimit, Cardinality(r.known)}) \in Nat
    BY <2>3, MaxOfTwo, VendorBoundAssumption
  <2> QED
    BY <1>4, <2>1, <2>3, <2>4 DEF Skips
<1> QED
  BY <1>1, <1>2, <1>3, <1>6, <1>7, <1>8 DEF Collects

\* The first j of a listing are all that is before offset j.
Covers(listed, j, v) == Offset(DOMAIN vendors, v) >= j \/ \E i \in 1..j : listed[i] = v

\* What has been collected is what a listing knew of, but for what is behind it.
LEMMA ReadItems ==
    ASSUME VendorInv, NEW r, Collects("page", r),
           NEW items, items = ListVendors(r.page), NEW listed, listed = r.listed \o items
    PROVE  /\ items \in Seq(Nat) /\ listed \in Seq(Nat)
           /\ Len(r.listed) \in Nat /\ Len(items) \in Nat /\ Len(listed) = Len(r.listed) + Len(items)
           /\ Len(items) = IF Cardinality(DOMAIN vendors) <= Len(r.listed) THEN 0
                           ELSE IF Cardinality(DOMAIN vendors) <= Len(r.listed) + PageSize
                                THEN Cardinality(DOMAIN vendors) - Len(r.listed) ELSE PageSize
           /\ \A j \in Len(r.listed)..Len(listed), v \in r.known : Covers(listed, j, v)
<1>1. PICK D : D = DOMAIN vendors
  OBVIOUS
<1>2. PICK m : m = (r.page - 1) * PageSize
  OBVIOUS
<1>3. PICK N : N = Cardinality(D)
  OBVIOUS
<1>4. r.page \in Nat \ {0} /\ r.listed \in Seq(Nat) /\ Len(r.listed) = m /\ r.known \subseteq D
  BY <1>1, <1>2 DEF Collects, ListingRecord
<1>5. /\ N \in Nat /\ m \in Nat /\ items \in Seq(Nat) /\ Len(items) \in Nat
      /\ Len(items) = IF N <= m THEN 0 ELSE IF N <= m + PageSize THEN N - m ELSE PageSize
      /\ \A v \in D, i \in 1..Len(items) : Offset(D, v) = m + i - 1 => items[i] = v
  <2>1. PICK k \in Nat \ {0} : k = r.page
    BY <1>4
  <2>2. items = ListVendors(k) /\ m = (k - 1) * PageSize /\ N = Cardinality(DOMAIN vendors)
    BY <1>1, <1>2, <1>3, <2>1
  <2>3. /\ N \in Nat /\ m \in Nat /\ items \in Seq(Nat) /\ Len(items) \in Nat
        /\ Len(items) = IF N <= m THEN 0 ELSE IF N <= m + PageSize THEN N - m ELSE PageSize
    BY <2>2, PageItems
  <2>4. \A v \in DOMAIN vendors, i \in 1..Len(items) :
            Offset(DOMAIN vendors, v) = m + i - 1 => items[i] = v
    <3>1. \A v \in DOMAIN vendors, i \in 1..Len(ListVendors(k)) :
              Offset(DOMAIN vendors, v) = (k - 1) * PageSize + i - 1 => ListVendors(k)[i] = v
      BY PageItems
    <3> QED
      BY <2>2, <3>1
  <2> QED
    BY <1>1, <2>3, <2>4
<1>6. /\ listed \in Seq(Nat) /\ Len(listed) = m + Len(items)
      /\ \A i \in 1..m + Len(items) : listed[i] = IF i <= m THEN r.listed[i] ELSE items[i - m]
  BY ZenonT(40), <1>4, <1>5, ConcatProperties
<1>7. ASSUME NEW j \in m..Len(listed), NEW v \in r.known, ~(Offset(D, v) >= j)
      PROVE  \E i \in 1..j : listed[i] = v
  <2>1. Offset(D, v) \in Nat
    <3>1. D \in SUBSET Nat /\ IsFiniteSet(D)
      BY <1>1, VendorsAreFinite
    <3> QED
      BY <1>4, <3>1, OffsetsGrow
  <2>2. PICK o \in Nat : o = Offset(D, v)
    BY <2>1
  <2>3. CASE v \in Range(r.listed)
    <3>1. PICK i \in 1..m : r.listed[i] = v
      BY <1>4, <2>3 DEF Range
    <3>2. i \in 1..j /\ i \in 1..m + Len(items) /\ i <= m
      BY <1>5, <1>6
    <3> QED
      BY <1>6, <3>1, <3>2
  <2>4. CASE v \notin Range(r.listed)
    <3>1. o >= m
      BY <1>1, <1>4, <2>2, <2>4 DEF Collects
    <3>2. PICK n \in Nat : n = Len(items)
      BY <1>5
    <3>3. m \in Nat /\ j \in m..m + n /\ o < j
      BY <1>5, <1>6, <1>7, <2>2, <3>2
    <3>4. PICK i \in 1..n : i = o + 1 - m
      BY <3>1, <3>3
    <3>5. o = m + i - 1 /\ m + i \in 1..j /\ m + i \in 1..m + n /\ ~(m + i <= m) /\ m + i - m = i
      BY <3>1, <3>3, <3>4
    <3>6. items[i] = v
      BY <1>4, <1>5, <2>2, <3>2, <3>5
    <3>7. listed[m + i] = v
      <4>1. \A x \in 1..m + n : listed[x] = IF x <= m THEN r.listed[x] ELSE items[x - m]
        BY <1>6, <3>2
      <4>2. PICK x \in 1..m + n : x = m + i
        BY <3>5
      <4>3. ~(x <= m) /\ x - m = i
        BY <3>3, <3>5, <4>2
      <4>4. listed[x] = items[i]
        BY <4>1, <4>3
      <4> QED
        BY <3>6, <4>2, <4>4
    <3> QED
      BY <3>5, <3>7
  <2> QED
    BY <2>3, <2>4
<1>8. Len(listed) = Len(r.listed) + Len(items)
  BY <1>4, <1>6
<1>9. \A j \in Len(r.listed)..Len(listed), v \in r.known : Covers(listed, j, v)
  <2> TAKE j \in Len(r.listed)..Len(listed), v \in r.known
  <2>1. j \in m..Len(listed)
    BY <1>4
  <2>2. Offset(D, v) >= j \/ \E i \in 1..j : listed[i] = v
    BY <1>7, <2>1
  <2> QED
    BY <1>1, <2>2 DEF Covers
<1> QED
  BY <1>1, <1>3, <1>4, <1>5, <1>6, <1>8, <1>9

\* A listing that ends after j vendors has missed those behind them; it stops at the
\* end of the list, at what it counted or at its limit.
LEMMA EndsWith ==
    ASSUME VendorInv, NEW r, Collects("idle", r), NEW j \in Nat, NEW final \in Seq(Nat),
           Len(final) = j,
           \A v \in r.known : Covers(final, j, v),
           \/ j >= Cardinality(DOMAIN vendors) \/ j >= Cardinality(r.known) \/ j = PortfolioLimit,
           NEW done, done.known = r.known, done.listed = final
    PROVE  Skips(done, DOMAIN vendors)
<1>1. PICK D : D = DOMAIN vendors
  OBVIOUS
<1>2. PICK T : T = r.known \ Range(final)
  OBVIOUS
<1>3. D \in SUBSET Nat /\ IsFiniteSet(D) /\ r.known \in SUBSET D
  BY <1>1, VendorsAreFinite DEF Collects
<1>4. \A v \in T : Offset(D, v) >= j
  <2> TAKE v \in T
  <2>1. v \in r.known /\ ~\E i \in 1..j : final[i] = v
    BY <1>2 DEF Range
  <2> QED
    BY <1>1, <2>1 DEF Covers
<1>5. /\ Cardinality(T) \in Nat
      /\ Cardinality(T) <= IF j <= Cardinality(D) THEN Cardinality(D) - j ELSE 0
  <2>1. T \in SUBSET D
    BY <1>2, <1>3
  <2> QED
    BY <1>3, <1>4, <2>1, LaterOffsets
<1>6. PICK K : K = Cardinality(r.known)
  OBVIOUS
<1>7. PICK new : new = Cardinality(D \ r.known)
  OBVIOUS
<1>8. K \in Nat /\ new \in Nat /\ Cardinality(D) = K + new
  BY <1>1, <1>6, <1>7, KnownIsFinite
<1>9. PortfolioLimit \in Nat
      /\ Max({PortfolioLimit, K}) = IF PortfolioLimit >= K THEN PortfolioLimit ELSE K
  BY <1>8, MaxOfTwo, VendorBoundAssumption
<1>10. Max({PortfolioLimit, K}) - PortfolioLimit + new >= Cardinality(T)
  <2>1. j >= K + new \/ j >= K \/ j = PortfolioLimit
    BY <1>1, <1>6, <1>8
  <2> QED
    BY <1>5, <1>8, <1>9, <2>1
<1> QED
  BY <1>1, <1>2, <1>6, <1>7, <1>10 DEF Skips

\* No request takes part in a listing.
LEMMA RequestsDoNotList ==
    ASSUME VendorInv, NEW h \in Handlers,
           \/ Start(h) \/ UpdateVendor(h) \/ Step(h) \/ PublishFails(h) \/ Crash(h)
    PROVE  UNCHANGED listing /\ \A l \in Listers : pc'[l] = pc[l]
<1>1. UNCHANGED listing /\ \E step : pc' = [pc EXCEPT ![h] = step]
  <2>1. CASE Start(h) \/ UpdateVendor(h)
    <3>1. \E step, s : Begin(h, step, s)
      BY <2>1 DEF Start, CreateVendor, UpdateVendor, TransitionVendor, GenerateQuestionnaire,
         UpdateResponses, UploadDocument, Request
    <3> QED
      BY <3>1 DEF Begin, Move
  <2>2. CASE ReadLatest(h) \/ ReadResponses(h)
    <3>1. UNCHANGED listing /\ \E step, s : Move(h, step, s)
      BY <2>2 DEF ReadLatest, ReadResponses, Finish
    <3> QED
      BY <3>1 DEF Move
  <2>3. CASE StoreFile(h) \/ Refresh(h) \/ Publish(h) \/ PublishFails(h) \/ Crash(h)
    BY <2>3 DEF StoreFile, Refresh, Publish, PublishFails, Crash, Finish, Move
  <2>4. CASE Commit(h)
    <3>1. UNCHANGED listing /\ \E step, s : Move(h, step, s)
      BY <2>4 DEF Commit, Finish
    <3> QED
      BY <3>1 DEF Move
  <2> QED
    BY <2>1, <2>2, <2>3, <2>4 DEF Step
<1> QED
  BY <1>1, HandlerAssumption DEF VendorInv, TypeInv, TypeOK

\* What a step of a listing leaves.
LEMMA ListingSteps ==
    ASSUME VendorInv, ListingInv, NEW l \in Listers,
           StartListing(l) \/ CountVendors(l) \/ ReadPage(l) \/ ListingFails(l)
    PROVE  \E step, r : Turn(l, step, r) /\ Collects(step, r)
<1>1. DOMAIN vendors \in SUBSET Nat
  BY VendorsAreFinite
<1>2. CASE StartListing(l)
  <2>1. PICK r : r = [NoListing EXCEPT !.page = 1, !.known = DOMAIN vendors]
    OBVIOUS
  <2>2. /\ r.page = 1 /\ r.total = 0 /\ r.listed = <<>> /\ r.known = DOMAIN vendors
        /\ r.complete = FALSE
        /\ r = [page |-> 1, total |-> 0, listed |-> <<>>, known |-> DOMAIN vendors,
                complete |-> FALSE]
    BY <2>1 DEF NoListing
  <2>3. r \in ListingRecord
    BY <1>1, <2>2 DEF ListingRecord
  <2>4. Len(r.listed) = 0 /\ (r.page - 1) * PageSize = 0 /\ 0 < PortfolioLimit
    BY <2>2, VendorBoundAssumption
  <2>5. \A v \in DOMAIN vendors : Offset(DOMAIN vendors, v) >= 0
    <3>1. PICK D : D = DOMAIN vendors
      OBVIOUS
    <3>2. D \in SUBSET Nat /\ IsFiniteSet(D)
      BY <3>1, VendorsAreFinite
    <3>3. \A v \in D : Offset(D, v) \in Nat
      BY <3>2, OffsetsGrow
    <3> QED
      BY <3>1, <3>3
  <2>6. Collects("count", r)
    BY <2>2, <2>3, <2>4, <2>5 DEF Collects
  <2> QED
    BY <1>2, <2>1, <2>6 DEF StartListing
<1>3. CASE CountVendors(l)
  <2>1. PICK s : s = listing[l]
    OBVIOUS
  <2>2. s \in ListingRecord /\ Collects("count", s)
    BY <1>3, <2>1 DEF CountVendors, ListingInv
  <2>3. PICK r : r = [s EXCEPT !.total = Cardinality(DOMAIN vendors)]
    OBVIOUS
  <2>4. /\ r.page = s.page /\ r.total = Cardinality(DOMAIN vendors) /\ r.listed = s.listed
        /\ r.known = s.known /\ r.complete = s.complete
    BY <2>2, <2>3 DEF ListingRecord
  <2>5. /\ Cardinality(DOMAIN vendors) \in Nat
        /\ Cardinality(s.known) <= Cardinality(DOMAIN vendors)
    <3>1. Collects("idle", s)
      BY <2>2 DEF Collects
    <3>2. PICK K : K = Cardinality(s.known)
      OBVIOUS
    <3>3. PICK new : new = Cardinality(DOMAIN vendors \ s.known)
      OBVIOUS
    <3>4. K \in Nat /\ new \in Nat /\ Cardinality(DOMAIN vendors) = K + new
      BY <3>1, <3>2, <3>3, KnownIsFinite
    <3> QED
      BY <3>2, <3>4
  <2>6. r \in ListingRecord
    BY <2>2, <2>3, <2>5 DEF ListingRecord
  <2>7. Collects("page", r)
    BY <2>2, <2>4, <2>5, <2>6 DEF Collects
  <2> QED
    BY <1>3, <2>1, <2>3, <2>7 DEF CountVendors
<1>4. CASE ReadPage(l)
  <2>1. PICK s : s = listing[l]
    OBVIOUS
  <2>2. s \in ListingRecord /\ Collects("page", s) /\ Collects("idle", s)
    <3>1. s \in ListingRecord /\ Collects("page", s)
      BY <1>4, <2>1 DEF ReadPage, ListingInv
    <3> QED
      BY <3>1 DEF Collects
  <2>3. PICK items : items = ListVendors(s.page)
    OBVIOUS
  <2>4. PICK listed : listed = s.listed \o items
    OBVIOUS
  <2>5. PICK m : m = Len(s.listed)
    OBVIOUS
  <2>6. PICK n : n = Len(items)
    OBVIOUS
  <2>7. PICK N : N = Cardinality(DOMAIN vendors)
    OBVIOUS
  <2>8. /\ items \in Seq(Nat) /\ listed \in Seq(Nat) /\ m \in Nat /\ n \in Nat
        /\ Len(listed) = m + n
        /\ n = IF N <= m THEN 0 ELSE IF N <= m + PageSize THEN N - m ELSE PageSize
    BY <2>2, <2>3, <2>4, <2>5, <2>6, <2>7, ReadItems
  <2>9. \A j \in m..m + n, v \in s.known : Covers(listed, j, v)
    <3>1. \A j \in Len(s.listed)..Len(s.listed \o ListVendors(s.page)), v \in s.known :
             Covers(s.listed \o ListVendors(s.page), j, v)
      BY <2>2, ReadItems
    <3> QED
      BY <2>3, <2>4, <2>5, <2>8, <3>1
  <2>10. /\ N \in Nat /\ s.total \in Nat /\ Cardinality(s.known) \in Nat
         /\ m < PortfolioLimit /\ Cardinality(s.known) <= s.total /\ s.total <= N
    BY <2>2, <2>5, <2>7, KnownIsFinite DEF Collects, ListingRecord
  <2>21. s.page \in Nat \ {0} /\ m = (s.page - 1) * PageSize
    BY <2>2, <2>5 DEF Collects, ListingRecord
  <2>11. PICK end : end = s.page * PageSize
    OBVIOUS
  <2>12. end = m + PageSize /\ PageSize \in Nat \ {0} /\ PortfolioLimit \in Nat \ {0}
    BY <2>11, <2>21, NextPage, VendorBoundAssumption
  <2>13. PICK next : next = [s EXCEPT !.page = s.page + 1, !.listed = listed]
    OBVIOUS
  <2>14. /\ next.page = s.page + 1 /\ next.total = s.total /\ next.listed = listed
         /\ next.known = s.known /\ next.complete = s.complete
         /\ next \in ListingRecord
    <3>1. s.page + 1 \in Nat
      BY <2>21
    <3> QED
      BY <2>2, <2>8, <2>13, <3>1 DEF ListingRecord
  <2>15. PICK j : j = IF m + n < PortfolioLimit THEN m + n ELSE PortfolioLimit
    OBVIOUS
  <2>16. PICK done : done = [next EXCEPT !.complete = TRUE, !.listed = SubSeq(listed, 1, j)]
    OBVIOUS
  <2>17. IF items = <<>> \/ end >= s.total \/ m + n >= PortfolioLimit
         THEN Turn(l, "idle", done) ELSE Turn(l, "count", next)
    BY ZenonT(40), <1>4, <2>1, <2>3, <2>4, <2>8, <2>11, <2>13, <2>14, <2>15, <2>16
       DEF ReadPage, LastPage
  <2>18. items = <<>> <=> n = 0
    BY <2>6, <2>8, EmptySeq
  <2>19. CASE n = 0 \/ end >= s.total \/ m + n >= PortfolioLimit
    <3>1. j \in m..m + n /\ j \in Nat /\ j <= m + n
      BY <2>8, <2>10, <2>12, <2>15
    <3>2. /\ SubSeq(listed, 1, j) \in Seq(Nat) /\ Len(SubSeq(listed, 1, j)) = j
          /\ \A i \in 1..j : SubSeq(listed, 1, j)[i] = listed[i]
      <4>1. \A i \in 1..j : listed[i] \in Nat
        BY SMTT(30), <2>8, <3>1
      <4> QED
        BY <3>1, <4>1, SubSeqProperties
    <3>3. PICK final : final = SubSeq(listed, 1, j)
      OBVIOUS
    <3>4. /\ done.known = s.known /\ done.listed = final /\ done.complete = TRUE
          /\ done \in ListingRecord
      BY <2>14, <2>16, <3>2, <3>3 DEF ListingRecord
    <3>5. \A v \in s.known : Covers(final, j, v)
      BY <2>9, <3>1, <3>2, <3>3 DEF Covers
    <3>6. j >= N \/ j >= Cardinality(s.known) \/ j = PortfolioLimit
      BY <2>8, <2>10, <2>12, <2>15, <2>19
    <3>7. Skips(done, DOMAIN vendors)
      BY <2>2, <2>7, <3>1, <3>2, <3>3, <3>4, <3>5, <3>6, EndsWith
    <3>8. Collects("idle", done)
      BY <2>2, <3>4, <3>7 DEF Collects
    <3> QED
      BY <2>17, <2>18, <2>19, <3>8
  <2>20. CASE ~(n = 0 \/ end >= s.total \/ m + n >= PortfolioLimit)
    <3>1. n = PageSize /\ m + n = end /\ m + n < PortfolioLimit
      BY <2>8, <2>10, <2>12, <2>20
    <3>2. next.page # 0 /\ (next.page - 1) * PageSize = end
      BY <2>11, <2>14, <2>21
    <3>3. \A v \in s.known \ Range(listed) : Offset(DOMAIN vendors, v) >= m + n
      <4> TAKE v \in s.known \ Range(listed)
      <4>1. m + n \in m..m + n
        BY <2>8
      <4>2. ~\E i \in 1..m + n : listed[i] = v
        BY <2>8 DEF Range
      <4> QED
        BY <2>9, <4>1, <4>2 DEF Covers
    <3>4. Collects("count", next)
      BY <2>2, <2>8, <2>14, <3>1, <3>2, <3>3 DEF Collects
    <3> QED
      BY <2>17, <2>18, <2>20, <3>4
  <2> QED
    BY <2>19, <2>20
<1>5. CASE ListingFails(l)
  <2>1. Collects("idle", NoListing)
    <3>1. NoListing \in ListingRecord
      BY DEF ListingRecord, NoListing
    <3> QED
      BY <3>1 DEF Collects, NoListing
  <2> QED
    BY <1>5, <2>1 DEF ListingFails
<1> QED
  BY <1>2, <1>3, <1>4, <1>5

LEMMA ListingNext ==
    VendorInv /\ VendorInv' /\ ChangeInv /\ ListingInv /\ [Next]_vars => ListingInv'
<1> SUFFICES ASSUME VendorInv, VendorInv', ChangeInv, ListingInv, [Next]_vars PROVE ListingInv'
  OBVIOUS
<1>1. DOMAIN vendors \subseteq DOMAIN vendors'
  BY OnlyCommitsWriteVendors, CommitWrites
<1>2. ASSUME NEW step, NEW r, Collects(step, r) PROVE Collects(step, r)'
  BY <1>1, <1>2, CollectsStays
<1>3. ASSUME UNCHANGED listing, \A l \in Listers : pc'[l] = pc[l]
      PROVE  ListingInv'
  <2>1. \A l \in Listers : Collects(pc[l], listing[l])'
    <3> TAKE l \in Listers
    <3>1. PICK step : step = pc[l]
      OBVIOUS
    <3>2. PICK r : r = listing[l]
      OBVIOUS
    <3>3. Collects(step, r) /\ pc'[l] = step /\ listing'[l] = r
      BY <1>3, <3>1, <3>2 DEF ListingInv
    <3>4. Collects(step, r)'
      BY <1>2, <3>3
    <3> QED
      BY <3>3, <3>4 DEF Collects
  <2> QED
    BY <1>3, <2>1 DEF ListingInv, ListingRecord
<1>4. ASSUME NEW l \in Listers,
             StartListing(l) \/ CountVendors(l) \/ ReadPage(l) \/ ListingFails(l)
      PROVE  ListingInv'
  <2>1. PICK step, r : Turn(l, step, r) /\ Collects(step, r)
    BY <1>4, ListingSteps
  <2>2. /\ \A k \in Listers : /\ pc'[k] = IF k = l THEN step ELSE pc[k]
                              /\ listing'[k] = IF k = l THEN r ELSE listing[k]
        /\ listing' \in [Listers -> ListingRecord]
    BY <2>1 DEF Turn, VendorInv, TypeInv, TypeOK, ListingInv, Collects
  <2>3. \A k \in Listers : Collects(pc[k], listing[k])'
    <3> TAKE k \in Listers
    <3>1. PICK astep : astep = pc'[k]
      OBVIOUS
    <3>2. PICK a : a = listing'[k]
      OBVIOUS
    <3>3. Collects(astep, a)
      BY <2>1, <2>2, <3>1, <3>2 DEF ListingInv
    <3>4. Collects(astep, a)'
      BY <1>2, <3>3
    <3> QED
      BY <3>1, <3>2, <3>4 DEF Collects
  <2> QED
    BY <2>2, <2>3 DEF ListingInv, ListingRecord
<1>5. CASE UNCHANGED vars
  BY <1>3, <1>5 DEF vars
<1>6. ASSUME NEW h \in Handlers,
             Start(h) \/ UpdateVendor(h) \/ Step(h) \/ PublishFails(h) \/ Crash(h)
      PROVE  ListingInv'
  BY <1>3, <1>6, RequestsDoNotList
<1> QED
  BY <1>4, <1>5, <1>6, HandlerAssumption DEF Next, Action, Quiescent

\* list_vendor_ids: what a complete listing misses of the vendors there were when it
\* began is what its limit cuts off and one vendor for each created meanwhile,
\* whatever the page size and however many vendors are created between two pages.
THEOREM ListingsSkipLittle == Spec => []SkippedByCreation
<1>1. Init => ListingInv
  <2> SUFFICES ASSUME Init PROVE ListingInv
    OBVIOUS
  <2>1. listing = [l \in Listers |-> NoListing] /\ \A l \in Listers : pc[l] = "idle"
    BY DEF Init
  <2>2. NoListing \in ListingRecord
    BY DEF ListingRecord, NoListing
  <2>3. Collects("idle", NoListing)
    BY <2>2 DEF Collects, NoListing
  <2> QED
    BY <2>1, <2>2, <2>3 DEF ListingInv
<1>2. ListingInv => SkippedByCreation
  BY DEF ListingInv, Collects, Skips, SkippedByCreation
<1> QED
  BY <1>1, <1>2, ListingNext, AlwaysVendorInv, AlwaysChangeInv, PTL DEF Spec
=============================================================================
