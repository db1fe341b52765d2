-------------------------- MODULE MonitoringProofs --------------------------
(***************************************************************************)
(* The types of monitoring-service, for any sessions that run at once, and *)
(* what one session that upserts alerts and one analyst can rely on.       *)
(*                                                                         *)
(* TypeOK is not inductive: a statement needs what the ones before it have *)
(* left in the memory of its session, a spec, an object, or a row that is  *)
(* in the table.  TypeInv says so for every session.                       *)
(*                                                                         *)
(* Several sweeps at once open two alerts for one key and lower a          *)
(* severity, and an analyst may reopen what another one has resolved, so   *)
(* the other theorems assume OneWriter.  Their invariant is about the      *)
(* transaction under way: the rows it has read are in the table as it read *)
(* them, it opens no second alert for a key, and it has an alert, or is    *)
(* about to have one, for each drift it has stored.                        *)
(***************************************************************************)
EXTENDS MonitoringProperties, SequenceTheorems, WellFoundedInduction, TLAPS

------------------------------------------------------------------------------
(* Types.                                                                  *)

AlertSpec == [vendor : Vendors, key : Keys, severity : SeverityRanks]
Held == [id : Nat, new : BOOLEAN, read : Row, row : Row]
Snapshot == [vendor : Vendors, at : Nat, exposure : Int, services : SUBSET STRING, drift : Int]
SessionType ==
    [op : {"none", "sweep", "event", "acknowledge", "resolve"}, vendors : Seq(Vendors),
     specs : Seq(AlertSpec), objs : Seq(Held), snaps : SUBSET Snapshot,
     next : Nat \ {0}, flagged : SUBSET Nat]

\* What a session runs, and what its next step needs.
Ready(s, step, r) ==
    /\ step # "idle" =>
         /\ s \in Sweepers => r.op = "sweep"
         /\ s \in Consumers => r.op = "event" /\ r.vendors = <<>> /\ r.snaps = {}
         /\ s \in Analysts => /\ r.op \in {"acknowledge", "resolve"}
                              /\ r.vendors = <<>> /\ r.specs = <<>> /\ r.snaps = {}
                              /\ step \in {"flush", "commit"}
    /\ step = "vendor" => r.vendors # <<>>
    /\ step = "select" => r.specs # <<>>
    /\ step # "select" /\ r.op = "event" => r.objs # <<>>
    /\ step = "flush" => r.objs # <<>>
    /\ step = "refresh" => r.op = "event"
    /\ step # "select" /\ step # "flush" => r.specs = <<>>
    /\ step # "flag" => r.flagged = {}

\* The counters bound what a session has numbered, and an alert that is not new,
\* or no longer, is in the table.
Numbered(step, r) ==
    /\ \A i \in DOMAIN r.objs :
         /\ r.objs[i].id \in 1..alertSeq
         /\ ~r.objs[i].new => r.objs[i].id \in DOMAIN alerts
         /\ step \in {"refresh", "publish", "flag"} => ~r.objs[i].new
    /\ \A p \in r.snaps : p.at \in 1..clock

TypeInv ==
    /\ TypeOK
    /\ snapshots \subseteq Snapshot /\ clock \in Nat
    /\ sess \in [Sessions -> SessionType]
    /\ \A s \in Sessions : Ready(s, pc[s], sess[s]) /\ Numbered(pc[s], sess[s])

SameKey(a, b) == a.vendor = b.vendor /\ a.key = b.key

------------------------------------------------------------------------------
(* Rows.                                                                   *)

\* A new alert is an open row with the key and severity of its spec.
LEMMA NewAlertRow ==
    ASSUME NEW spec \in AlertSpec
    PROVE  /\ NewAlert(spec) \in Row
           /\ NewAlert(spec).vendor = spec.vendor /\ NewAlert(spec).key = spec.key
           /\ NewAlert(spec).severity = spec.severity /\ NewAlert(spec).status = "open"
           /\ NewAlert(spec).published = FALSE
  BY DEF NewAlert, AlertSpec, Row

\* A repeat keeps the key and the status of the row, never lowers its severity, and
\* clears the mark.
LEMMA BumpRow ==
    ASSUME NEW row \in Row, NEW spec \in AlertSpec
    PROVE  LET b == Bump(row, spec) IN
           /\ b \in Row
           /\ b.vendor = row.vendor /\ b.key = row.key /\ b.status = row.status
           /\ b.severity >= row.severity /\ b.severity >= spec.severity
           /\ b.published = FALSE
<1> DEFINE sev == IF spec.severity > row.severity THEN spec.severity ELSE row.severity
           r1 == [row EXCEPT !.count = row.count + 1]
           r2 == [r1 EXCEPT !.published = FALSE]
           r3 == [r2 EXCEPT !.severity = sev]
<1>1. sev \in SeverityRanks /\ sev >= row.severity /\ sev >= spec.severity
  BY DEF AlertSpec, Row, SeverityRanks
<1>2. row.count + 1 \in Nat \ {0}
  BY DEF Row
<1>3. /\ r1 \in Row /\ r1.vendor = row.vendor /\ r1.key = row.key /\ r1.status = row.status
  BY <1>2 DEF Row
<1>4. /\ r2 \in Row /\ r2.vendor = row.vendor /\ r2.key = row.key /\ r2.status = row.status
      /\ r2.published = FALSE
  <2> HIDE DEF r1
  <2> QED BY <1>3 DEF Row
<1>5. /\ r3 \in Row /\ r3.vendor = row.vendor /\ r3.key = row.key /\ r3.status = row.status
      /\ r3.published = FALSE /\ r3.severity = sev
  <2> HIDE DEF r1, r2, sev
  <2> QED BY <1>1, <1>4 DEF Row
<1>6. Bump(row, spec) = r3
  BY DEF Bump, Row
<1> HIDE DEF r3, sev
<1> QED BY <1>1, <1>5, <1>6

\* An UPDATE writes what has changed in memory, column by column.
Written(current, obj, col) == IF obj.row[col] # obj.read[col] THEN obj.row[col] ELSE current[col]
LEMMA MergeRow ==
    ASSUME NEW current \in Row, NEW obj \in Held
    PROVE  LET m == Merge(current, obj) IN
           /\ m \in Row
           /\ m.vendor = Written(current, obj, "vendor")
           /\ m.key = Written(current, obj, "key")
           /\ m.severity = Written(current, obj, "severity")
           /\ m.status = Written(current, obj, "status")
           /\ m.published = Written(current, obj, "published")
<1> DEFINE m == Merge(current, obj)
           cols == {"vendor", "key", "severity", "status", "count", "published", "resolvedAt"}
<1>1. DOMAIN current = cols
  BY DEF Row
<1>2. m = [col \in cols |-> Written(current, obj, col)]
  BY <1>1 DEF Merge, Written
<1>3. /\ Written(current, obj, "vendor") \in Vendors
      /\ Written(current, obj, "key") \in Keys
      /\ Written(current, obj, "severity") \in SeverityRanks
      /\ Written(current, obj, "status") \in {"open", "acknowledged", "resolved"}
      /\ Written(current, obj, "count") \in Nat \ {0}
      /\ Written(current, obj, "published") \in BOOLEAN
      /\ Written(current, obj, "resolvedAt") \in BOOLEAN
  BY DEF Written, Held, Row
<1>4. m \in Row
  <2> HIDE DEF m
  <2> QED BY <1>2, <1>3 DEF Row
<1>5. /\ m.vendor = Written(current, obj, "vendor")
      /\ m.key = Written(current, obj, "key")
      /\ m.severity = Written(current, obj, "severity")
      /\ m.status = Written(current, obj, "status")
      /\ m.published = Written(current, obj, "published")
  <2> HIDE DEF m
  <2> QED BY <1>2
<1> QED BY <1>4, <1>5

------------------------------------------------------------------------------
(* Findings.                                                               *)

\* Findings about one vendor with different keys, all in K.
Keyed(q, v, K) ==
    /\ q \in Seq(AlertSpec)
    /\ \A i \in DOMAIN q : q[i].vendor = v /\ q[i].key \in K
    /\ \A i, j \in DOMAIN q : q[i].key = q[j].key => i = j

LEMMA Concatenated ==
    ASSUME NEW q, NEW r, NEW v, NEW K, NEW L,
           Keyed(q, v, K), Keyed(r, v, L), K \cap L = {}
    PROVE  Keyed(q \o r, v, K \cup L)
<1>1. q \in Seq(AlertSpec) /\ r \in Seq(AlertSpec)
  BY DEF Keyed
<1>2. /\ q \o r \in Seq(AlertSpec) /\ Len(q \o r) = Len(q) + Len(r)
      /\ DOMAIN (q \o r) = 1..(Len(q) + Len(r))
  BY <1>1
<1>3. \A i \in DOMAIN (q \o r) :
         \/ i \in DOMAIN q /\ (q \o r)[i] = q[i]
         \/ i - Len(q) \in DOMAIN r /\ (q \o r)[i] = r[i - Len(q)]
  BY <1>1, <1>2
<1>4. \A i \in DOMAIN (q \o r) : (q \o r)[i].vendor = v /\ (q \o r)[i].key \in K \cup L
  BY <1>3 DEF Keyed
<1>5. ASSUME NEW i \in DOMAIN (q \o r), NEW j \in DOMAIN (q \o r), (q \o r)[i].key = (q \o r)[j].key
      PROVE  i = j
  <2>1. CASE i \in DOMAIN q /\ (q \o r)[i] = q[i] /\ j \in DOMAIN q /\ (q \o r)[j] = q[j]
    BY <2>1, <1>5 DEF Keyed
  <2>2. CASE /\ i - Len(q) \in DOMAIN r /\ (q \o r)[i] = r[i - Len(q)]
             /\ j - Len(q) \in DOMAIN r /\ (q \o r)[j] = r[j - Len(q)]
    <3>1. i - Len(q) = j - Len(q)
      BY <2>2, <1>5 DEF Keyed
    <3> QED BY <3>1, <1>1, <1>2
  <2>3. CASE i \in DOMAIN q /\ (q \o r)[i] = q[i]
             /\ j - Len(q) \in DOMAIN r /\ (q \o r)[j] = r[j - Len(q)]
    BY <2>3, <1>5 DEF Keyed
  <2>4. CASE i - Len(q) \in DOMAIN r /\ (q \o r)[i] = r[i - Len(q)]
             /\ j \in DOMAIN q /\ (q \o r)[j] = q[j]
    BY <2>4, <1>5 DEF Keyed
  <2> QED BY <2>1, <2>2, <2>3, <2>4, <1>3
<1> QED BY <1>2, <1>4, <1>5 DEF Keyed

LEMMA AtMostOne ==
    ASSUME NEW S, NEW a \in S, NEW q \in {<<a>>, <<>>}
    PROVE  q \in Seq(S) /\ \A i \in DOMAIN q : i = 1 /\ q[i] = a
<1>1. CASE q = <<a>>
  BY <1>1
<1>2. CASE q = <<>>
  BY <1>2
<1> QED BY <1>1, <1>2

\* An element of the first or of the second sequence is one of the concatenation.
LEMMA ConcatenationKeeps ==
    ASSUME NEW S, NEW q \in Seq(S), NEW r \in Seq(S)
    PROVE  /\ \A i \in DOMAIN q : i \in DOMAIN (q \o r) /\ (q \o r)[i] = q[i]
           /\ \A i \in DOMAIN r : Len(q) + i \in DOMAIN (q \o r) /\ (q \o r)[Len(q) + i] = r[i]
  OBVIOUS

SweepTypes == {"POSTURE_DRIFT", "NEW_EXPOSED_SERVICE", "THREAT_INTEL_MATCH"}
SweepSubjects == {"", "ftp", "rdp", "smtp", "telnet"}

LEMMA SeverityRanked ==
    \A key, reading, prev :
        key[1] \in SweepTypes => SeverityOf(key, reading, prev) \in SeverityRanks
  BY DEF SweepTypes, SeverityOf, SeverityRanks, Medium, High, Critical

LEMMA FindingKeyed ==
    ASSUME NEW v \in Vendors, NEW key \in SweepTypes \X SweepSubjects, NEW reading, NEW prev
    PROVE  Keyed(Finding(v, key, reading, prev), v, {key})
<1>1. SeverityOf(key, reading, prev) \in SeverityRanks
  BY SeverityRanked
<1>2. key \in Keys
  <2>1. SweepTypes \subseteq AlertTypes
    BY DEF SweepTypes, AlertTypes
  <2>2. SweepSubjects \subseteq Subjects
    BY DEF SweepSubjects, Subjects
  <2> QED BY <2>1, <2>2 DEF Keys
<1> DEFINE spec == [vendor |-> v, key |-> key, severity |-> SeverityOf(key, reading, prev)]
<1>3. spec \in AlertSpec /\ spec.vendor = v /\ spec.key = key
  BY <1>1, <1>2 DEF AlertSpec
<1>4. Finding(v, key, reading, prev) \in {<<spec>>, <<>>}
  BY DEF Finding
<1> DEFINE q == Finding(v, key, reading, prev)
<1> HIDE DEF spec, q
<1>5. q \in Seq(AlertSpec) /\ \A i \in DOMAIN q : i = 1 /\ q[i] = spec
  BY <1>3, <1>4, AtMostOne DEF q
<1>6. Keyed(q, v, {key})
  BY <1>3, <1>5 DEF Keyed
<1> QED BY <1>6 DEF q

DriftKey == <<"POSTURE_DRIFT", "">>
ServiceKey(item) == <<"NEW_EXPOSED_SERVICE", item>>
IntelKey == <<"THREAT_INTEL_MATCH", "">>

\* What a reading raises: at most one finding for each key, and the alert of a drift
\* that reaches the threshold.
LEMMA FindingsKeyed ==
    ASSUME NEW v \in Vendors, NEW reading, NEW prev
    PROVE  LET q == EvaluateSnapshot(v, reading, prev) IN
           /\ q \in Seq(AlertSpec)
           /\ \A i \in DOMAIN q : q[i].vendor = v
           /\ \A i, j \in DOMAIN q : SameKey(q[i], q[j]) => i = j
           /\ Raised(DriftKey, reading, prev) =>
                \E i \in DOMAIN q : /\ q[i].vendor = v /\ q[i].key = DriftKey
                                    /\ q[i].severity = SeverityOf(DriftKey, reading, prev)
<1> DEFINE F(key) == Finding(v, key, reading, prev)
           ftp == ServiceKey("ftp")
           rdp == ServiceKey("rdp")
           smtp == ServiceKey("smtp")
           telnet == ServiceKey("telnet")
           q1 == F(DriftKey) \o F(ftp)
           q2 == q1 \o F(rdp)
           q3 == q2 \o F(smtp)
           q4 == q3 \o F(telnet)
           q5 == q4 \o F(IntelKey)
<1>1. EvaluateSnapshot(v, reading, prev) = q5
  BY DEF EvaluateSnapshot, DriftKey, ServiceKey, IntelKey
<1>2. /\ Keyed(F(DriftKey), v, {DriftKey}) /\ Keyed(F(IntelKey), v, {IntelKey})
      /\ Keyed(F(ftp), v, {ftp}) /\ Keyed(F(rdp), v, {rdp})
      /\ Keyed(F(smtp), v, {smtp}) /\ Keyed(F(telnet), v, {telnet})
  <2>1. DriftKey \in SweepTypes \X SweepSubjects /\ IntelKey \in SweepTypes \X SweepSubjects
    BY DEF DriftKey, IntelKey, SweepTypes, SweepSubjects
  <2>2. \A item \in SweepSubjects : ServiceKey(item) \in SweepTypes \X SweepSubjects
    BY DEF ServiceKey, SweepTypes
  <2>3. {"ftp", "rdp", "smtp", "telnet"} \subseteq SweepSubjects
    BY DEF SweepSubjects
  <2>4. /\ ftp \in SweepTypes \X SweepSubjects /\ rdp \in SweepTypes \X SweepSubjects
        /\ smtp \in SweepTypes \X SweepSubjects /\ telnet \in SweepTypes \X SweepSubjects
    BY <2>2, <2>3
  <2> HIDE DEF ftp, rdp, smtp, telnet
  <2> QED BY <2>1, <2>4, FindingKeyed
<1>3. /\ DriftKey \notin {ftp, rdp, smtp, telnet, IntelKey} /\ ftp \notin {rdp, smtp, telnet, IntelKey}
      /\ rdp \notin {smtp, telnet, IntelKey} /\ smtp \notin {telnet, IntelKey} /\ telnet # IntelKey
  BY DEF DriftKey, ServiceKey, IntelKey
<1>4. Raised(DriftKey, reading, prev) =>
         /\ 1 \in DOMAIN F(DriftKey)
         /\ F(DriftKey)[1] = [vendor |-> v, key |-> DriftKey,
                              severity |-> SeverityOf(DriftKey, reading, prev)]
  BY DEF Finding
<1> HIDE DEF F, ftp, rdp, smtp, telnet, q1, q2, q3, q4, q5
<1>5. Keyed(q1, v, {DriftKey} \cup {ftp})
  BY <1>2, <1>3, Concatenated DEF q1
<1>6. Keyed(q2, v, ({DriftKey} \cup {ftp}) \cup {rdp})
  <2>1. ({DriftKey} \cup {ftp}) \cap {rdp} = {} BY <1>3
  <2> QED BY <1>2, <1>5, <2>1, Concatenated DEF q2
<1>7. Keyed(q3, v, (({DriftKey} \cup {ftp}) \cup {rdp}) \cup {smtp})
  <2>1. (({DriftKey} \cup {ftp}) \cup {rdp}) \cap {smtp} = {} BY <1>3
  <2> QED BY <1>2, <1>6, <2>1, Concatenated DEF q3
<1>8. Keyed(q4, v, ((({DriftKey} \cup {ftp}) \cup {rdp}) \cup {smtp}) \cup {telnet})
  <2>1. ((({DriftKey} \cup {ftp}) \cup {rdp}) \cup {smtp}) \cap {telnet} = {} BY <1>3
  <2> QED BY <1>2, <1>7, <2>1, Concatenated DEF q4
<1>9. Keyed(q5, v, (((({DriftKey} \cup {ftp}) \cup {rdp}) \cup {smtp}) \cup {telnet}) \cup {IntelKey})
  <2>1. (((({DriftKey} \cup {ftp}) \cup {rdp}) \cup {smtp}) \cup {telnet}) \cap {IntelKey} = {}
    BY <1>3
  <2> QED BY <1>2, <1>8, <2>1, Concatenated DEF q5
<1>10. /\ q5 \in Seq(AlertSpec)
       /\ \A i \in DOMAIN q5 : q5[i].vendor = v
       /\ \A i, j \in DOMAIN q5 : SameKey(q5[i], q5[j]) => i = j
  BY <1>9 DEF Keyed, SameKey
<1>11. /\ F(DriftKey) \in Seq(AlertSpec) /\ F(ftp) \in Seq(AlertSpec) /\ F(rdp) \in Seq(AlertSpec)
       /\ F(smtp) \in Seq(AlertSpec) /\ F(telnet) \in Seq(AlertSpec)
       /\ F(IntelKey) \in Seq(AlertSpec) /\ q1 \in Seq(AlertSpec) /\ q2 \in Seq(AlertSpec)
       /\ q3 \in Seq(AlertSpec) /\ q4 \in Seq(AlertSpec)
  BY <1>2, <1>5, <1>6, <1>7, <1>8 DEF Keyed
<1>12. ASSUME 1 \in DOMAIN F(DriftKey)
       PROVE  1 \in DOMAIN q5 /\ q5[1] = F(DriftKey)[1]
  <2>0. \A q, r \in Seq(AlertSpec) :
          1 \in DOMAIN q => 1 \in DOMAIN (q \o r) /\ (q \o r)[1] = q[1]
    BY ConcatenationKeeps
  <2>1. 1 \in DOMAIN q1 /\ q1[1] = F(DriftKey)[1]
    BY <1>11, <1>12, <2>0 DEF q1
  <2>2. 1 \in DOMAIN q2 /\ q2[1] = q1[1]
    BY <1>11, <2>1, <2>0 DEF q2
  <2>3. 1 \in DOMAIN q3 /\ q3[1] = q2[1]
    BY <1>11, <2>2, <2>0 DEF q3
  <2>4. 1 \in DOMAIN q4 /\ q4[1] = q3[1]
    BY <1>11, <2>3, <2>0 DEF q4
  <2>5. 1 \in DOMAIN q5 /\ q5[1] = q4[1]
    BY <1>11, <2>4, <2>0 DEF q5
  <2> QED BY <2>1, <2>2, <2>3, <2>4, <2>5
<1>13. Raised(DriftKey, reading, prev) =>
         \E i \in DOMAIN q5 : /\ q5[i].vendor = v /\ q5[i].key = DriftKey
                              /\ q5[i].severity = SeverityOf(DriftKey, reading, prev)
  BY <1>4, <1>12
<1> QED BY <1>1, <1>10, <1>13

\* An event raises at most one finding.
LEMMA EventKeyed ==
    ASSUME NEW e \in Inbound
    PROVE  /\ AlertFromEvent(e) \in Seq(AlertSpec)
           /\ \A i, j \in DOMAIN AlertFromEvent(e) : i = j
<1>1. /\ e.vendor \in Vendors
      /\ <<"CRITICAL_CVE", e.item>> \in Keys /\ <<"COMPLIANCE_GAP", e.item>> \in Keys
      /\ <<"RISK_ANOMALY", "">> \in Keys
  <2>1. {"CRITICAL_CVE", "COMPLIANCE_GAP", "RISK_ANOMALY"} \subseteq AlertTypes
    BY DEF AlertTypes
  <2>2. "" \in Subjects /\ e.item \in Subjects
    BY DEF Subjects
  <2> QED BY <2>1, <2>2 DEF Keys, Vendors
<1> DEFINE One(type, item, severity) ==
        <<[vendor |-> e.vendor, key |-> <<type, item>>, severity |-> severity]>>
<1>2. ASSUME NEW type, NEW item, <<type, item>> \in Keys, NEW severity \in SeverityRanks
      PROVE  /\ One(type, item, severity) \in Seq(AlertSpec)
             /\ \A i, j \in DOMAIN One(type, item, severity) : i = j
  <2>2. [vendor |-> e.vendor, key |-> <<type, item>>, severity |-> severity] \in AlertSpec
    BY <1>1, <1>2 DEF AlertSpec
  <2> QED BY <2>2, AtMostOne
<1>3. AlertFromEvent(e) \in {One("CRITICAL_CVE", e.item, Critical), One("COMPLIANCE_GAP", e.item, High),
                             One("COMPLIANCE_GAP", e.item, Medium), One("RISK_ANOMALY", "", High), <<>>}
  BY DEF AlertFromEvent
<1>4. Critical \in SeverityRanks /\ High \in SeverityRanks /\ Medium \in SeverityRanks
  BY DEF Critical, High, Medium, SeverityRanks
<1> DEFINE q == AlertFromEvent(e)
           Fine(a) == a \in Seq(AlertSpec) /\ \A i, j \in DOMAIN a : i = j
<1>5. /\ Fine(One("CRITICAL_CVE", e.item, Critical)) /\ Fine(One("COMPLIANCE_GAP", e.item, High))
      /\ Fine(One("COMPLIANCE_GAP", e.item, Medium)) /\ Fine(One("RISK_ANOMALY", "", High))
  <2> HIDE DEF One
  <2> QED BY <1>1, <1>2, <1>4
<1>6. Fine(<<>>)
  OBVIOUS
<1> HIDE DEF One, q, Fine
<1>7. Fine(q)
  BY <1>3, <1>5, <1>6 DEF q
<1> QED BY <1>7 DEF q, Fine

------------------------------------------------------------------------------
(* What a step does to the memory of a session.                            *)

SkipVendor(r, vs) == [r EXCEPT !.vendors = vs]
LEMMA WithVendors ==
    ASSUME NEW r \in SessionType, NEW vs \in Seq(Vendors)
    PROVE  LET t == SkipVendor(r, vs) IN
           /\ t \in SessionType /\ t.vendors = vs
           /\ t.op = r.op /\ t.specs = r.specs /\ t.objs = r.objs /\ t.snaps = r.snaps
           /\ t.next = r.next /\ t.flagged = r.flagged
  BY DEF SessionType, SkipVendor

TakeReading(r, vs, sp, sn) == [r EXCEPT !.vendors = vs, !.specs = sp, !.snaps = sn]
LEMMA WithReading ==
    ASSUME NEW r \in SessionType, NEW vs \in Seq(Vendors), NEW sp \in Seq(AlertSpec),
           NEW sn \in SUBSET Snapshot
    PROVE  LET t == TakeReading(r, vs, sp, sn) IN
           /\ t \in SessionType /\ t.vendors = vs /\ t.specs = sp /\ t.snaps = sn
           /\ t.op = r.op /\ t.objs = r.objs /\ t.next = r.next /\ t.flagged = r.flagged
<1> DEFINE r1 == [r EXCEPT !.vendors = vs]
           r2 == [r1 EXCEPT !.specs = sp]
           r3 == [r2 EXCEPT !.snaps = sn]
<1>1. /\ r1 \in SessionType /\ r1.vendors = vs
      /\ r1.op = r.op /\ r1.objs = r.objs /\ r1.next = r.next /\ r1.flagged = r.flagged
  BY DEF SessionType
<1>2. /\ r2 \in SessionType /\ r2.vendors = vs /\ r2.specs = sp
      /\ r2.op = r.op /\ r2.objs = r.objs /\ r2.next = r.next /\ r2.flagged = r.flagged
  <2> HIDE DEF r1
  <2> QED BY <1>1 DEF SessionType
<1>3. /\ r3 \in SessionType /\ r3.vendors = vs /\ r3.specs = sp /\ r3.snaps = sn
      /\ r3.op = r.op /\ r3.objs = r.objs /\ r3.next = r.next /\ r3.flagged = r.flagged
  <2> HIDE DEF r2
  <2> QED BY <1>2 DEF SessionType
<1>4. TakeReading(r, vs, sp, sn) = r3
  BY DEF TakeReading
<1> QED BY <1>3, <1>4

PutObject(r, sp, o) == [r EXCEPT !.specs = sp, !.objs = Append(@, o)]
LEMMA WithObject ==
    ASSUME NEW r \in SessionType, NEW sp \in Seq(AlertSpec), NEW o \in Held
    PROVE  LET t == PutObject(r, sp, o) IN
           /\ t \in SessionType /\ t.specs = sp /\ t.objs = Append(r.objs, o)
           /\ t.op = r.op /\ t.vendors = r.vendors /\ t.snaps = r.snaps
           /\ t.next = r.next /\ t.flagged = r.flagged
<1> DEFINE r1 == [r EXCEPT !.specs = sp]
           os == Append(r.objs, o)
           r2 == [r1 EXCEPT !.objs = os]
<1>1. /\ r1 \in SessionType /\ r1.specs = sp /\ r1.objs = r.objs
      /\ r1.op = r.op /\ r1.vendors = r.vendors /\ r1.snaps = r.snaps
      /\ r1.next = r.next /\ r1.flagged = r.flagged
  BY DEF SessionType
<1>2. os \in Seq(Held)
  BY DEF SessionType
<1>3. /\ r2 \in SessionType /\ r2.specs = sp /\ r2.objs = os
      /\ r2.op = r.op /\ r2.vendors = r.vendors /\ r2.snaps = r.snaps
      /\ r2.next = r.next /\ r2.flagged = r.flagged
  <2> HIDE DEF r1, os
  <2> QED BY <1>1, <1>2 DEF SessionType
<1>4. PutObject(r, sp, o) = r2
  BY DEF PutObject, SessionType
<1> QED BY <1>3, <1>4

KeepObjects(r, os) == [r EXCEPT !.objs = os]
LEMMA WithObjects ==
    ASSUME NEW r \in SessionType, NEW os \in Seq(Held)
    PROVE  LET t == KeepObjects(r, os) IN
           /\ t \in SessionType /\ t.objs = os
           /\ t.op = r.op /\ t.vendors = r.vendors /\ t.specs = r.specs /\ t.snaps = r.snaps
           /\ t.next = r.next /\ t.flagged = r.flagged
  BY DEF SessionType, KeepObjects

PutFlag(r, n) == [r EXCEPT !.flagged = @ \cup {n}]
LEMMA WithFlag ==
    ASSUME NEW r \in SessionType, NEW n \in Nat
    PROVE  LET t == PutFlag(r, n) IN
           /\ t \in SessionType /\ t.flagged = r.flagged \cup {n}
           /\ t.op = r.op /\ t.vendors = r.vendors /\ t.specs = r.specs /\ t.objs = r.objs
           /\ t.snaps = r.snaps /\ t.next = r.next
  BY DEF SessionType, PutFlag

\* Marking an object touches nothing else of it.
PutMark(r, i, mark) == [r EXCEPT !.objs[i].row.published = mark, !.next = i + 1]
LEMMA WithMark ==
    ASSUME NEW r \in SessionType, NEW mark \in BOOLEAN, NEW i \in DOMAIN r.objs
    PROVE  LET t == PutMark(r, i, mark) IN
           /\ t \in SessionType /\ DOMAIN t.objs = DOMAIN r.objs
           /\ \A j \in DOMAIN r.objs : j # i => t.objs[j] = r.objs[j]
           /\ t.objs[i].id = r.objs[i].id /\ t.objs[i].new = r.objs[i].new
           /\ t.objs[i].read = r.objs[i].read
           /\ t.objs[i].row.severity = r.objs[i].row.severity
           /\ t.objs[i].row.published = mark
           /\ t.op = r.op /\ t.vendors = r.vendors /\ t.specs = r.specs /\ t.snaps = r.snaps
           /\ t.flagged = r.flagged
<1> DEFINE row == [r.objs[i].row EXCEPT !.published = mark]
           o == [r.objs[i] EXCEPT !.row = row]
           os == [r.objs EXCEPT ![i] = o]
           r1 == [r EXCEPT !.objs = os]
           r2 == [r1 EXCEPT !.next = i + 1]
<1>1. r.objs \in Seq(Held) /\ r.objs[i] \in Held /\ r.objs[i].row \in Row /\ i \in Nat \ {0}
  <2>1. r.objs \in Seq(Held)
    BY DEF SessionType
  <2>2. r.objs[i] \in Held /\ i \in Nat \ {0}
    BY <2>1
  <2> QED BY <2>1, <2>2 DEF Held
<1>2. row \in Row /\ row.severity = r.objs[i].row.severity /\ row.published = mark
  BY <1>1 DEF Row
<1>3. o \in Held /\ o.id = r.objs[i].id /\ o.new = r.objs[i].new /\ o.read = r.objs[i].read /\ o.row = row
  <2> HIDE DEF row
  <2> QED BY <1>1, <1>2 DEF Held
<1>4. /\ os \in Seq(Held) /\ DOMAIN os = DOMAIN r.objs /\ os[i] = o
      /\ \A j \in DOMAIN r.objs : j # i => os[j] = r.objs[j]
  <2> HIDE DEF o
  <2> QED BY <1>1, <1>3
<1>5. /\ r1 \in SessionType /\ r1.objs = os /\ r1.op = r.op /\ r1.vendors = r.vendors
      /\ r1.specs = r.specs /\ r1.snaps = r.snaps /\ r1.flagged = r.flagged
  <2> HIDE DEF os
  <2> QED BY <1>4 DEF SessionType
<1>6. i + 1 \in Nat \ {0}
  BY <1>1
<1>7. /\ r2 \in SessionType /\ r2.objs = os /\ r2.op = r.op /\ r2.vendors = r.vendors
      /\ r2.specs = r.specs /\ r2.snaps = r.snaps /\ r2.flagged = r.flagged
  <2> HIDE DEF r1
  <2> QED BY <1>5, <1>6 DEF SessionType
<1>8. PutMark(r, i, mark) = r2
  BY DEF PutMark, SessionType
<1> HIDE DEF r2, os, o, row
<1> QED BY <1>2, <1>3, <1>4, <1>7, <1>8

LEMMA NextStepFacts ==
    ASSUME NEW specs, NEW vendors
    PROVE  /\ NextStep(specs, vendors) \in {"select", "vendor", "commit"}
           /\ NextStep(specs, vendors) = "select" <=> specs # <<>>
           /\ NextStep(specs, vendors) = "vendor" => vendors # <<>>
           /\ specs = <<>> /\ vendors = <<>> => NextStep(specs, vendors) = "commit"
           /\ NextStep(specs, vendors) = "commit" => vendors = <<>>
  BY DEF NextStep

LEMMA Tailed ==
    ASSUME NEW S, NEW q \in Seq(S), q # <<>>
    PROVE  /\ Head(q) \in S /\ Tail(q) \in Seq(S) /\ 1 \in DOMAIN q /\ Head(q) = q[1]
           /\ \A i \in DOMAIN Tail(q) : i + 1 \in DOMAIN q /\ Tail(q)[i] = q[i + 1]
  OBVIOUS

LEMMA Appended ==
    ASSUME NEW S, NEW q \in Seq(S), NEW x \in S
    PROVE  /\ Append(q, x) \in Seq(S) /\ Append(q, x) # <<>>
           /\ Len(q) \in Nat /\ Last(Append(q, x)) = x /\ Append(q, x)[Len(q) + 1] = x
           /\ \A i \in DOMAIN Append(q, x) :
                \/ i \in DOMAIN q /\ Append(q, x)[i] = q[i]
                \/ i = Len(q) + 1 /\ Append(q, x)[i] = x
           /\ \A i \in DOMAIN q : i \in DOMAIN Append(q, x) /\ Append(q, x)[i] = q[i]
<1> DEFINE a == Append(q, x)
<1>1. /\ a \in Seq(S) /\ Len(q) \in Nat /\ Len(a) = Len(q) + 1 /\ a[Len(q) + 1] = x
      /\ \A i \in 1..Len(q) : a[i] = q[i]
  BY AppendProperties
<1>2. DOMAIN q = 1..Len(q) /\ DOMAIN a = 1..(Len(q) + 1)
  BY <1>1
<1> HIDE DEF a
<1>3. a # <<>>
  BY <1>1
<1> QED BY <1>1, <1>2, <1>3 DEF a, Last

------------------------------------------------------------------------------
(* TypeInv is inductive.                                                   *)

TablesOK ==
    /\ DOMAIN alerts \subseteq 1..alertSeq /\ alertSeq \in Nat
    /\ \A n \in DOMAIN alerts : alerts[n] \in Row
    /\ \A p \in snapshots : p.vendor \in Vendors /\ p.at \in 1..clock
    /\ snapshots \subseteq Snapshot /\ clock \in Nat
    /\ sent \in Seq([alert : Nat, severity : SeverityRanks,
                     status : {"open", "acknowledged", "resolved"}])

\* No alert is deleted, and no number given twice.
Grows == DOMAIN alerts \subseteq DOMAIN alerts' /\ alertSeq <= alertSeq' /\ clock <= clock'

LEMMA TypeInvParts ==
    ASSUME TypeInv
    PROVE  /\ TablesOK /\ pc \in [Sessions -> Steps] /\ sess \in [Sessions -> SessionType]
           /\ \A s \in Sessions : /\ pc[s] \in Steps /\ sess[s] \in SessionType
                                  /\ Ready(s, pc[s], sess[s]) /\ Numbered(pc[s], sess[s])
  BY DEF TypeInv, TypeOK, TablesOK

LEMMA TypeInvWhole ==
    ASSUME TablesOK', pc' \in [Sessions -> Steps], sess' \in [Sessions -> SessionType],
           \A s \in Sessions : Ready(s, pc'[s], sess'[s]) /\ Numbered(pc[s], sess[s])'
    PROVE  TypeInv'
<1>1. ASSUME NEW s \in Sessions, NEW i \in DOMAIN sess'[s].objs
      PROVE  sess'[s].objs[i].row \in Row
  <2>1. sess'[s].objs \in Seq(Held)
    BY DEF SessionType
  <2>2. sess'[s].objs[i] \in Held
    BY <2>1
  <2> QED BY <2>2 DEF Held
<1>2. \A s \in Sessions : Ready(s, pc[s], sess[s])' /\ Numbered(pc[s], sess[s])'
  BY DEF Ready
<1> QED BY <1>1, <1>2 DEF TypeInv, TypeOK, TablesOK

LEMMA NumberedGrows ==
    ASSUME NEW step, NEW r \in SessionType, Numbered(step, r), Grows, TablesOK, TablesOK'
    PROVE  Numbered(step, r)'
  BY DEF Numbered, Grows, TablesOK

\* One session moves on, the tables grow.
LEMMA TypeMoves ==
    ASSUME TypeInv, NEW s \in Sessions, NEW step \in Steps, NEW r \in SessionType,
           Move(s, step, r), TablesOK', Grows, Ready(s, step, r), Numbered(step, r)'
    PROVE  TypeInv'
<1>1. /\ pc' \in [Sessions -> Steps] /\ sess' \in [Sessions -> SessionType]
      /\ pc'[s] = step /\ sess'[s] = r
      /\ \A t \in Sessions \ {s} : pc'[t] = pc[t] /\ sess'[t] = sess[t]
  BY TypeInvParts DEF Move
<1>2. ASSUME NEW t \in Sessions
      PROVE  Ready(t, pc'[t], sess'[t]) /\ Numbered(pc[t], sess[t])'
  <2>1. CASE t = s
    BY <1>1, <2>1
  <2>2. CASE t # s
    <3> PICK p, q : p = pc[t] /\ q = sess[t]
      OBVIOUS
    <3>1. q \in SessionType /\ Ready(t, p, q) /\ Numbered(p, q) /\ TablesOK
      BY TypeInvParts
    <3>2. Numbered(p, q)'
      BY <3>1, NumberedGrows
    <3> QED BY <1>1, <2>2, <3>1, <3>2
  <2> QED BY <2>1, <2>2
<1> QED BY <1>1, <1>2, TypeInvWhole

LEMMA NoSessionTyped ==
    ASSUME NEW s \in Sessions
    PROVE  NoSession \in SessionType /\ Ready(s, "idle", NoSession) /\ Numbered("idle", NoSession)'
<1>1. NoSession \in SessionType
  BY DEF NoSession, SessionType
<1>2. Ready(s, "idle", NoSession)
  BY DEF NoSession, Ready
<1>3. Numbered("idle", NoSession)'
  BY DEF NoSession, Numbered
<1> QED BY <1>1, <1>2, <1>3

\* A session ends.
LEMMA TypeFinish ==
    ASSUME TypeInv, NEW s \in Sessions, Finish(s), TablesOK', Grows
    PROVE  TypeInv'
  BY NoSessionTyped, TypeMoves DEF Finish, Steps

\* Nothing but the session is changed.
LEMMA TablesKept ==
    ASSUME TypeInv, UNCHANGED <<dbVars, sent>>
    PROVE  TablesOK' /\ Grows
  BY TypeInvParts DEF TablesOK, Grows, dbVars

\* The table after the commit of a session.
LEMMA StoredRows ==
    ASSUME NEW objs \in Seq(Held), \A n \in DOMAIN alerts : alerts[n] \in Row
    PROVE  /\ DOMAIN Stored(objs) = DOMAIN alerts \cup {objs[i].id : i \in DOMAIN objs}
           /\ \A n \in DOMAIN Stored(objs) : Stored(objs)[n] \in Row
           /\ \A n \in DOMAIN alerts :
                (\A i \in DOMAIN objs : objs[i].id # n) => Stored(objs)[n] = alerts[n]
           /\ \A i \in DOMAIN objs :
                \E j \in DOMAIN objs :
                   /\ objs[j].id = objs[i].id
                   /\ Stored(objs)[objs[i].id] = IF objs[i].id \in DOMAIN alerts
                                                 THEN Merge(alerts[objs[i].id], objs[j])
                                                 ELSE objs[j].row
<1> DEFINE ids == {objs[i].id : i \in DOMAIN objs}
           stored == Stored(objs)
<1>1. stored = [n \in DOMAIN alerts \cup ids |->
                   IF n \notin ids THEN alerts[n]
                   ELSE IF n \in DOMAIN alerts THEN Merge(alerts[n], Obj(objs, n))
                   ELSE Obj(objs, n).row]
  BY DEF Stored
<1>2. ASSUME NEW n \in ids
      PROVE  \E j \in DOMAIN objs : objs[j].id = n /\ Obj(objs, n) = objs[j]
  <2> DEFINE j == CHOOSE i \in DOMAIN objs : objs[i].id = n
  <2>1. j \in DOMAIN objs /\ objs[j].id = n
    OBVIOUS
  <2>2. Obj(objs, n) = objs[j]
    BY DEF Obj
  <2> QED BY <2>1, <2>2
<1>3. \A j \in DOMAIN objs : objs[j] \in Held /\ objs[j].row \in Row
  <2>1. \A j \in DOMAIN objs : objs[j] \in Held
    OBVIOUS
  <2> QED BY <2>1 DEF Held
<1> HIDE DEF stored
<1>4. DOMAIN stored = DOMAIN alerts \cup ids
  BY <1>1
<1>5. \A n \in DOMAIN alerts : n \notin ids => stored[n] = alerts[n]
  BY <1>1
<1>6. ASSUME NEW n \in ids
      PROVE  \E j \in DOMAIN objs :
                /\ objs[j].id = n
                /\ stored[n] = IF n \in DOMAIN alerts THEN Merge(alerts[n], objs[j]) ELSE objs[j].row
  BY <1>1, <1>2
<1>7. ASSUME NEW n \in DOMAIN stored
      PROVE  stored[n] \in Row
  <2>1. CASE n \notin ids
    BY <1>4, <1>5, <2>1
  <2>2. CASE n \in ids /\ n \in DOMAIN alerts
    <3> PICK j \in DOMAIN objs : stored[n] = Merge(alerts[n], objs[j])
      BY <1>6, <2>2
    <3> PICK row, obj : row = alerts[n] /\ obj = objs[j]
      OBVIOUS
    <3> QED BY <1>3, <2>2, MergeRow
  <2>3. CASE n \in ids /\ n \notin DOMAIN alerts
    BY <1>3, <1>6, <2>3
  <2> QED BY <2>1, <2>2, <2>3
<1>8. \A i \in DOMAIN objs : objs[i].id \in ids
  OBVIOUS
<1> HIDE DEF ids
<1>9. /\ \A n \in DOMAIN alerts : (\A i \in DOMAIN objs : objs[i].id # n) => n \notin ids
  BY DEF ids
<1>10. DOMAIN stored = DOMAIN alerts \cup {objs[i].id : i \in DOMAIN objs}
  BY <1>4 DEF ids
<1> QED BY <1>5, <1>6, <1>7, <1>8, <1>9, <1>10 DEF stored

\* What a session keeps in memory after its commit.
Saved(objs) ==
    [i \in DOMAIN objs |-> [objs[i] EXCEPT !.new = FALSE, !.read = objs[i].row]]
LEMMA SavedObjects ==
    ASSUME NEW objs \in Seq(Held)
    PROVE  /\ Saved(objs) \in Seq(Held) /\ DOMAIN Saved(objs) = DOMAIN objs
           /\ Len(Saved(objs)) = Len(objs)
           /\ \A i \in DOMAIN objs :
                /\ Saved(objs)[i].id = objs[i].id /\ Saved(objs)[i].new = FALSE
                /\ Saved(objs)[i].read = objs[i].row /\ Saved(objs)[i].row = objs[i].row
<1> DEFINE S(i) == [objs[i] EXCEPT !.new = FALSE, !.read = objs[i].row]
<1>1. ASSUME NEW i \in DOMAIN objs
      PROVE  S(i) \in Held /\ S(i).id = objs[i].id /\ S(i).new = FALSE
             /\ S(i).read = objs[i].row /\ S(i).row = objs[i].row
  <2> PICK o : o = objs[i]
    OBVIOUS
  <2>1. o \in Held
    OBVIOUS
  <2> DEFINE o1 == [o EXCEPT !.new = FALSE]
  <2>2. o1 \in Held /\ o1.id = o.id /\ o1.new = FALSE /\ o1.row = o.row
    BY <2>1 DEF Held
  <2>3. o.row \in Row
    BY <2>1 DEF Held
  <2>4. S(i) = [o1 EXCEPT !.read = o.row]
    OBVIOUS
  <2> HIDE DEF o1, S
  <2>5. /\ S(i) \in Held /\ S(i).id = o.id /\ S(i).new = FALSE
        /\ S(i).read = o.row /\ S(i).row = o.row
    BY <2>2, <2>3, <2>4 DEF Held
  <2> QED BY <2>5
<1>2. Saved(objs) = [i \in DOMAIN objs |-> S(i)]
  BY DEF Saved
<1> HIDE DEF S
<1>3. DOMAIN Saved(objs) = DOMAIN objs /\ \A i \in DOMAIN objs : Saved(objs)[i] = S(i)
  BY <1>2
<1>4. Saved(objs) \in Seq(Held) /\ Len(Saved(objs)) = Len(objs)
  <2>1. DOMAIN objs = 1..Len(objs) /\ Len(objs) \in Nat
    OBVIOUS
  <2>2. Saved(objs) \in [1..Len(objs) -> Held]
    BY <1>1, <1>2, <2>1
  <2>3. Saved(objs) \in Seq(Held)
    BY <2>1, <2>2, SeqDef
  <2> QED BY <1>3, <2>1, <2>3
<1> QED BY <1>1, <1>3, <1>4

------------------------------------------------------------------------------
(* The actions keep the types.                                             *)

LEMMA Ops ==
    /\ \A s \in Sweepers : s \in Sessions /\ s \notin Consumers /\ s \notin Analysts
    /\ \A s \in Consumers : s \in Sessions /\ s \notin Sweepers /\ s \notin Analysts
    /\ \A s \in Analysts : s \in Sessions /\ s \notin Sweepers /\ s \notin Consumers
  BY SessionAssumption DEF Sessions

\* The memory of a session as it starts.
LEMMA NoSessionFields ==
    ASSUME NEW op \in {"sweep", "event", "acknowledge", "resolve"}
    PROVE  LET t == [NoSession EXCEPT !.op = op] IN
           /\ t \in SessionType /\ t.op = op /\ t.vendors = <<>> /\ t.specs = <<>>
           /\ t.objs = <<>> /\ t.snaps = {} /\ t.next = 1 /\ t.flagged = {}
<1> PICK r : r = NoSession
  OBVIOUS
<1>1. /\ r \in SessionType /\ r.vendors = <<>> /\ r.specs = <<>>
      /\ r.objs = <<>> /\ r.snaps = {} /\ r.next = 1 /\ r.flagged = {}
  BY DEF NoSession, SessionType
<1>2. LET t == [r EXCEPT !.op = op] IN
      /\ t \in SessionType /\ t.op = op /\ t.vendors = <<>> /\ t.specs = <<>>
      /\ t.objs = <<>> /\ t.snaps = {} /\ t.next = 1 /\ t.flagged = {}
  BY <1>1 DEF SessionType
<1> QED BY <1>2

LEMMA SweepRecord ==
    ASSUME NEW vs \in Seq(Vendors)
    PROVE  LET t == [NoSession EXCEPT !.op = "sweep", !.vendors = vs] IN
           /\ t \in SessionType /\ t.op = "sweep" /\ t.vendors = vs /\ t.specs = <<>>
           /\ t.objs = <<>> /\ t.snaps = {} /\ t.flagged = {}
<1> PICK r : r = [NoSession EXCEPT !.op = "sweep"]
  OBVIOUS
<1>1. /\ r \in SessionType /\ r.op = "sweep" /\ r.vendors = <<>> /\ r.specs = <<>>
      /\ r.objs = <<>> /\ r.snaps = {} /\ r.flagged = {}
  BY NoSessionFields
<1>2. [NoSession EXCEPT !.op = "sweep", !.vendors = vs] = [r EXCEPT !.vendors = vs]
  OBVIOUS
<1> QED BY <1>1, <1>2 DEF SessionType

LEMMA EventRecord ==
    ASSUME NEW sp \in Seq(AlertSpec)
    PROVE  LET t == [NoSession EXCEPT !.op = "event", !.specs = sp] IN
           /\ t \in SessionType /\ t.op = "event" /\ t.vendors = <<>> /\ t.specs = sp
           /\ t.objs = <<>> /\ t.snaps = {} /\ t.flagged = {}
<1> PICK r : r = [NoSession EXCEPT !.op = "event"]
  OBVIOUS
<1>1. /\ r \in SessionType /\ r.op = "event" /\ r.vendors = <<>> /\ r.specs = <<>>
      /\ r.objs = <<>> /\ r.snaps = {} /\ r.flagged = {}
  BY NoSessionFields
<1>2. [NoSession EXCEPT !.op = "event", !.specs = sp] = [r EXCEPT !.specs = sp]
  OBVIOUS
<1> QED BY <1>1, <1>2 DEF SessionType

LEMMA AnalystRecord ==
    ASSUME NEW op \in {"acknowledge", "resolve"}, NEW o \in Held
    PROVE  LET t == [NoSession EXCEPT !.op = op, !.objs = <<o>>] IN
           /\ t \in SessionType /\ t.op = op /\ t.vendors = <<>> /\ t.specs = <<>>
           /\ t.objs = <<o>> /\ t.snaps = {} /\ t.flagged = {}
<1> PICK r : r = [NoSession EXCEPT !.op = op]
  OBVIOUS
<1>1. /\ r \in SessionType /\ r.op = op /\ r.vendors = <<>> /\ r.specs = <<>>
      /\ r.objs = <<>> /\ r.snaps = {} /\ r.flagged = {}
  BY NoSessionFields
<1>2. [NoSession EXCEPT !.op = op, !.objs = <<o>>] = KeepObjects(r, <<o>>)
  BY DEF KeepObjects
<1> PICK os : os = <<o>>
  OBVIOUS
<1>3. os \in Seq(Held)
  OBVIOUS
<1> DEFINE t == KeepObjects(r, os)
<1>4. /\ t \in SessionType /\ t.objs = os
      /\ t.op = r.op /\ t.vendors = r.vendors /\ t.specs = r.specs /\ t.snaps = r.snaps
      /\ t.next = r.next /\ t.flagged = r.flagged
  BY <1>1, <1>3, WithObjects
<1> QED BY <1>1, <1>2, <1>4

\* An alert in memory, as it is in the table or with another row.
InMemory(n, row) == [Loaded(n) EXCEPT !.row = row]
LEMMA LoadedObject ==
    ASSUME TypeInv, NEW n \in DOMAIN alerts, NEW row \in Row
    PROVE  LET o == InMemory(n, row) IN
           /\ o \in Held /\ o.id = n /\ o.new = FALSE /\ o.read = alerts[n] /\ o.row = row
           /\ Loaded(n) \in Held /\ Loaded(n).id = n /\ Loaded(n).new = FALSE
           /\ Loaded(n).read = alerts[n] /\ Loaded(n).row = alerts[n]
           /\ n \in 1..alertSeq /\ alerts[n] \in Row
<1>1. n \in 1..alertSeq /\ alertSeq \in Nat /\ alerts[n] \in Row
  BY TypeInvParts DEF TablesOK
<1>2. n \in Nat
  BY <1>1
<1> QED BY <1>1, <1>2 DEF InMemory, Loaded, Held

LEMMA TypeStartSweep ==
    ASSUME TypeInv, NEW s \in Sweepers, StartSweep(s)
    PROVE  TypeInv'
<1> PICK n \in 0..Len(VendorList) :
        LET listed == SubSeq(VendorList, 1, n) IN
        Begin(s, [NoSession EXCEPT !.op = "sweep", !.vendors = listed], NextStep(<<>>, listed))
  BY DEF StartSweep
<1> PICK vs : vs = SubSeq(VendorList, 1, n)
  OBVIOUS
<1>1. vs \in Seq(Vendors)
  BY DataAssumption
<1> PICK step : step = NextStep(<<>>, vs)
  OBVIOUS
<1> DEFINE t == [NoSession EXCEPT !.op = "sweep", !.vendors = vs]
<1>2. /\ t \in SessionType /\ t.op = "sweep" /\ t.vendors = vs /\ t.specs = <<>>
      /\ t.objs = <<>> /\ t.snaps = {} /\ t.flagged = {}
  BY <1>1, SweepRecord
<1>3. Move(s, step, t) /\ UNCHANGED <<dbVars, sent>>
  BY DEF Begin, Move
<1> HIDE DEF t
<1>4. step \in {"vendor", "commit"} /\ (step = "vendor" => vs # <<>>)
  BY NextStepFacts
<1>5. Ready(s, step, t)
  BY <1>2, <1>4, Ops DEF Ready
<1>6. Numbered(step, t)'
  BY <1>2 DEF Numbered
<1>7. step \in Steps
  BY <1>4 DEF Steps
<1> QED BY <1>2, <1>3, <1>5, <1>6, <1>7, Ops, TablesKept, TypeMoves

LEMMA TypeHandleEvent ==
    ASSUME TypeInv, NEW c \in Consumers, HandleEvent(c)
    PROVE  TypeInv'
<1> PICK e \in Inbound :
        /\ AlertFromEvent(e) # <<>>
        /\ Begin(c, [NoSession EXCEPT !.op = "event", !.specs = AlertFromEvent(e)], "select")
  BY DEF HandleEvent
<1> PICK sp : sp = AlertFromEvent(e)
  OBVIOUS
<1>1. sp \in Seq(AlertSpec) /\ sp # <<>>
  BY EventKeyed
<1> DEFINE t == [NoSession EXCEPT !.op = "event", !.specs = sp]
<1>2. /\ t \in SessionType /\ t.op = "event" /\ t.vendors = <<>> /\ t.specs = sp
      /\ t.objs = <<>> /\ t.snaps = {} /\ t.flagged = {}
  BY <1>1, EventRecord
<1>3. Move(c, "select", t) /\ UNCHANGED <<dbVars, sent>>
  BY DEF Begin, Move
<1> HIDE DEF t
<1>4. Ready(c, "select", t)
  BY <1>1, <1>2, Ops DEF Ready
<1>5. Numbered("select", t)'
  BY <1>2 DEF Numbered
<1>6. "select" \in Steps
  BY DEF Steps
<1> QED BY <1>2, <1>3, <1>4, <1>5, <1>6, Ops, TablesKept, TypeMoves

LEMMA TypeAnalyse ==
    ASSUME TypeInv, NEW h \in Analysts, NEW op, NEW n \in DOMAIN alerts, NEW row \in Row,
           Analyse(h, op, n, row)
    PROVE  TypeInv'
<1>a. PICK o : o = InMemory(n, row)
  OBVIOUS
<1>1. o \in Held /\ o.id = n /\ n \in 1..alertSeq /\ o.new = FALSE
  BY <1>a, LoadedObject
<1>2. op \in {"acknowledge", "resolve"}
  BY OpsAssumption DEF Analyse
<1> DEFINE t == [NoSession EXCEPT !.op = op, !.objs = <<o>>]
<1>3. /\ t \in SessionType /\ t.op = op /\ t.vendors = <<>> /\ t.specs = <<>>
      /\ t.objs = <<o>> /\ t.snaps = {} /\ t.flagged = {}
  BY <1>1, <1>2, AnalystRecord
<1>4. Move(h, "flush", t) /\ UNCHANGED <<dbVars, sent>>
  BY <1>a DEF Analyse, Begin, Move, InMemory
<1> HIDE DEF t
<1>5. Ready(h, "flush", t)
  BY <1>2, <1>3, Ops DEF Ready
<1>6. Numbered("flush", t)'
  <2>1. alerts' = alerts /\ alertSeq' = alertSeq
    BY <1>4 DEF dbVars
  <2>2. \A i \in DOMAIN t.objs : t.objs[i] = o
    BY <1>3
  <2> QED BY <1>1, <1>3, <2>1, <2>2 DEF Numbered
<1>7. "flush" \in Steps
  BY DEF Steps
<1> QED BY <1>3, <1>4, <1>5, <1>6, <1>7, Ops, TablesKept, TypeMoves

\* The rows analysts leave.
LEMMA AnalystRows ==
    ASSUME NEW row \in Row
    PROVE  LET a == [row EXCEPT !.status = "acknowledged"]
               b == [row EXCEPT !.status = "resolved", !.resolvedAt = TRUE]
           IN  /\ a \in Row /\ a.status = "acknowledged" /\ SameKey(a, row)
               /\ a.severity = row.severity /\ a.published = row.published
               /\ b \in Row /\ b.status = "resolved" /\ SameKey(b, row)
               /\ b.severity = row.severity /\ b.published = row.published
<1> DEFINE a == [row EXCEPT !.status = "acknowledged"]
           b1 == [row EXCEPT !.status = "resolved"]
           b == [b1 EXCEPT !.resolvedAt = TRUE]
<1>1. /\ a \in Row /\ a.status = "acknowledged" /\ SameKey(a, row)
      /\ a.severity = row.severity /\ a.published = row.published
  BY DEF Row, SameKey
<1>2. /\ b1 \in Row /\ b1.status = "resolved" /\ SameKey(b1, row)
      /\ b1.severity = row.severity /\ b1.published = row.published
  BY DEF Row, SameKey
<1>3. /\ b \in Row /\ b.status = "resolved" /\ SameKey(b, row)
      /\ b.severity = row.severity /\ b.published = row.published
  <2> HIDE DEF b1
  <2> QED BY <1>2 DEF Row, SameKey
<1>4. [row EXCEPT !.status = "resolved", !.resolvedAt = TRUE] = b
  OBVIOUS
<1> QED BY <1>1, <1>3, <1>4

LEMMA TypeAcknowledge ==
    ASSUME TypeInv, NEW h \in Analysts, Acknowledge(h)
    PROVE  TypeInv'
<1> PICK n \in DOMAIN alerts :
        Analyse(h, "acknowledge", n, [alerts[n] EXCEPT !.status = "acknowledged"])
  BY DEF Acknowledge
<1> PICK old, row : old = alerts[n] /\ row = [old EXCEPT !.status = "acknowledged"]
  OBVIOUS
<1>1. old \in Row
  BY TypeInvParts DEF TablesOK
<1>2. row \in Row
  BY <1>1, AnalystRows
<1> QED BY <1>2, TypeAnalyse

LEMMA TypeResolve ==
    ASSUME TypeInv, NEW h \in Analysts, Resolve(h)
    PROVE  TypeInv'
<1> PICK n \in DOMAIN alerts :
        Analyse(h, "resolve", n, [alerts[n] EXCEPT !.status = "resolved", !.resolvedAt = TRUE])
  BY DEF Resolve
<1> PICK old, row :
        old = alerts[n] /\ row = [old EXCEPT !.status = "resolved", !.resolvedAt = TRUE]
  OBVIOUS
<1>1. old \in Row
  BY TypeInvParts DEF TablesOK
<1>2. row \in Row
  BY <1>1, AnalystRows
<1> QED BY <1>2, TypeAnalyse

\* A snapshot of a reading.
LEMMA SnapshotTyped ==
    ASSUME TypeInv, NEW v \in Vendors, NEW reading \in Readings
    PROVE  LET sn == [vendor |-> v, at |-> clock + 1, exposure |-> ExposureIndex(reading),
                      services |-> reading.services, drift |-> Drift(reading, Previous(v))]
           IN  /\ sn \in Snapshot /\ sn.vendor = v /\ sn.at = clock + 1
               /\ sn.exposure = ExposureIndex(reading) /\ sn.drift = Drift(reading, Previous(v))
               /\ ExposureIndex(reading) \in Int
<1>1. /\ reading.posture \in Int /\ reading.iocs \in Int /\ reading.abuse \in Int
      /\ reading.services \in SUBSET STRING
  <2>1. /\ reading.posture \in 0..1000 /\ {reading.iocs, reading.abuse} \subseteq Nat
        /\ reading.services \subseteq STRING
    BY DataAssumption
  <2> QED BY SMTT(30), <2>1
<1>2. ExposureIndex(reading) \in Int
  BY <1>1 DEF ExposureIndex, AtMost
<1>3. Drift(reading, Previous(v)) \in Int
  <2>1. CASE Previous(v) = {}
    BY <2>1 DEF Drift
  <2>2. CASE Previous(v) # {}
    <3> PICK p : p = CHOOSE q \in Previous(v) : TRUE
      OBVIOUS
    <3>1. p \in Previous(v)
      BY <2>2
    <3>2. p \in Snapshot
      BY <3>1 DEF Previous, TypeInv
    <3>3. p.exposure \in Int
      BY <3>2 DEF Snapshot
    <3> QED BY <1>2, <2>2, <3>3 DEF Drift
  <2> QED BY <2>1, <2>2
<1>4. clock \in Nat
  BY DEF TypeInv
<1> QED BY <1>1, <1>2, <1>3, <1>4 DEF Snapshot

LEMMA TypeSweepVendor ==
    ASSUME TypeInv, NEW s \in Sessions, SweepVendor(s)
    PROVE  TypeInv'
<1>a. PICK r : r = sess[s]
  OBVIOUS
<1>b. PICK v, rest : v = Head(r.vendors) /\ rest = Tail(r.vendors)
  OBVIOUS
<1>1. /\ r \in SessionType /\ Ready(s, "vendor", r) /\ Numbered("vendor", r) /\ TablesOK
  BY <1>a, TypeInvParts DEF SweepVendor
<1>2. r.vendors \in Seq(Vendors) /\ r.vendors # <<>> /\ r.specs = <<>> /\ r.flagged = {}
  BY <1>1 DEF Ready, SessionType
<1>3. v \in Vendors /\ rest \in Seq(Vendors)
  BY <1>b, <1>2
<1>4. s \in Sweepers
  BY <1>1, <1>2 DEF Ready, Sessions
<1>5. UNCHANGED <<alerts, alertSeq, snapshots, sent>>
  BY DEF SweepVendor
<1>6. CASE Move(s, NextStep(<<>>, rest), [r EXCEPT !.vendors = rest]) /\ UNCHANGED clock
  <2> DEFINE t == SkipVendor(r, rest)
  <2>c. PICK step : step = NextStep(<<>>, rest)
    OBVIOUS
  <2>1. /\ t \in SessionType /\ t.vendors = rest
        /\ t.op = r.op /\ t.specs = r.specs /\ t.objs = r.objs /\ t.snaps = r.snaps
        /\ t.flagged = r.flagged
    BY <1>1, <1>3, WithVendors
  <2> HIDE DEF t
  <2>2. step \in {"vendor", "commit"} /\ (step = "vendor" => rest # <<>>) /\ step \in Steps
    BY <2>c, NextStepFacts DEF Steps
  <2>3. Ready(s, step, t)
    BY <1>1, <1>2, <1>4, <2>1, <2>2, Ops DEF Ready
  <2>4. Numbered(step, t)'
    BY <1>1, <1>5, <1>6, <2>1, <2>2 DEF Numbered
  <2>5. TablesOK' /\ Grows
    BY <1>5, <1>6, TablesKept DEF dbVars
  <2>6. Move(s, step, t)
    BY <1>6, <2>c DEF t, SkipVendor
  <2> QED BY <2>1, <2>2, <2>3, <2>4, <2>5, <2>6, TypeMoves
<1>7. ASSUME NEW reading \in Readings, clock' = clock + 1,
             Move(s, NextStep(EvaluateSnapshot(v, reading, Previous(v)), rest),
                  [r EXCEPT !.vendors = rest, !.specs = EvaluateSnapshot(v, reading, Previous(v)),
                            !.snaps = @ \cup
                               {[vendor |-> v, at |-> clock + 1, exposure |-> ExposureIndex(reading),
                                 services |-> reading.services,
                                 drift |-> Drift(reading, Previous(v))]}])
      PROVE  TypeInv'
  <2>a. PICK sp, sn : /\ sp = EvaluateSnapshot(v, reading, Previous(v))
                    /\ sn = [vendor |-> v, at |-> clock + 1, exposure |-> ExposureIndex(reading),
                             services |-> reading.services, drift |-> Drift(reading, Previous(v))]
    OBVIOUS
  <2>b. PICK sns : sns = r.snaps \cup {sn}
    OBVIOUS
  <2> DEFINE t == TakeReading(r, rest, sp, sns)
  <2>c. PICK step : step = NextStep(sp, rest)
    OBVIOUS
  <2>1. Move(s, step, t)
    BY <1>1, <1>7, <2>a, <2>b, <2>c DEF SessionType, TakeReading
  <2>2. sn \in Snapshot /\ sn.at = clock + 1
    BY <1>3, <2>a, SnapshotTyped
  <2>3. sp \in Seq(AlertSpec)
    BY <1>3, <2>a, FindingsKeyed
  <2>4. sns \in SUBSET Snapshot
    BY <1>1, <2>2, <2>b DEF SessionType
  <2>5. /\ t \in SessionType /\ t.vendors = rest /\ t.specs = sp /\ t.snaps = sns
        /\ t.op = r.op /\ t.objs = r.objs /\ t.flagged = r.flagged
    BY <1>1, <1>3, <2>3, <2>4, WithReading
  <2> HIDE DEF t
  <2>6. /\ step \in {"select", "vendor", "commit"} /\ step \in Steps
        /\ step = "select" <=> sp # <<>>
        /\ step = "vendor" => rest # <<>>
    BY <2>c, NextStepFacts DEF Steps
  <2>7. Ready(s, step, t)
    BY <1>1, <1>2, <1>4, <2>5, <2>6, Ops DEF Ready
  <2>8. TablesOK' /\ Grows
    BY <1>1, <1>5, <1>7 DEF TablesOK, Grows
  <2>9. Numbered(step, t)'
    <3>1. \A p \in r.snaps : p.at \in 1..clock
      BY <1>1 DEF Numbered
    <3>2. clock \in Nat
      BY <1>1 DEF TablesOK
    <3>3. \A p \in sns : p.at \in 1..clock'
      BY <1>7, <2>2, <2>b, <3>1, <3>2
    <3> QED BY <1>1, <1>5, <2>5, <2>6, <3>3 DEF Numbered
  <2> QED BY <2>1, <2>5, <2>6, <2>7, <2>8, <2>9, TypeMoves
<1> QED BY <1>a, <1>b, <1>6, <1>7 DEF SweepVendor

LEMMA TypeSelectAlert ==
    ASSUME TypeInv, NEW s \in Sessions, SelectAlert(s)
    PROVE  TypeInv'
<1>a. PICK r : r = sess[s]
  OBVIOUS
<1>b. PICK spec, rest : spec = Head(r.specs) /\ rest = Tail(r.specs)
  OBVIOUS
<1>1. /\ r \in SessionType /\ Ready(s, "select", r) /\ Numbered("select", r) /\ TablesOK
  BY <1>a, TypeInvParts DEF SelectAlert
<1>2. r.specs \in Seq(AlertSpec) /\ r.specs # <<>> /\ r.flagged = {} /\ r.objs \in Seq(Held)
  BY <1>1 DEF Ready, SessionType
<1>3. spec \in AlertSpec /\ rest \in Seq(AlertSpec)
  BY <1>b, <1>2
<1>4. s \in Sweepers \cup Consumers
  BY <1>1, <1>2 DEF Ready, Sessions
<1>5. UNCHANGED <<alerts, snapshots, clock, sent>>
  BY DEF SelectAlert
<1>6. ASSUME alertSeq' = alertSeq + 1,
             Move(s, NextStep(rest, r.vendors),
                  [r EXCEPT !.specs = rest, !.objs =
                      Append(@, [id |-> alertSeq + 1, new |-> TRUE,
                                 read |-> NewAlert(spec), row |-> NewAlert(spec)])])
      PROVE  TypeInv'
  <2>a. PICK o : o = [id |-> alertSeq + 1, new |-> TRUE, read |-> NewAlert(spec), row |-> NewAlert(spec)]
    OBVIOUS
  <2> DEFINE t == PutObject(r, rest, o)
  <2>c. PICK step : step = NextStep(rest, r.vendors)
    OBVIOUS
  <2>1. alertSeq \in Nat
    BY <1>1 DEF TablesOK
  <2>2. o \in Held /\ o.id = alertSeq + 1 /\ o.new = TRUE
    <3>a. PICK row, n : row = NewAlert(spec) /\ n = alertSeq + 1
      OBVIOUS
    <3>1. row \in Row
      BY <1>3, <3>a, NewAlertRow
    <3>3. n \in Nat
      BY <2>1, <3>a
    <3>2. o = [id |-> n, new |-> TRUE, read |-> row, row |-> row]
      BY <2>a, <3>a
    <3> QED BY <3>1, <3>2, <3>3, <3>a DEF Held
  <2>3. /\ t \in SessionType /\ t.specs = rest /\ t.objs = Append(r.objs, o)
        /\ t.op = r.op /\ t.vendors = r.vendors /\ t.snaps = r.snaps /\ t.flagged = r.flagged
    BY <1>1, <1>3, <2>2, WithObject
  <2>10. Move(s, step, t)
    BY <1>6, <2>a, <2>c DEF PutObject
  <2> HIDE DEF t
  <2>4. /\ step \in {"select", "vendor", "commit"} /\ step \in Steps
        /\ step = "select" <=> rest # <<>>
        /\ step = "vendor" => r.vendors # <<>>
    BY <2>c, NextStepFacts DEF Steps
  <2>5. t.objs # <<>>
    BY <1>2, <2>2, <2>3, Appended
  <2>6. Ready(s, step, t)
    BY <1>1, <1>2, <1>4, <2>3, <2>4, <2>5, Ops DEF Ready
  <2>7. TablesOK' /\ Grows
    BY <1>1, <1>5, <1>6 DEF TablesOK, Grows
  <2>8. \A i \in DOMAIN t.objs : t.objs[i] = o \/ (i \in DOMAIN r.objs /\ t.objs[i] = r.objs[i])
    BY <1>2, <2>2, <2>3, Appended
  <2>9. Numbered(step, t)'
    BY <1>1, <1>5, <1>6, <2>1, <2>2, <2>3, <2>4, <2>8 DEF Numbered
  <2> QED BY <2>3, <2>4, <2>6, <2>7, <2>9, <2>10, TypeMoves
<1>7. ASSUME NEW n \in FindExisting(spec), UNCHANGED alertSeq,
             Move(s, "flush", [r EXCEPT !.specs = rest, !.objs =
                                  Append(@, [Loaded(n) EXCEPT !.row = Bump(@, spec)])])
      PROVE  TypeInv'
  <2>a. PICK old : old = alerts[n]
    OBVIOUS
  <2>b. PICK row : row = Bump(old, spec)
    OBVIOUS
  <2>c. PICK o : o = InMemory(n, row)
    OBVIOUS
  <2> DEFINE t == PutObject(r, rest, o)
  <2>1. n \in DOMAIN alerts /\ old \in Row
    BY <1>1, <2>a DEF FindExisting, TablesOK
  <2>2. row \in Row
    BY <1>3, <2>1, <2>b, BumpRow
  <2>3. o \in Held /\ o.id = n /\ o.new = FALSE /\ n \in 1..alertSeq
    BY <2>1, <2>2, <2>c, LoadedObject
  <2>4. Move(s, "flush", t)
    BY <1>7, <2>a, <2>b, <2>c DEF Loaded, InMemory, PutObject
  <2>5. /\ t \in SessionType /\ t.specs = rest /\ t.objs = Append(r.objs, o)
        /\ t.op = r.op /\ t.vendors = r.vendors /\ t.snaps = r.snaps /\ t.flagged = r.flagged
    BY <1>1, <1>3, <2>3, WithObject
  <2> HIDE DEF t
  <2>6. t.objs # <<>>
    BY <1>2, <2>3, <2>5, Appended
  <2>7. Ready(s, "flush", t)
    BY <1>1, <1>2, <1>4, <2>5, <2>6, Ops DEF Ready
  <2>8. TablesOK' /\ Grows
    BY <1>1, <1>5, <1>7 DEF TablesOK, Grows
  <2>9. \A i \in DOMAIN t.objs : t.objs[i] = o \/ (i \in DOMAIN r.objs /\ t.objs[i] = r.objs[i])
    BY <1>2, <2>3, <2>5, Appended
  <2>10. Numbered("flush", t)'
    BY <1>1, <1>5, <1>7, <2>1, <2>3, <2>5, <2>9 DEF Numbered
  <2>11. "flush" \in Steps
    BY DEF Steps
  <2> QED BY <2>4, <2>5, <2>7, <2>8, <2>10, <2>11, TypeMoves
<1> QED BY <1>a, <1>b, <1>6, <1>7 DEF SelectAlert

LEMMA TypeFlushAlert ==
    ASSUME TypeInv, NEW s \in Sessions, FlushAlert(s)
    PROVE  TypeInv'
<1>a. PICK r : r = sess[s]
  OBVIOUS
<1>b. PICK step : step = NextStep(r.specs, r.vendors)
  OBVIOUS
<1>1. /\ r \in SessionType /\ Ready(s, "flush", r) /\ Numbered("flush", r) /\ TablesOK
  BY <1>a, TypeInvParts DEF FlushAlert
<1>2. Move(s, step, r) /\ UNCHANGED <<dbVars, sent>>
  BY <1>a, <1>b DEF FlushAlert
<1>3. /\ step \in {"select", "vendor", "commit"} /\ step \in Steps
      /\ step = "select" <=> r.specs # <<>>
      /\ step = "vendor" => r.vendors # <<>>
      /\ r.specs = <<>> /\ r.vendors = <<>> => step = "commit"
  BY <1>b, NextStepFacts DEF Steps
<1>4. Ready(s, step, r)
  BY <1>1, <1>3, Ops DEF Ready
<1>5. TablesOK' /\ Grows
  BY <1>2, TablesKept
<1>6. Numbered(step, r)'
  BY <1>1, <1>2, <1>3 DEF Numbered, dbVars
<1> QED BY <1>1, <1>2, <1>3, <1>4, <1>5, <1>6, TypeMoves

\* What the commit of a session leaves: every row of the table has its type, and the
\* alerts of the session are in it.
LEMMA CommitTables ==
    ASSUME TypeInv, NEW s \in Sessions, Commit(s)
    PROVE  /\ TablesOK' /\ Grows
           /\ \A i \in DOMAIN sess[s].objs : sess[s].objs[i].id \in DOMAIN alerts'
<1>a. PICK r : r = sess[s]
  OBVIOUS
<1>1. /\ r \in SessionType /\ Ready(s, "commit", r) /\ Numbered("commit", r) /\ TablesOK
  BY <1>a, TypeInvParts DEF Commit
<1>2. r.objs \in Seq(Held) /\ r.snaps \subseteq Snapshot
  BY <1>1 DEF SessionType
<1>3. /\ alerts' = Stored(r.objs) /\ snapshots' = snapshots \cup r.snaps
      /\ UNCHANGED <<alertSeq, clock, sent>>
  BY <1>a DEF Commit
<1>4. /\ DOMAIN alerts' = DOMAIN alerts \cup {r.objs[i].id : i \in DOMAIN r.objs}
      /\ \A n \in DOMAIN alerts' : alerts'[n] \in Row
  BY <1>1, <1>2, <1>3, StoredRows DEF TablesOK
<1>5. DOMAIN alerts' \subseteq 1..alertSeq'
  BY <1>1, <1>3, <1>4 DEF TablesOK, Numbered
<1>6. \A p \in snapshots' : p.vendor \in Vendors /\ p.at \in 1..clock'
  <2>1. \A p \in r.snaps : p.vendor \in Vendors
    BY <1>2 DEF Snapshot
  <2> QED BY <1>1, <1>3, <2>1 DEF TablesOK, Numbered
<1>7. TablesOK'
  BY <1>1, <1>2, <1>3, <1>4, <1>5, <1>6 DEF TablesOK
<1>8. Grows
  BY <1>1, <1>3, <1>4 DEF Grows, TablesOK
<1>9. \A i \in DOMAIN r.objs : r.objs[i].id \in DOMAIN alerts'
  BY <1>4
<1> QED BY <1>a, <1>7, <1>8, <1>9

LEMMA TypeCommit ==
    ASSUME TypeInv, NEW s \in Sessions, Commit(s)
    PROVE  TypeInv'
<1>a. PICK r : r = sess[s]
  OBVIOUS
<1>1. /\ r \in SessionType /\ Ready(s, "commit", r) /\ Numbered("commit", r) /\ TablesOK
  BY <1>a, TypeInvParts DEF Commit
<1>2. r.objs \in Seq(Held)
  BY <1>1 DEF SessionType
<1>3. TablesOK' /\ Grows /\ \A i \in DOMAIN r.objs : r.objs[i].id \in DOMAIN alerts'
  BY <1>a, CommitTables
<1>4. UNCHANGED <<alertSeq, clock>>
  BY DEF Commit
<1> DEFINE t == KeepObjects(r, Saved(r.objs))
<1>5. /\ Saved(r.objs) \in Seq(Held) /\ DOMAIN Saved(r.objs) = DOMAIN r.objs
      /\ Len(Saved(r.objs)) = Len(r.objs)
      /\ \A i \in DOMAIN r.objs : Saved(r.objs)[i].id = r.objs[i].id /\ Saved(r.objs)[i].new = FALSE
  BY <1>2, SavedObjects
<1>6. /\ t \in SessionType /\ t.objs = Saved(r.objs)
      /\ t.op = r.op /\ t.vendors = r.vendors /\ t.specs = r.specs /\ t.snaps = r.snaps
      /\ t.flagged = r.flagged
  BY <1>1, <1>5, WithObjects
<1>7. \/ Move(s, "publish", t) /\ r.op = "sweep"
      \/ Move(s, "refresh", t) /\ r.op = "event"
      \/ Finish(s)
  BY <1>a DEF Commit, KeepObjects, Saved
<1> HIDE DEF t
<1>8. r.objs # <<>> => t.objs # <<>>
  BY <1>2, <1>5, <1>6
<1>9. ASSUME NEW step \in {"publish", "refresh"}
      PROVE  Numbered(step, t)'
  BY <1>1, <1>3, <1>4, <1>5, <1>6 DEF Numbered
<1>10. CASE Move(s, "publish", t) /\ r.op = "sweep"
  <2>1. Ready(s, "publish", t)
    BY <1>1, <1>6, <1>10 DEF Ready
  <2>2. "publish" \in Steps
    BY DEF Steps
  <2> QED BY <1>3, <1>6, <1>9, <1>10, <2>1, <2>2, TypeMoves
<1>11. CASE Move(s, "refresh", t) /\ r.op = "event"
  <2>1. Ready(s, "refresh", t)
    BY <1>1, <1>6, <1>8, <1>11 DEF Ready
  <2>2. "refresh" \in Steps
    BY DEF Steps
  <2> QED BY <1>3, <1>6, <1>9, <1>11, <2>1, <2>2, TypeMoves
<1>12. CASE Finish(s)
  BY <1>3, <1>12, TypeFinish
<1> QED BY <1>7, <1>10, <1>11, <1>12

LEMMA TypeRefresh ==
    ASSUME TypeInv, NEW s \in Sessions, Refresh(s)
    PROVE  TypeInv'
<1>a. PICK r : r = sess[s]
  OBVIOUS
<1>b. PICK n : n = Last(r.objs).id
  OBVIOUS
<1>1. /\ r \in SessionType /\ Ready(s, "refresh", r) /\ Numbered("refresh", r) /\ TablesOK
  BY <1>a, TypeInvParts DEF Refresh
<1>2. r.objs \in Seq(Held) /\ r.objs # <<>>
  BY <1>1 DEF SessionType, Ready
<1>3. n \in DOMAIN alerts
  <2>1. Len(r.objs) \in DOMAIN r.objs
    BY <1>2
  <2> QED BY <1>1, <1>b, <2>1 DEF Last, Numbered
<1>c. PICK row : row = alerts[n]
  OBVIOUS
<1>4. row \in Row
  BY <1>1, <1>3, <1>c DEF TablesOK
<1>d. PICK o : o = Loaded(n)
  OBVIOUS
<1>5. o \in Held /\ o.id = n /\ o.new = FALSE /\ n \in 1..alertSeq
  BY <1>3, <1>4, <1>d, LoadedObject
<1>e. PICK os : os = <<o>>
  OBVIOUS
<1>6. os \in Seq(Held) /\ os # <<>> /\ \A i \in DOMAIN os : os[i] = o
  BY <1>5, <1>e
<1> DEFINE t == KeepObjects(r, os)
<1>7. /\ t \in SessionType /\ t.objs = os
      /\ t.op = r.op /\ t.vendors = r.vendors /\ t.specs = r.specs /\ t.snaps = r.snaps
      /\ t.flagged = r.flagged
  BY <1>1, <1>6, WithObjects
<1>8. Move(s, "publish", t) /\ UNCHANGED <<dbVars, sent>>
  BY <1>a, <1>b, <1>d, <1>e DEF Refresh, KeepObjects
<1> HIDE DEF t
<1>9. Ready(s, "publish", t)
  BY <1>1, <1>6, <1>7 DEF Ready
<1>10. Numbered("publish", t)'
  BY <1>1, <1>3, <1>5, <1>6, <1>7, <1>8 DEF Numbered, dbVars
<1>11. "publish" \in Steps
  BY DEF Steps
<1> QED BY <1>7, <1>8, <1>9, <1>10, <1>11, TablesKept, TypeMoves

\* Messages.
LEMMA MessageTyped ==
    ASSUME NEW row \in Row, NEW n \in Nat
    PROVE  /\ Message(row, n) \in [alert : Nat, severity : SeverityRanks,
                                   status : {"open", "acknowledged", "resolved"}]
           /\ Message(row, n).alert = n /\ Message(row, n).severity = row.severity
  BY DEF Message, Row

LEMMA TypePublishAlert ==
    ASSUME TypeInv, NEW s \in Sessions, PublishAlert(s)
    PROVE  TypeInv'
<1>a. PICK r : r = sess[s]
  OBVIOUS
<1>b. PICK i : i = r.next
  OBVIOUS
<1>1. /\ r \in SessionType /\ Ready(s, "publish", r) /\ Numbered("publish", r) /\ TablesOK
  BY <1>a, TypeInvParts DEF PublishAlert
<1>2. r.objs \in Seq(Held) /\ r.next \in Nat \ {0}
  BY <1>1 DEF SessionType
<1>3. i \in DOMAIN r.objs
  BY <1>2, <1>a, <1>b DEF PublishAlert
<1>4. r.objs[i] \in Held
  BY <1>2, <1>3
<1>5. r.objs[i].row \in Row /\ r.objs[i].id \in Nat /\ r.objs[i].row.published \in BOOLEAN
  BY <1>4 DEF Held, Row
<1>c. PICK mark \in BOOLEAN : Move(s, "publish", PutMark(r, i, mark))
  <2>1. \/ Move(s, "publish", PutMark(r, i, TRUE))
        \/ Move(s, "publish", PutMark(r, i, r.objs[i].row.published))
    BY <1>a, <1>b DEF PublishAlert, PutMark
  <2> QED BY <1>5, <2>1
<1> DEFINE t == PutMark(r, i, mark)
<1>6. /\ t \in SessionType /\ DOMAIN t.objs = DOMAIN r.objs
      /\ \A j \in DOMAIN r.objs : j # i => t.objs[j] = r.objs[j]
      /\ t.objs[i].id = r.objs[i].id /\ t.objs[i].new = r.objs[i].new
      /\ t.op = r.op /\ t.vendors = r.vendors /\ t.specs = r.specs /\ t.snaps = r.snaps
      /\ t.flagged = r.flagged
  BY <1>1, <1>3, <1>c, WithMark
<1>7. Move(s, "publish", t)
  BY <1>c
<1> HIDE DEF t
<1>8. t.objs = <<>> => r.objs = <<>>
  <2>1. t.objs \in Seq(Held)
    BY <1>6 DEF SessionType
  <2> QED BY <1>2, <1>6, <2>1
<1>9. Ready(s, "publish", t)
  BY <1>1, <1>6, <1>8 DEF Ready
<1>10. UNCHANGED dbVars
  BY DEF PublishAlert
<1>11. Numbered("publish", t)'
  <2>1. alerts' = alerts /\ alertSeq' = alertSeq /\ clock' = clock
    BY <1>10 DEF dbVars
  <2>2. \A j \in DOMAIN t.objs : t.objs[j].id = r.objs[j].id /\ t.objs[j].new = r.objs[j].new
    BY <1>6
  <2> QED BY <1>1, <1>6, <2>1, <2>2 DEF Numbered
<1>12. sent' = sent \/ sent' = Append(sent, Message(r.objs[i].row, r.objs[i].id))
  BY <1>a, <1>b DEF PublishAlert
<1>13. TablesOK' /\ Grows
  <2>1. sent' \in Seq([alert : Nat, severity : SeverityRanks,
                       status : {"open", "acknowledged", "resolved"}])
    <3>a. PICK m : m = Message(r.objs[i].row, r.objs[i].id)
      OBVIOUS
    <3>1. m \in [alert : Nat, severity : SeverityRanks,
                 status : {"open", "acknowledged", "resolved"}]
      BY <1>5, <3>a, MessageTyped
    <3>2. sent \in Seq([alert : Nat, severity : SeverityRanks,
                        status : {"open", "acknowledged", "resolved"}])
      BY <1>1 DEF TablesOK
    <3>3. sent' = sent \/ sent' = Append(sent, m)
      BY <1>12, <3>a
    <3>4. ASSUME NEW S, m \in S, sent \in Seq(S)
          PROVE  sent' \in Seq(S)
      BY <3>3, <3>4
    <3> QED BY <3>1, <3>2, <3>4
  <2> QED BY <1>1, <1>10, <2>1 DEF TablesOK, Grows, dbVars
<1>14. "publish" \in Steps
  BY DEF Steps
<1> QED BY <1>6, <1>7, <1>9, <1>11, <1>13, <1>14, TypeMoves

LEMMA TypePublishDone ==
    ASSUME TypeInv, NEW s \in Sessions, PublishDone(s)
    PROVE  TypeInv'
<1>a. PICK r : r = sess[s]
  OBVIOUS
<1>1. /\ r \in SessionType /\ Ready(s, "publish", r) /\ Numbered("publish", r) /\ TablesOK
  BY <1>a, TypeInvParts DEF PublishDone
<1>2. UNCHANGED <<dbVars, sent>> /\ (Finish(s) \/ Move(s, "flag", r))
  BY <1>a DEF PublishDone
<1>3. CASE Finish(s)
  BY <1>2, <1>3, TablesKept, TypeFinish
<1>4. CASE Move(s, "flag", r)
  <2>1. Ready(s, "flag", r)
    BY <1>1 DEF Ready
  <2>2. Numbered("flag", r)'
    BY <1>1, <1>2 DEF Numbered, dbVars
  <2>3. "flag" \in Steps
    BY DEF Steps
  <2> QED BY <1>1, <1>2, <1>4, <2>1, <2>2, <2>3, TablesKept, TypeMoves
<1> QED BY <1>2, <1>3, <1>4

LEMMA TypeFlagAlert ==
    ASSUME TypeInv, NEW s \in Sessions, FlagAlert(s)
    PROVE  TypeInv'
<1>a. PICK r : r = sess[s]
  OBVIOUS
<1>1. /\ r \in SessionType /\ Ready(s, "flag", r) /\ Numbered("flag", r) /\ TablesOK
  BY <1>a, TypeInvParts DEF FlagAlert
<1>2. r.objs \in Seq(Held)
  BY <1>1 DEF SessionType
<1>b. PICK n \in NextFlag(s) : Move(s, "flag", PutFlag(r, n))
  BY <1>a DEF FlagAlert, PutFlag
<1>3. n \in Nat
  <2>1. PICK i \in DOMAIN r.objs : n = r.objs[i].id
    BY <1>a DEF NextFlag, Unflagged
  <2>2. r.objs[i] \in Held
    BY <1>2
  <2> QED BY <2>1, <2>2 DEF Held
<1> DEFINE t == PutFlag(r, n)
<1>4. /\ t \in SessionType /\ t.flagged = r.flagged \cup {n}
      /\ t.op = r.op /\ t.vendors = r.vendors /\ t.specs = r.specs /\ t.objs = r.objs
      /\ t.snaps = r.snaps
  BY <1>1, <1>3, WithFlag
<1>5. Move(s, "flag", t)
  BY <1>b
<1> HIDE DEF t
<1>6. UNCHANGED <<dbVars, sent>>
  BY DEF FlagAlert
<1>7. Ready(s, "flag", t)
  BY <1>1, <1>4 DEF Ready
<1>8. Numbered("flag", t)'
  BY <1>1, <1>4, <1>6 DEF Numbered, dbVars
<1>9. "flag" \in Steps
  BY DEF Steps
<1> QED BY <1>4, <1>5, <1>6, <1>7, <1>8, <1>9, TablesKept, TypeMoves

LEMMA TypeCommitFlags ==
    ASSUME TypeInv, NEW s \in Sessions, CommitFlags(s)
    PROVE  /\ TypeInv' /\ Grows
           /\ DOMAIN alerts' = DOMAIN alerts
           /\ \A n \in DOMAIN alerts :
                /\ SameKey(alerts'[n], alerts[n]) /\ alerts'[n].status = alerts[n].status
                /\ alerts'[n].severity = alerts[n].severity
                /\ alerts'[n].published = (alerts[n].published \/ n \in sess[s].flagged)
<1>1. TablesOK
  BY TypeInvParts
<1>2. /\ alerts' = [n \in DOMAIN alerts |->
                      [alerts[n] EXCEPT !.published = @ \/ n \in sess[s].flagged]]
      /\ Finish(s) /\ UNCHANGED <<alertSeq, snapshots, clock, sent>>
  BY DEF CommitFlags
<1>3. ASSUME NEW n \in DOMAIN alerts
      PROVE  /\ alerts'[n] \in Row /\ SameKey(alerts'[n], alerts[n])
             /\ alerts'[n].status = alerts[n].status /\ alerts'[n].severity = alerts[n].severity
             /\ alerts'[n].published = (alerts[n].published \/ n \in sess[s].flagged)
  <2>a. PICK row, f : row = alerts[n] /\ f = (alerts[n].published \/ n \in sess[s].flagged)
    OBVIOUS
  <2>1. row \in Row /\ f \in BOOLEAN
    <3>1. row \in Row
      BY <1>1, <2>a DEF TablesOK
    <3>2. row.published \in BOOLEAN
      BY <3>1 DEF Row
    <3> QED BY <2>a, <3>1, <3>2
  <2>2. alerts'[n] = [row EXCEPT !.published = f]
    BY <1>2, <2>a
  <2>3. LET x == [row EXCEPT !.published = f] IN
        /\ x \in Row /\ SameKey(x, row) /\ x.status = row.status
        /\ x.severity = row.severity /\ x.published = f
    BY <2>1 DEF Row, SameKey
  <2> QED BY <2>a, <2>2, <2>3
<1>4. DOMAIN alerts' = DOMAIN alerts
  BY <1>2
<1>5. TablesOK' /\ Grows
  <2>1. \A n \in DOMAIN alerts' : alerts'[n] \in Row
    BY <1>3, <1>4
  <2> QED BY <1>1, <1>2, <1>4, <2>1 DEF TablesOK, Grows
<1>6. TypeInv'
  BY <1>2, <1>5, TypeFinish
<1> QED BY <1>3, <1>4, <1>5, <1>6

LEMMA TypeInit == Init => TypeInv
<1> SUFFICES ASSUME Init PROVE TypeInv
  OBVIOUS
<1>1. NoSession \in SessionType /\ \A s \in Sessions : Ready(s, "idle", NoSession)
  BY DEF NoSession, SessionType, Ready
<1>2. \A s \in Sessions : pc[s] = "idle" /\ sess[s] = NoSession
  BY DEF Init
<1>3. pc \in [Sessions -> Steps] /\ sess \in [Sessions -> SessionType]
  BY <1>1 DEF Init, Steps
<1>4. NoSession.objs = <<>> /\ NoSession.snaps = {}
  BY DEF NoSession
<1>5. \A s \in Sessions : Numbered(pc[s], sess[s])
  BY <1>2, <1>4 DEF Numbered
<1>6. \A s \in Sessions : Ready(s, pc[s], sess[s])
  BY <1>1, <1>2
<1>7. TypeOK
  <2>1. DOMAIN alerts = {} /\ alertSeq = 0 /\ snapshots = {} /\ sent = <<>>
    BY DEF Init
  <2> QED BY <1>2, <1>3, <1>4, <2>1 DEF TypeOK
<1>8. snapshots = {} /\ clock = 0
  BY DEF Init
<1> QED BY <1>3, <1>5, <1>6, <1>7, <1>8 DEF TypeInv

LEMMA TypeStep ==
    ASSUME TypeInv, NEW s \in Sessions, Step(s) \/ Crash(s)
    PROVE  TypeInv'
<1>1. CASE DeadlockVictim(s)
  BY <1>1, TablesKept, TypeFinish DEF DeadlockVictim
<1>2. CASE Crash(s)
  BY <1>2, TablesKept, TypeFinish DEF Crash
<1> QED BY <1>1, <1>2, TypeSweepVendor, TypeSelectAlert, TypeFlushAlert, TypeCommit, TypeRefresh,
           TypePublishAlert, TypePublishDone, TypeFlagAlert, TypeCommitFlags DEF Step

LEMMA TypeIdle ==
    ASSUME TypeInv, UNCHANGED vars
    PROVE  TypeInv'
<1>1. TablesOK' /\ Grows
  BY TablesKept DEF vars
<1>2. /\ pc' \in [Sessions -> Steps] /\ sess' \in [Sessions -> SessionType]
      /\ \A s \in Sessions : /\ Ready(s, pc'[s], sess'[s]) /\ Numbered(pc[s], sess[s])
  BY TypeInvParts DEF vars
<1>3. ASSUME NEW s \in Sessions
      PROVE  Numbered(pc[s], sess[s])'
  BY <1>2 DEF Numbered, vars, dbVars
<1> QED BY <1>1, <1>2, <1>3, TypeInvWhole

LEMMA TypeNext == TypeInv /\ [Next]_vars => TypeInv'
<1> SUFFICES ASSUME TypeInv, [Next]_vars
             PROVE  TypeInv'
  OBVIOUS
<1>1. ASSUME NEW s \in Sweepers, StartSweep(s)
      PROVE  TypeInv'
  BY <1>1, TypeStartSweep
<1>2. ASSUME NEW c \in Consumers, HandleEvent(c)
      PROVE  TypeInv'
  BY <1>2, TypeHandleEvent
<1>3. ASSUME NEW h \in Analysts, Acknowledge(h) \/ Resolve(h)
      PROVE  TypeInv'
  BY <1>3, TypeAcknowledge, TypeResolve
<1>4. ASSUME NEW s \in Sessions, Step(s) \/ Crash(s)
      PROVE  TypeInv'
  BY <1>4, TypeStep
<1>5. CASE UNCHANGED vars
  BY <1>5, TypeIdle
<1> QED BY <1>1, <1>2, <1>3, <1>4, <1>5 DEF Next, Quiescent

\* The tables of monitoring-service keep their shape, whatever sweeps, events and
\* analysts do at the same time: numbers stay within what was given out, and every
\* row a session writes is an alert about a vendor it knows.
THEOREM MonitoringTypes == Spec => []TypeOK
<1>1. TypeInv => TypeOK
  BY DEF TypeInv
<1> QED BY TypeInit, TypeNext, <1>1, PTL DEF Spec

------------------------------------------------------------------------------
(* The invariant of one upserting session and one analyst.                 *)

Upserters == Sweepers \cup Consumers
OneOf(S) == \A s, t \in S : s = t
EachVendorOnce == \A i, j \in DOMAIN VendorList : VendorList[i] = VendorList[j] => i = j
OneWriter == OneOf(Upserters) /\ OneOf(Analysts) /\ EachVendorOnce

Working == {"vendor", "select", "flush", "commit"}
Announcing == {"publish", "flag"}
Announced(n) == \E k \in DOMAIN sent : sent[k].alert = n /\ sent[k].severity = alerts[n].severity

\* An alert a transaction has inserted is the only open one for its key; one it
\* updates has in the table the values that were read.
InsertOK(o) ==
    /\ o.id \notin DOMAIN alerts
    /\ ~o.row.published
    /\ \A n \in Unresolved : ~SameKey(alerts[n], o.row)
UpdateOK(o) ==
    /\ SameKey(o.row, o.read) /\ SameKey(alerts[o.id], o.read)
    /\ alerts[o.id].severity = o.read.severity /\ o.read.severity <= o.row.severity
    /\ alerts[o.id].published = o.read.published /\ ~o.row.published
    /\ o.row.status = o.read.status
ObjectsOK(r) ==
    \A i \in DOMAIN r.objs :
        IF r.objs[i].new THEN InsertOK(r.objs[i]) ELSE UpdateOK(r.objs[i])

\* The alerts in memory, the findings still to be upserted and the vendors still to
\* be swept concern different alerts.
Apart(r) ==
    /\ \A i, j \in DOMAIN r.objs : r.objs[i].id = r.objs[j].id => i = j
    /\ \A i, j \in DOMAIN r.objs : SameKey(r.objs[i].row, r.objs[j].row) => i = j
    /\ \A i, j \in DOMAIN r.specs : SameKey(r.specs[i], r.specs[j]) => i = j
    /\ \A i \in DOMAIN r.specs, j \in DOMAIN r.objs : ~SameKey(r.specs[i], r.objs[j].row)
    /\ \A k, l \in DOMAIN r.vendors : r.vendors[k] = r.vendors[l] => k = l
Ahead(r) ==
    \A k \in DOMAIN r.vendors :
        /\ \A i \in DOMAIN r.specs : r.specs[i].vendor # r.vendors[k]
        /\ \A j \in DOMAIN r.objs : r.objs[j].row.vendor # r.vendors[k]
        /\ \A p \in r.snaps : p.vendor # r.vendors[k]

\* A snapshot that is not committed yet is newer than those of its vendor that are,
\* and its drift is the difference to the last of them.
Of(v) == {q \in snapshots : q.vendor = v}
SnapshotsOK(r) ==
    /\ \A p, q \in r.snaps : p.vendor = q.vendor => p = q
    /\ \A p \in r.snaps :
         /\ \A q \in Of(p.vendor) : q.at < p.at
         /\ \/ Of(p.vendor) = {} /\ p.drift = 0
            \/ \E q \in Of(p.vendor) : /\ \A o \in Of(p.vendor) : o.at <= q.at
                                       /\ p.drift = p.exposure - q.exposure

\* The alert of a drift.
Covers(a, p) ==
    /\ a.vendor = p.vendor /\ a.key = <<"POSTURE_DRIFT", "">>
    /\ a.severity >= (IF p.drift >= DriftCritical THEN Critical ELSE High)
DriftsCovered(r) ==
    \A p \in r.snaps :
        p.drift >= DriftWarning => \/ \E i \in DOMAIN r.specs : Covers(r.specs[i], p)
                                   \/ \E i \in DOMAIN r.objs : Covers(r.objs[i].row, p)

WorkingOK(r) == ObjectsOK(r) /\ Apart(r) /\ Ahead(r) /\ SnapshotsOK(r) /\ DriftsCovered(r)

\* After the commit a session announces rows of the table, and only a mark that
\* stands for a message is written.
AnnouncingOK(r) ==
    /\ \A i \in DOMAIN r.objs :
         /\ r.objs[i].row.severity = alerts[r.objs[i].id].severity
         /\ r.objs[i].row.published # r.objs[i].read.published => Announced(r.objs[i].id)
    /\ \A n \in r.flagged : n \in DOMAIN alerts /\ Announced(n)

UpserterOK(step, r) ==
    /\ step \in Working => WorkingOK(r)
    /\ step \in Announcing => AnnouncingOK(r)

\* An analyst changes the status alone, and takes no alert back from resolved.
AnalystOK(r) ==
    \A i \in DOMAIN r.objs :
        LET o == r.objs[i] IN
        /\ ~o.new /\ SameKey(o.row, o.read)
        /\ o.row.severity = o.read.severity /\ o.row.published = o.read.published
        /\ o.row.status = "resolved" \/ alerts[o.id].status # "resolved"

SessionsOK ==
    /\ \A s \in Upserters : UpserterOK(pc[s], sess[s])
    /\ \A h \in Analysts : AnalystOK(sess[h])

Safe ==
    /\ OneOpenAlert /\ DriftIsDelta /\ DriftAlerts
    /\ MessagesAreCommitted /\ PublishedIsAnnounced

MonitoringInv == TypeInv /\ Safe /\ SessionsOK

------------------------------------------------------------------------------
(* A move that leaves the table and the snapshots alone.                   *)

LEMMA Parts ==
    ASSUME MonitoringInv
    PROVE  /\ TypeInv /\ Safe /\ SessionsOK
           /\ OneOpenAlert /\ DriftIsDelta /\ DriftAlerts
           /\ MessagesAreCommitted /\ PublishedIsAnnounced
  BY DEF MonitoringInv, Safe

\* A message more takes nothing back.
LEMMA StillAnnounced ==
    ASSUME TypeInv, alerts' = alerts,
           sent' = sent \/ \E m : m \in [alert : Nat, severity : SeverityRanks,
                                         status : {"open", "acknowledged", "resolved"}]
                                  /\ sent' = Append(sent, m)
    PROVE  \A n : Announced(n) => Announced(n)'
<1>1. CASE sent' = sent
  BY <1>1 DEF Announced
<1>2. ASSUME NEW m \in [alert : Nat, severity : SeverityRanks,
                        status : {"open", "acknowledged", "resolved"}],
             sent' = Append(sent, m)
      PROVE  \A n : Announced(n) => Announced(n)'
  <2>1. sent \in Seq([alert : Nat, severity : SeverityRanks,
                      status : {"open", "acknowledged", "resolved"}])
    BY TypeInvParts DEF TablesOK
  <2>2. \A k \in DOMAIN sent : k \in DOMAIN sent' /\ sent'[k] = sent[k]
    BY <1>2, <2>1, Appended
  <2> QED BY <2>2 DEF Announced
<1> QED BY <1>1, <1>2

LEMMA UpserterKept ==
    ASSUME NEW step, NEW r, UpserterOK(step, r), alerts' = alerts, snapshots' = snapshots,
           \A n : Announced(n) => Announced(n)'
    PROVE  UpserterOK(step, r)'
<1>1. WorkingOK(r) => WorkingOK(r)'
  <2>1. ObjectsOK(r) => ObjectsOK(r)'
    BY DEF ObjectsOK, InsertOK, UpdateOK, Unresolved
  <2>2. (Apart(r) => Apart(r)') /\ (Ahead(r) => Ahead(r)') /\ (DriftsCovered(r) => DriftsCovered(r)')
    BY DEF Apart, Ahead, DriftsCovered
  <2>3. SnapshotsOK(r) => SnapshotsOK(r)'
    BY DEF SnapshotsOK, Of
  <2> QED BY <2>1, <2>2, <2>3 DEF WorkingOK
<1>2. AnnouncingOK(r) => AnnouncingOK(r)'
  BY DEF AnnouncingOK
<1> QED BY <1>1, <1>2 DEF UpserterOK

LEMMA AnalystKept ==
    ASSUME NEW r, AnalystOK(r), alerts' = alerts
    PROVE  AnalystOK(r)'
  BY DEF AnalystOK

LEMMA Moved ==
    ASSUME TypeInv, NEW s \in Sessions, NEW step, NEW r, Move(s, step, r)
    PROVE  /\ pc'[s] = step /\ sess'[s] = r
           /\ \A t \in Sessions \ {s} : pc'[t] = pc[t] /\ sess'[t] = sess[t]
  BY TypeInvParts DEF Move

\* The sessions after a move, when what the others rely on has been kept.
LEMMA SessionsAfter ==
    ASSUME TypeInv, NEW s \in Sessions, NEW step, NEW r, Move(s, step, r),
           s \in Upserters => UpserterOK(step, r)',
           s \in Analysts => AnalystOK(r)',
           \A t \in Upserters \ {s} : \A st, q : st = pc[t] /\ q = sess[t] => UpserterOK(st, q)',
           \A t \in Analysts \ {s} : \A q : q = sess[t] => AnalystOK(q)'
    PROVE  SessionsOK'
<1>1. \A t \in Upserters \cup Analysts : t \in Sessions
  BY DEF Upserters, Sessions
<1>2. ASSUME NEW t \in Upserters
      PROVE  UpserterOK(pc[t], sess[t])'
  <2>a. PICK st, q : st = pc'[t] /\ q = sess'[t]
    OBVIOUS
  <2>1. UpserterOK(st, q)'
    BY <1>1, <2>a, Moved
  <2> QED BY <2>a, <2>1
<1>3. ASSUME NEW t \in Analysts
      PROVE  AnalystOK(sess[t])'
  <2>a. PICK q : q = sess'[t]
    OBVIOUS
  <2>1. AnalystOK(q)'
    BY <1>1, <2>a, Moved
  <2> QED BY <2>a, <2>1
<1> QED BY <1>2, <1>3 DEF SessionsOK

\* A session moves on while the table and the snapshots stay as they are.
LEMMA QuietMove ==
    ASSUME MonitoringInv, NEW s \in Sessions, NEW step, NEW r, Move(s, step, r),
           alerts' = alerts, snapshots' = snapshots,
           \A n : Announced(n) => Announced(n)', MessagesAreCommitted',
           s \in Upserters => UpserterOK(step, r)', s \in Analysts => AnalystOK(r)'
    PROVE  Safe' /\ SessionsOK'
<1>1. OneOpenAlert' /\ DriftIsDelta' /\ DriftAlerts'
  BY Parts DEF OneOpenAlert, Unresolved, DriftIsDelta, Older, DriftAlerts
<1>2. PublishedIsAnnounced'
  BY Parts DEF PublishedIsAnnounced, Announced
<1>3. ASSUME NEW t \in Upserters \ {s}, NEW st, NEW q, st = pc[t], q = sess[t]
      PROVE  UpserterOK(st, q)'
  <2>1. UpserterOK(st, q)
    BY <1>3, Parts DEF SessionsOK
  <2> QED BY <2>1, UpserterKept
<1>4. ASSUME NEW t \in Analysts \ {s}, NEW q, q = sess[t]
      PROVE  AnalystOK(q)'
  <2>1. AnalystOK(q)
    BY <1>4, Parts DEF SessionsOK
  <2> QED BY <2>1, AnalystKept
<1>5. SessionsOK'
  BY <1>3, <1>4, Parts, SessionsAfter
<1> QED BY <1>1, <1>2, <1>5 DEF Safe

\* The same, when nothing is announced: what the session needs it needs now.
LEMMA SilentMove ==
    ASSUME MonitoringInv, NEW s \in Sessions, NEW step, NEW r, Move(s, step, r),
           alerts' = alerts, snapshots' = snapshots, sent' = sent,
           s \in Upserters => UpserterOK(step, r), s \in Analysts => AnalystOK(r)
    PROVE  Safe' /\ SessionsOK'
<1>1. \A n : Announced(n) => Announced(n)'
  BY DEF Announced
<1>2. MessagesAreCommitted'
  BY Parts DEF MessagesAreCommitted
<1>3. s \in Upserters => UpserterOK(step, r)'
  BY <1>1, UpserterKept
<1>4. s \in Analysts => AnalystOK(r)'
  BY AnalystKept
<1> QED BY <1>1, <1>2, <1>3, <1>4, QuietMove

LEMMA SafeFinish ==
    ASSUME MonitoringInv, NEW s \in Sessions, Finish(s),
           alerts' = alerts, snapshots' = snapshots, sent' = sent
    PROVE  Safe' /\ SessionsOK'
<1>1. UpserterOK("idle", NoSession) /\ AnalystOK(NoSession)
  BY DEF UpserterOK, Working, Announcing, AnalystOK, NoSession
<1> QED BY <1>1, SilentMove DEF Finish

------------------------------------------------------------------------------
(* Starting.                                                               *)

\* A session that has nothing in memory and has swept nothing.
LEMMA FreshWork ==
    ASSUME NEW r \in SessionType, r.objs = <<>>, r.snaps = {}, r.flagged = {},
           \A i, j \in DOMAIN r.specs : i = j,
           r.specs = <<>> \/ r.vendors = <<>>,
           \A k, l \in DOMAIN r.vendors : r.vendors[k] = r.vendors[l] => k = l
    PROVE  WorkingOK(r) /\ AnnouncingOK(r)
<1>1. ObjectsOK(r) /\ AnnouncingOK(r) /\ SnapshotsOK(r) /\ DriftsCovered(r)
  BY DEF ObjectsOK, AnnouncingOK, SnapshotsOK, DriftsCovered
<1>2. Apart(r) /\ Ahead(r)
  BY DEF Apart, Ahead
<1> QED BY <1>1, <1>2 DEF WorkingOK

LEMMA SafeStartSweep ==
    ASSUME OneWriter, MonitoringInv, NEW s \in Sweepers, StartSweep(s)
    PROVE  Safe' /\ SessionsOK'
<1>a. PICK n \in 0..Len(VendorList) :
        LET listed == SubSeq(VendorList, 1, n) IN
        Begin(s, [NoSession EXCEPT !.op = "sweep", !.vendors = listed], NextStep(<<>>, listed))
  BY DEF StartSweep
<1>b. PICK vs : vs = SubSeq(VendorList, 1, n)
  OBVIOUS
<1>1. vs \in Seq(Vendors) /\ \A k \in DOMAIN vs : k \in DOMAIN VendorList /\ vs[k] = VendorList[k]
  BY <1>b, DataAssumption
<1>2. \A k, l \in DOMAIN vs : vs[k] = vs[l] => k = l
  BY <1>1 DEF OneWriter, EachVendorOnce
<1>c. PICK step : step = NextStep(<<>>, vs)
  OBVIOUS
<1> DEFINE t == [NoSession EXCEPT !.op = "sweep", !.vendors = vs]
<1>3. /\ t \in SessionType /\ t.op = "sweep" /\ t.vendors = vs /\ t.specs = <<>>
      /\ t.objs = <<>> /\ t.snaps = {} /\ t.flagged = {}
  BY <1>1, SweepRecord
<1>4. Move(s, step, t) /\ UNCHANGED <<dbVars, sent>>
  BY <1>a, <1>b, <1>c DEF Begin, Move
<1> HIDE DEF t
<1>5. WorkingOK(t) /\ AnnouncingOK(t)
  BY <1>2, <1>3, FreshWork
<1>6. UpserterOK(step, t) /\ s \in Sessions /\ s \notin Analysts
  BY <1>5, Ops DEF UpserterOK
<1> QED BY <1>4, <1>6, SilentMove DEF dbVars

LEMMA SafeHandleEvent ==
    ASSUME OneWriter, MonitoringInv, NEW c \in Consumers, HandleEvent(c)
    PROVE  Safe' /\ SessionsOK'
<1>a. PICK e \in Inbound :
        /\ AlertFromEvent(e) # <<>>
        /\ Begin(c, [NoSession EXCEPT !.op = "event", !.specs = AlertFromEvent(e)], "select")
  BY DEF HandleEvent
<1>b. PICK sp : sp = AlertFromEvent(e)
  OBVIOUS
<1>1. sp \in Seq(AlertSpec) /\ \A i, j \in DOMAIN sp : i = j
  BY <1>b, EventKeyed
<1> DEFINE t == [NoSession EXCEPT !.op = "event", !.specs = sp]
<1>2. /\ t \in SessionType /\ t.op = "event" /\ t.vendors = <<>> /\ t.specs = sp
      /\ t.objs = <<>> /\ t.snaps = {} /\ t.flagged = {}
  BY <1>1, EventRecord
<1>3. Move(c, "select", t) /\ UNCHANGED <<dbVars, sent>>
  BY <1>a, <1>b DEF Begin, Move
<1> HIDE DEF t
<1>4. WorkingOK(t) /\ AnnouncingOK(t)
  BY <1>1, <1>2, FreshWork
<1>5. UpserterOK("select", t) /\ c \in Sessions /\ c \notin Analysts
  BY <1>4, Ops DEF UpserterOK
<1> QED BY <1>3, <1>5, SilentMove DEF dbVars

LEMMA SafeAnalyse ==
    ASSUME MonitoringInv, NEW h \in Analysts, NEW op, NEW n \in DOMAIN alerts, NEW row \in Row,
           Analyse(h, op, n, row), SameKey(row, alerts[n]), row.severity = alerts[n].severity,
           row.published = alerts[n].published,
           row.status = "resolved" \/ alerts[n].status # "resolved"
    PROVE  Safe' /\ SessionsOK'
<1>a. PICK o : o = InMemory(n, row)
  OBVIOUS
<1>1. o \in Held /\ o.id = n /\ o.new = FALSE /\ o.read = alerts[n] /\ o.row = row
  BY <1>a, Parts, LoadedObject
<1>2. op \in {"acknowledge", "resolve"}
  BY OpsAssumption DEF Analyse
<1> DEFINE t == [NoSession EXCEPT !.op = op, !.objs = <<o>>]
<1>3. t.objs = <<o>>
  BY <1>1, <1>2, AnalystRecord
<1>4. Move(h, "flush", t) /\ UNCHANGED <<dbVars, sent>>
  BY <1>a DEF Analyse, Begin, Move, InMemory
<1> HIDE DEF t
<1>5. \A i \in DOMAIN t.objs : t.objs[i] = o
  BY <1>3
<1>6. AnalystOK(t)
  BY <1>1, <1>5 DEF AnalystOK, SameKey
<1>7. h \in Sessions /\ h \notin Upserters
  BY Ops DEF Upserters
<1> QED BY <1>4, <1>6, <1>7, SilentMove DEF dbVars

LEMMA SafeAcknowledge ==
    ASSUME MonitoringInv, NEW h \in Analysts, Acknowledge(h)
    PROVE  Safe' /\ SessionsOK'
<1>a. PICK n \in DOMAIN alerts :
        /\ MayAcknowledge(n)
        /\ Analyse(h, "acknowledge", n, [alerts[n] EXCEPT !.status = "acknowledged"])
  BY DEF Acknowledge
<1>b. PICK old, row : old = alerts[n] /\ row = [old EXCEPT !.status = "acknowledged"]
  OBVIOUS
<1>1. old \in Row
  BY <1>b, Parts, TypeInvParts DEF TablesOK
<1>2. /\ row \in Row /\ SameKey(row, old)
      /\ row.severity = old.severity /\ row.published = old.published
  BY <1>1, <1>b, AnalystRows
<1>3. old.status # "resolved" /\ Analyse(h, "acknowledge", n, row)
  BY <1>a, <1>b DEF MayAcknowledge
<1> QED BY <1>2, <1>3, <1>b, SafeAnalyse

LEMMA SafeResolve ==
    ASSUME MonitoringInv, NEW h \in Analysts, Resolve(h)
    PROVE  Safe' /\ SessionsOK'
<1>a. PICK n \in DOMAIN alerts :
        Analyse(h, "resolve", n, [alerts[n] EXCEPT !.status = "resolved", !.resolvedAt = TRUE])
  BY DEF Resolve
<1>b. PICK old, row :
        old = alerts[n] /\ row = [old EXCEPT !.status = "resolved", !.resolvedAt = TRUE]
  OBVIOUS
<1>1. old \in Row
  BY <1>b, Parts, TypeInvParts DEF TablesOK
<1>2. /\ row \in Row /\ SameKey(row, old) /\ row.status = "resolved"
      /\ row.severity = old.severity /\ row.published = old.published
  BY <1>1, <1>b, AnalystRows
<1>3. Analyse(h, "resolve", n, row)
  BY <1>a, <1>b
<1> QED BY <1>2, <1>3, <1>b, SafeAnalyse

------------------------------------------------------------------------------
(* Statements that leave the table alone.                                  *)

\* What is known of the session that takes a step.
LEMMA OwnParts ==
    ASSUME MonitoringInv, NEW s \in Sessions
    PROVE  /\ TablesOK /\ sess[s] \in SessionType /\ pc[s] \in Steps
           /\ Ready(s, pc[s], sess[s]) /\ Numbered(pc[s], sess[s])
           /\ s \in Upserters \/ s \in Analysts
           /\ s \in Upserters => UpserterOK(pc[s], sess[s]) /\ s \notin Analysts
           /\ s \in Analysts => AnalystOK(sess[s]) /\ s \notin Upserters
  BY Parts, TypeInvParts, Ops DEF SessionsOK, Upserters, Sessions

LEMMA SafeFlushAlert ==
    ASSUME MonitoringInv, NEW s \in Sessions, FlushAlert(s)
    PROVE  Safe' /\ SessionsOK'
<1>a. PICK r : r = sess[s]
  OBVIOUS
<1>b. PICK step : step = NextStep(r.specs, r.vendors)
  OBVIOUS
<1>1. Move(s, step, r) /\ UNCHANGED <<dbVars, sent>> /\ pc[s] = "flush"
  BY <1>a, <1>b DEF FlushAlert
<1>2. step \in {"select", "vendor", "commit"}
  BY <1>b, NextStepFacts
<1>3. s \in Upserters => UpserterOK(step, r)
  BY <1>1, <1>2, <1>a, OwnParts DEF UpserterOK, Working, Announcing
<1>4. s \in Analysts => AnalystOK(r)
  BY <1>a, OwnParts
<1> QED BY <1>1, <1>3, <1>4, SilentMove DEF dbVars

LEMMA SafeRefresh ==
    ASSUME MonitoringInv, NEW s \in Sessions, Refresh(s)
    PROVE  Safe' /\ SessionsOK'
<1>a. PICK r : r = sess[s]
  OBVIOUS
<1>b. PICK n : n = Last(r.objs).id
  OBVIOUS
<1>1. /\ r \in SessionType /\ Ready(s, "refresh", r) /\ Numbered("refresh", r) /\ TablesOK
  BY <1>a, OwnParts DEF Refresh
<1>2. r.objs \in Seq(Held) /\ r.objs # <<>> /\ r.flagged = {} /\ s \notin Analysts
  BY <1>1 DEF SessionType, Ready
<1>3. n \in DOMAIN alerts
  <2>1. Len(r.objs) \in DOMAIN r.objs
    BY <1>2
  <2> QED BY <1>1, <1>b, <2>1 DEF Last, Numbered
<1>c. PICK row : row = alerts[n]
  OBVIOUS
<1>4. row \in Row
  BY <1>1, <1>3, <1>c DEF TablesOK
<1>d. PICK o : o = Loaded(n)
  OBVIOUS
<1>5. o \in Held /\ o.id = n /\ o.row = alerts[n] /\ o.read = alerts[n]
  BY <1>3, <1>4, <1>d, Parts, LoadedObject
<1>e. PICK os : os = <<o>>
  OBVIOUS
<1>6. os \in Seq(Held) /\ \A i \in DOMAIN os : os[i] = o
  BY <1>5, <1>e
<1> DEFINE t == KeepObjects(r, os)
<1>7. t.objs = os /\ t.flagged = r.flagged
  BY <1>1, <1>6, WithObjects
<1>8. Move(s, "publish", t) /\ UNCHANGED <<dbVars, sent>>
  BY <1>a, <1>b, <1>d, <1>e DEF Refresh, KeepObjects
<1> HIDE DEF t
<1>9. AnnouncingOK(t)
  BY <1>2, <1>5, <1>6, <1>7 DEF AnnouncingOK
<1>10. UpserterOK("publish", t)
  BY <1>9 DEF UpserterOK, Working
<1> QED BY <1>2, <1>8, <1>10, SilentMove DEF dbVars

LEMMA SafePublishAlert ==
    ASSUME MonitoringInv, NEW s \in Sessions, PublishAlert(s)
    PROVE  Safe' /\ SessionsOK'
<1>a. PICK r : r = sess[s]
  OBVIOUS
<1>b. PICK i : i = r.next
  OBVIOUS
<1>1. /\ r \in SessionType /\ Ready(s, "publish", r) /\ Numbered("publish", r) /\ TablesOK
      /\ s \in Upserters => UpserterOK("publish", r)
      /\ s \in Upserters \/ s \in Analysts
  BY <1>a, OwnParts DEF PublishAlert
<1>2. r.objs \in Seq(Held) /\ r.next \in Nat \ {0}
  BY <1>1 DEF SessionType
<1>3. i \in DOMAIN r.objs
  BY <1>2, <1>a, <1>b DEF PublishAlert
<1>c. PICK n, row : n = r.objs[i].id /\ row = r.objs[i].row
  OBVIOUS
<1>4. row \in Row /\ n \in Nat /\ row.published \in BOOLEAN
  <2>1. r.objs[i] \in Held
    BY <1>2, <1>3
  <2> QED BY <2>1, <1>c DEF Held, Row
<1>5. s \notin Analysts /\ AnnouncingOK(r)
  <2>1. s \notin Analysts
    BY <1>1 DEF Ready
  <2> QED BY <1>1, <2>1 DEF UpserterOK, Announcing
<1>6. n \in DOMAIN alerts /\ row.severity = alerts[n].severity /\ row.severity \in SeverityRanks
  BY <1>1, <1>3, <1>4, <1>5, <1>c DEF Numbered, AnnouncingOK, Row
<1>d. PICK m : m = Message(row, n)
  OBVIOUS
<1>7. /\ m \in [alert : Nat, severity : SeverityRanks,
                status : {"open", "acknowledged", "resolved"}]
      /\ m.alert = n /\ m.severity = row.severity
  BY <1>4, <1>d, MessageTyped
<1>e. PICK mark \in BOOLEAN :
         /\ Move(s, "publish", PutMark(r, i, mark))
         /\ \/ sent' = Append(sent, m)
            \/ sent' = sent /\ mark = row.published
  <2>1. \/ Move(s, "publish", PutMark(r, i, TRUE)) /\ sent' = Append(sent, m)
        \/ Move(s, "publish", PutMark(r, i, row.published)) /\ sent' = sent
    BY <1>a, <1>b, <1>c, <1>d DEF PublishAlert, PutMark
  <2> QED BY <1>4, <2>1
<1> DEFINE t == PutMark(r, i, mark)
<1>8. /\ DOMAIN t.objs = DOMAIN r.objs
      /\ \A j \in DOMAIN r.objs : j # i => t.objs[j] = r.objs[j]
      /\ t.objs[i].id = r.objs[i].id /\ t.objs[i].read = r.objs[i].read
      /\ t.objs[i].row.severity = r.objs[i].row.severity
      /\ t.objs[i].row.published = mark
      /\ t.flagged = r.flagged
  BY <1>1, <1>3, WithMark
<1>9. Move(s, "publish", t)
  BY <1>e
<1> HIDE DEF t
<1>10. alerts' = alerts /\ snapshots' = snapshots
  BY DEF PublishAlert, dbVars
<1>11. sent \in Seq([alert : Nat, severity : SeverityRanks,
                     status : {"open", "acknowledged", "resolved"}])
  BY <1>1 DEF TablesOK
<1>12. ASSUME sent' = Append(sent, m)
       PROVE  /\ Len(sent) + 1 \in DOMAIN sent' /\ sent'[Len(sent) + 1] = m
              /\ \A k \in DOMAIN sent' : (k \in DOMAIN sent /\ sent'[k] = sent[k]) \/ sent'[k] = m
  <2> DEFINE M == [alert : Nat, severity : SeverityRanks,
                   status : {"open", "acknowledged", "resolved"}]
  <2>1. m \in M /\ sent \in Seq(M)
    BY <1>7, <1>11
  <2> HIDE DEF M
  <2>2. /\ Append(sent, m) \in Seq(M) /\ Append(sent, m)[Len(sent) + 1] = m
        /\ \A k \in DOMAIN Append(sent, m) :
              \/ k \in DOMAIN sent /\ Append(sent, m)[k] = sent[k]
              \/ Append(sent, m)[k] = m
    BY <2>1, Appended
  <2>3. Len(sent) + 1 \in DOMAIN Append(sent, m)
    BY <2>1
  <2> QED BY <1>12, <2>2, <2>3
<1>13. \A k : Announced(k) => Announced(k)'
  BY <1>7, <1>10, <1>e, Parts, StillAnnounced
<1>14. MessagesAreCommitted'
  <2>1. MessagesAreCommitted
    BY Parts
  <2>2. CASE sent' = sent
    BY <1>10, <2>1, <2>2 DEF MessagesAreCommitted
  <2>3. CASE sent' = Append(sent, m)
    <3>1. ASSUME NEW k \in DOMAIN sent'
          PROVE  /\ sent'[k].alert \in DOMAIN alerts
                 /\ sent'[k].severity <= alerts[sent'[k].alert].severity
      <4>1. CASE k \in DOMAIN sent /\ sent'[k] = sent[k]
        BY <2>1, <4>1 DEF MessagesAreCommitted
      <4>2. CASE sent'[k] = m
        <5>1. row.severity <= row.severity
          BY <1>6 DEF SeverityRanks
        <5> QED BY <4>2, <5>1, <1>6, <1>7
      <4> QED BY <2>3, <3>1, <4>1, <4>2, <1>12
    <3> QED BY <1>10, <3>1 DEF MessagesAreCommitted
  <2> QED BY <2>2, <2>3, <1>e
<1>15. mark # r.objs[i].read.published => Announced(n)'
  <2>1. CASE sent' = Append(sent, m)
    <3>1. Len(sent) + 1 \in DOMAIN sent' /\ sent'[Len(sent) + 1] = m
      BY <1>12, <2>1
    <3> QED BY <1>6, <1>7, <1>10, <3>1 DEF Announced
  <2>2. CASE sent' = sent /\ mark = row.published
    <3>1. mark # r.objs[i].read.published => Announced(n)
      BY <1>3, <1>5, <1>c, <2>2 DEF AnnouncingOK
    <3> QED BY <1>13, <3>1
  <2> QED BY <2>1, <2>2, <1>e
<1>16. AnnouncingOK(t)'
  <2>1. ASSUME NEW j \in DOMAIN t.objs
        PROVE  /\ t.objs[j].row.severity = alerts[t.objs[j].id].severity
               /\ t.objs[j].row.published # t.objs[j].read.published => Announced(t.objs[j].id)'
    <3>1. CASE j = i
      BY <3>1, <1>6, <1>8, <1>15, <1>c
    <3>2. CASE j # i
      BY <3>2, <1>5, <1>8, <1>13 DEF AnnouncingOK
    <3> QED BY <3>1, <3>2
  <2>2. \A k \in t.flagged : k \in DOMAIN alerts /\ Announced(k)'
    BY <1>5, <1>8, <1>13 DEF AnnouncingOK
  <2> QED BY <2>1, <2>2, <1>10 DEF AnnouncingOK
<1>17. UpserterOK("publish", t)'
  BY <1>16 DEF UpserterOK, Working
<1> QED BY <1>5, <1>9, <1>10, <1>13, <1>14, <1>17, QuietMove

LEMMA SafePublishDone ==
    ASSUME MonitoringInv, NEW s \in Sessions, PublishDone(s)
    PROVE  Safe' /\ SessionsOK'
<1>a. PICK r : r = sess[s]
  OBVIOUS
<1>1. /\ UNCHANGED <<dbVars, sent>> /\ (Finish(s) \/ Move(s, "flag", r)) /\ pc[s] = "publish"
  BY <1>a DEF PublishDone
<1>2. UpserterOK("publish", r) /\ s \notin Analysts
  BY <1>1, <1>a, OwnParts DEF Ready
<1>3. UpserterOK("flag", r)
  BY <1>2 DEF UpserterOK, Announcing, Working
<1> QED BY <1>1, <1>2, <1>3, SilentMove, SafeFinish DEF dbVars

LEMMA SafeFlagAlert ==
    ASSUME MonitoringInv, NEW s \in Sessions, FlagAlert(s)
    PROVE  Safe' /\ SessionsOK'
<1>a. PICK r : r = sess[s]
  OBVIOUS
<1>1. /\ r \in SessionType /\ Ready(s, "flag", r) /\ Numbered("flag", r) /\ TablesOK
      /\ s \in Upserters => UpserterOK("flag", r)
      /\ s \in Upserters \/ s \in Analysts
  BY <1>a, OwnParts DEF FlagAlert
<1>2. s \notin Analysts
  BY <1>1 DEF Ready
<1>3. AnnouncingOK(r) /\ r.objs \in Seq(Held)
  BY <1>1, <1>2 DEF UpserterOK, Announcing, SessionType
<1>b. PICK n \in NextFlag(s) : Move(s, "flag", PutFlag(r, n))
  BY <1>a DEF FlagAlert, PutFlag
<1>4. n \in Nat /\ n \in DOMAIN alerts /\ Announced(n)
  <2>1. PICK i \in DOMAIN r.objs :
           n = r.objs[i].id /\ r.objs[i].row.published # r.objs[i].read.published
    BY <1>a DEF NextFlag, Unflagged
  <2>2. r.objs[i] \in Held
    BY <1>3
  <2>3. r.objs[i].id \in Nat
    BY <2>2 DEF Held
  <2>4. ~r.objs[i].new /\ (~r.objs[i].new => r.objs[i].id \in DOMAIN alerts)
    BY <1>1 DEF Numbered
  <2> QED BY <1>3, <2>1, <2>3, <2>4 DEF AnnouncingOK
<1> DEFINE t == PutFlag(r, n)
<1>5. t.flagged = r.flagged \cup {n} /\ t.objs = r.objs
  BY <1>1, <1>4, WithFlag
<1>6. Move(s, "flag", t)
  BY <1>b
<1> HIDE DEF t
<1>7. UNCHANGED <<dbVars, sent>>
  BY DEF FlagAlert
<1>8. AnnouncingOK(t)
  BY <1>3, <1>4, <1>5 DEF AnnouncingOK
<1>9. UpserterOK("flag", t)
  BY <1>8 DEF UpserterOK, Working
<1> QED BY <1>2, <1>6, <1>7, <1>9, SilentMove DEF dbVars

------------------------------------------------------------------------------
(* Commits of the upserting session.                                       *)

\* A commit that leaves every status as it was is harmless to the analyst, and no
\* other session upserts.
LEMMA AnalystsKept ==
    ASSUME OneWriter, MonitoringInv, NEW s \in Upserters, NEW step, NEW r, Move(s, step, r),
           \A n \in DOMAIN alerts : alerts'[n].status = alerts[n].status,
           UpserterOK(step, r)'
    PROVE  SessionsOK'
<1>1. s \in Sessions /\ s \notin Analysts /\ Upserters \ {s} = {}
  BY Ops DEF Upserters, OneWriter, OneOf
<1>2. ASSUME NEW t \in Analysts \ {s}, NEW q, q = sess[t]
      PROVE  AnalystOK(q)'
  <2>1. AnalystOK(q) /\ Numbered(pc[t], q)
    BY <1>2, OwnParts, Ops
  <2>2. \A i \in DOMAIN q.objs : q.objs[i].id \in DOMAIN alerts
    BY <2>1 DEF AnalystOK, Numbered
  <2> QED BY <2>1, <2>2 DEF AnalystOK
<1> QED BY <1>1, <1>2, Parts, SessionsAfter

LEMMA SafeCommitFlags ==
    ASSUME OneWriter, MonitoringInv, NEW s \in Sessions, CommitFlags(s)
    PROVE  Safe' /\ SessionsOK'
<1>1. /\ DOMAIN alerts' = DOMAIN alerts
      /\ \A n \in DOMAIN alerts :
            /\ SameKey(alerts'[n], alerts[n]) /\ alerts'[n].status = alerts[n].status
            /\ alerts'[n].severity = alerts[n].severity
            /\ alerts'[n].published = (alerts[n].published \/ n \in sess[s].flagged)
  BY Parts, TypeCommitFlags
<1>2. snapshots' = snapshots /\ sent' = sent /\ Finish(s) /\ pc[s] = "flag"
  BY DEF CommitFlags
<1>3. s \in Upserters /\ AnnouncingOK(sess[s])
  <2>1. s \notin Analysts
    BY <1>2, OwnParts DEF Ready
  <2> QED BY <1>2, <2>1, OwnParts DEF UpserterOK, Announcing
<1>4. OneOpenAlert'
  BY <1>1, Parts DEF OneOpenAlert, Unresolved, SameKey
<1>5. DriftIsDelta'
  BY <1>2, Parts DEF DriftIsDelta, Older
<1>6. DriftAlerts'
  BY <1>1, <1>2, Parts DEF DriftAlerts, SameKey
<1>7. MessagesAreCommitted'
  BY <1>1, <1>2, Parts DEF MessagesAreCommitted
<1>8. PublishedIsAnnounced'
  <2>1. \A n \in DOMAIN alerts : alerts[n].published \/ n \in sess[s].flagged => Announced(n)
    BY <1>3, Parts DEF PublishedIsAnnounced, Announced, AnnouncingOK
  <2>2. ASSUME NEW n \in DOMAIN alerts, alerts'[n].published
        PROVE  Announced(n)'
    <3>1. alerts'[n].published = (alerts[n].published \/ n \in sess[s].flagged)
      BY <1>1
    <3>2. alerts[n].published \/ n \in sess[s].flagged
      BY <2>2, <3>1, Zenon
    <3>3. Announced(n) /\ alerts'[n].severity = alerts[n].severity
      BY <1>1, <2>1, <3>2
    <3> QED BY <1>2, <3>3 DEF Announced
  <2> QED BY <1>1, <2>2 DEF PublishedIsAnnounced, Announced
<1>9. UpserterOK("idle", NoSession)'
  BY DEF UpserterOK, Working, Announcing
<1>10. SessionsOK'
  BY <1>1, <1>2, <1>3, <1>9, AnalystsKept DEF Finish
<1> QED BY <1>4, <1>5, <1>6, <1>7, <1>8, <1>10 DEF Safe

\* The table after the transaction of an upserter: the rows it has opened, the rows
\* it has bumped, and the others as they were.
Opened(o) == alerts'[o.id] = o.row
Bumped(o) ==
    /\ SameKey(alerts'[o.id], alerts[o.id]) /\ SameKey(alerts'[o.id], o.row)
    /\ alerts'[o.id].status = alerts[o.id].status
    /\ alerts'[o.id].severity = o.row.severity
    /\ alerts[o.id].severity <= o.row.severity
    /\ ~alerts'[o.id].published
LEMMA CommittedRows ==
    ASSUME MonitoringInv, NEW s \in Upserters, Commit(s)
    PROVE  LET objs == sess[s].objs IN
           /\ DOMAIN alerts' = DOMAIN alerts \cup {objs[i].id : i \in DOMAIN objs}
           /\ \A n \in DOMAIN alerts :
                (\A i \in DOMAIN objs : objs[i].id # n) => alerts'[n] = alerts[n]
           /\ \A i \in DOMAIN objs :
                IF objs[i].new THEN objs[i].id \notin DOMAIN alerts /\ Opened(objs[i])
                ELSE objs[i].id \in DOMAIN alerts /\ Bumped(objs[i])
<1>a. PICK r : r = sess[s]
  OBVIOUS
<1>b. PICK objs : objs = r.objs
  OBVIOUS
<1>1. s \in Sessions
  BY DEF Upserters, Sessions
<1>2. /\ r \in SessionType /\ Numbered("commit", r) /\ TablesOK /\ UpserterOK("commit", r)
  BY <1>1, <1>a, OwnParts DEF Commit
<1>3. objs \in Seq(Held) /\ ObjectsOK(r) /\ Apart(r)
  BY <1>2, <1>b DEF SessionType, UpserterOK, Working, WorkingOK
<1>4. alerts' = Stored(objs)
  BY <1>a, <1>b DEF Commit
<1>5. /\ DOMAIN alerts' = DOMAIN alerts \cup {objs[i].id : i \in DOMAIN objs}
      /\ \A n \in DOMAIN alerts :
           (\A i \in DOMAIN objs : objs[i].id # n) => alerts'[n] = alerts[n]
      /\ \A i \in DOMAIN objs :
           \E j \in DOMAIN objs :
              /\ objs[j].id = objs[i].id
              /\ alerts'[objs[i].id] = IF objs[i].id \in DOMAIN alerts
                                       THEN Merge(alerts[objs[i].id], objs[j])
                                       ELSE objs[j].row
  BY <1>2, <1>3, <1>4, StoredRows DEF TablesOK
<1>6. ASSUME NEW i \in DOMAIN objs
      PROVE  IF objs[i].new THEN objs[i].id \notin DOMAIN alerts /\ Opened(objs[i])
             ELSE objs[i].id \in DOMAIN alerts /\ Bumped(objs[i])
  <2>c. PICK o, n, row : o = objs[i] /\ n = o.id /\ row = alerts[n]
    OBVIOUS
  <2>1. alerts'[n] = IF n \in DOMAIN alerts THEN Merge(row, o) ELSE o.row
    <3>1. PICK j \in DOMAIN objs :
             /\ objs[j].id = objs[i].id
             /\ alerts'[objs[i].id] = IF objs[i].id \in DOMAIN alerts
                                      THEN Merge(alerts[objs[i].id], objs[j])
                                      ELSE objs[j].row
      BY <1>5
    <3>2. j = i
      BY <1>3, <1>b, <3>1 DEF Apart
    <3> QED BY <2>c, <3>1, <3>2
  <2>2. o \in Held
    BY <1>3, <2>c
  <2>3. CASE o.new
    <3>1. n \notin DOMAIN alerts
      BY <1>3, <1>b, <2>c, <2>3 DEF ObjectsOK, InsertOK
    <3> QED BY <2>c, <2>1, <2>3, <3>1 DEF Opened
  <2>4. CASE ~o.new
    <3>1. n \in DOMAIN alerts /\ UpdateOK(o)
      BY <1>2, <1>3, <1>b, <2>c, <2>4 DEF ObjectsOK, Numbered
    <3>2. row \in Row
      BY <1>2, <2>c, <3>1 DEF TablesOK
    <3>3. /\ SameKey(o.row, o.read) /\ SameKey(row, o.read)
          /\ row.severity = o.read.severity /\ o.read.severity <= o.row.severity
          /\ row.published = o.read.published /\ ~o.row.published
          /\ o.row.status = o.read.status
      BY <2>c, <3>1 DEF UpdateOK
    <3>c. PICK m : m = Merge(row, o)
      OBVIOUS
    <3>4. /\ m.vendor = Written(row, o, "vendor") /\ m.key = Written(row, o, "key")
          /\ m.severity = Written(row, o, "severity") /\ m.status = Written(row, o, "status")
          /\ m.published = Written(row, o, "published")
      BY <2>2, <3>2, <3>c, MergeRow
    <3>5. o.row.published \in BOOLEAN /\ o.read.published \in BOOLEAN
      BY <2>2 DEF Held, Row
    <3>6. SameKey(m, row) /\ SameKey(m, o.row) /\ m.status = row.status /\ m.severity = o.row.severity
      BY <3>3, <3>4 DEF Written, SameKey
    <3>7. ~m.published
      BY <3>3, <3>4, <3>5 DEF Written
    <3>8. alerts'[n] = m
      BY <2>1, <3>1, <3>c
    <3> QED BY <2>c, <2>4, <3>1, <3>3, <3>6, <3>7, <3>8 DEF Bumped
  <2> QED BY <2>c, <2>3, <2>4
<1> QED BY <1>a, <1>b, <1>5, <1>6

\* What the commit of an upserter leaves of an alert that was there, and where the
\* others come from.
Kept(n) ==
    /\ SameKey(alerts'[n], alerts[n]) /\ alerts'[n].status = alerts[n].status
    /\ alerts[n].severity <= alerts'[n].severity
    /\ alerts'[n].published => alerts[n].published /\ alerts'[n].severity = alerts[n].severity
LEMMA CommitKeeps ==
    ASSUME MonitoringInv, NEW s \in Upserters, Commit(s)
    PROVE  /\ \A n \in DOMAIN alerts : n \in DOMAIN alerts' /\ Kept(n)
           /\ \A n \in DOMAIN alerts' \ DOMAIN alerts :
                \E i \in DOMAIN sess[s].objs :
                   /\ n = sess[s].objs[i].id /\ alerts'[n] = sess[s].objs[i].row
                   /\ InsertOK(sess[s].objs[i])
<1>a. PICK r : r = sess[s]
  OBVIOUS
<1>b. PICK objs : objs = r.objs
  OBVIOUS
<1>1. s \in Sessions
  BY DEF Upserters, Sessions
<1>2. TablesOK /\ UpserterOK("commit", r)
  BY <1>1, <1>a, OwnParts DEF Commit
<1>3. ObjectsOK(r)
  BY <1>2 DEF UpserterOK, Working, WorkingOK
<1>4. /\ DOMAIN alerts' = DOMAIN alerts \cup {objs[i].id : i \in DOMAIN objs}
      /\ \A n \in DOMAIN alerts :
           (\A i \in DOMAIN objs : objs[i].id # n) => alerts'[n] = alerts[n]
      /\ \A i \in DOMAIN objs :
           IF objs[i].new THEN objs[i].id \notin DOMAIN alerts /\ Opened(objs[i])
           ELSE objs[i].id \in DOMAIN alerts /\ Bumped(objs[i])
  BY <1>a, <1>b, CommittedRows
<1>5. ASSUME NEW n \in DOMAIN alerts
      PROVE  Kept(n)
  <2>1. CASE \A i \in DOMAIN objs : objs[i].id # n
    <3>1. alerts'[n] = alerts[n]
      BY <1>4, <2>1
    <3>2. alerts[n] \in Row
      BY <1>2 DEF TablesOK
    <3>3. alerts[n].severity <= alerts[n].severity
      BY <3>2 DEF Row, SeverityRanks
    <3> QED BY <3>1, <3>3 DEF Kept, SameKey
  <2>2. ASSUME NEW i \in DOMAIN objs, objs[i].id = n
        PROVE  Kept(n)
    <3>1. Bumped(objs[i])
      BY <1>4, <2>2
    <3> QED BY <2>2, <3>1 DEF Kept, Bumped
  <2> QED BY <2>1, <2>2
<1>6. ASSUME NEW n \in DOMAIN alerts' \ DOMAIN alerts
      PROVE  \E i \in DOMAIN objs : n = objs[i].id /\ alerts'[n] = objs[i].row /\ InsertOK(objs[i])
  <2>1. PICK i \in DOMAIN objs : n = objs[i].id
    BY <1>4
  <2>2. objs[i].new /\ Opened(objs[i])
    BY <1>4, <2>1
  <2> QED BY <1>3, <1>b, <2>1, <2>2 DEF ObjectsOK, Opened
<1> QED BY <1>a, <1>b, <1>4, <1>5, <1>6

LEMMA CommitKeepsOpen ==
    ASSUME MonitoringInv, NEW s \in Upserters, Commit(s)
    PROVE  OneOpenAlert'
<1>a. PICK objs : objs = sess[s].objs
  OBVIOUS
<1>1. /\ \A n \in DOMAIN alerts : n \in DOMAIN alerts' /\ Kept(n)
      /\ \A n \in DOMAIN alerts' \ DOMAIN alerts :
           \E i \in DOMAIN objs :
              n = objs[i].id /\ alerts'[n] = objs[i].row /\ InsertOK(objs[i])
  BY <1>a, CommitKeeps
<1>2. \A i, j \in DOMAIN objs : SameKey(objs[i].row, objs[j].row) => i = j
  <2>1. UpserterOK("commit", sess[s])
    BY OwnParts DEF Upserters, Sessions, Commit
  <2> QED BY <1>a, <2>1 DEF UpserterOK, Working, WorkingOK, Apart
<1>3. ASSUME NEW m \in Unresolved', NEW n \in Unresolved', SameKey(alerts'[m], alerts'[n]),
             m \in DOMAIN alerts
      PROVE  m = n
  <2>1. m \in Unresolved /\ SameKey(alerts[m], alerts'[n])
    BY <1>1, <1>3 DEF Kept, Unresolved, SameKey
  <2>2. CASE n \in DOMAIN alerts
    <3>1. n \in Unresolved /\ SameKey(alerts[m], alerts[n])
      BY <1>1, <2>1, <2>2 DEF Kept, Unresolved, SameKey
    <3> QED BY <2>1, <3>1, Parts DEF OneOpenAlert, SameKey
  <2>3. CASE n \notin DOMAIN alerts
    <3>1. n \in DOMAIN alerts'
      BY DEF Unresolved
    <3>2. PICK i \in DOMAIN objs : alerts'[n] = objs[i].row /\ InsertOK(objs[i])
      BY <1>1, <2>3, <3>1
    <3> QED BY <2>1, <3>2 DEF InsertOK
  <2> QED BY <2>2, <2>3
<1>4. ASSUME NEW m \in Unresolved', NEW n \in Unresolved', SameKey(alerts'[m], alerts'[n]),
             m \notin DOMAIN alerts, n \notin DOMAIN alerts
      PROVE  m = n
  <2>1. m \in DOMAIN alerts' /\ n \in DOMAIN alerts'
    BY DEF Unresolved
  <2>2. PICK i \in DOMAIN objs : m = objs[i].id /\ alerts'[m] = objs[i].row
    BY <1>1, <1>4, <2>1
  <2>3. PICK j \in DOMAIN objs : n = objs[j].id /\ alerts'[n] = objs[j].row
    BY <1>1, <1>4, <2>1
  <2>4. i = j
    BY <1>2, <1>4, <2>2, <2>3
  <2> QED BY <2>2, <2>3, <2>4
<1>5. ASSUME NEW m \in Unresolved', NEW n \in Unresolved',
             alerts'[m].vendor = alerts'[n].vendor, alerts'[m].key = alerts'[n].key
      PROVE  m = n
  <2>1. SameKey(alerts'[m], alerts'[n]) /\ SameKey(alerts'[n], alerts'[m])
    BY <1>5 DEF SameKey
  <2> QED BY <1>3, <1>4, <2>1
<1> QED BY <1>5 DEF OneOpenAlert

LEMMA CommitKeepsDrift ==
    ASSUME MonitoringInv, NEW s \in Upserters, Commit(s)
    PROVE  DriftIsDelta' /\ DriftAlerts'
<1>a. PICK r : r = sess[s]
  OBVIOUS
<1>1. /\ r \in SessionType /\ Ready(s, "commit", r) /\ Numbered("commit", r) /\ TablesOK
      /\ UpserterOK("commit", r)
  BY <1>a, OwnParts DEF Upserters, Sessions, Commit
<1>2. SnapshotsOK(r) /\ DriftsCovered(r) /\ r.specs = <<>> /\ r.snaps \subseteq Snapshot
  BY <1>1 DEF UpserterOK, Working, WorkingOK, Ready, SessionType
<1>3. snapshots' = snapshots \cup r.snaps
  BY <1>a DEF Commit
<1>4. \A p \in snapshots \cup r.snaps : p.at \in Nat
  BY <1>1, <1>2 DEF TablesOK, Snapshot
<1>5. ASSUME NEW p \in snapshots
      PROVE  Older(p)' = Older(p)
  <2>1. ASSUME NEW q \in r.snaps, q.vendor = p.vendor
        PROVE  ~(q.at < p.at)
    <3>1. p \in Of(q.vendor)
      BY <2>1 DEF Of
    <3>2. p.at < q.at
      BY <1>2, <3>1 DEF SnapshotsOK
    <3> QED BY <1>4, <3>2
  <2> QED BY <1>3, <2>1 DEF Older
<1>6. ASSUME NEW p \in r.snaps
      PROVE  Older(p)' = Of(p.vendor)
  <2>1. \A q \in r.snaps : q.vendor = p.vendor => ~(q.at < p.at)
    BY <1>2, <1>4 DEF SnapshotsOK
  <2>2. \A q \in snapshots : q.vendor = p.vendor => q.at < p.at
    BY <1>2 DEF SnapshotsOK, Of
  <2> QED BY <1>3, <2>1, <2>2 DEF Older, Of
<1>7. DriftIsDelta'
  <2>1. ASSUME NEW p \in snapshots'
        PROVE  \/ Older(p)' = {} /\ p.drift = 0
               \/ \E q \in Older(p)' : /\ \A o \in Older(p)' : o.at <= q.at
                                       /\ p.drift = p.exposure - q.exposure
    <3>1. CASE p \in r.snaps
      BY <1>2, <1>6, <3>1 DEF SnapshotsOK
    <3>2. CASE p \in snapshots
      BY <1>5, <3>2, Parts DEF DriftIsDelta
    <3> QED BY <1>3, <3>1, <3>2
  <2> QED BY <2>1 DEF DriftIsDelta
<1>8. \A n \in DOMAIN alerts : n \in DOMAIN alerts' /\ Kept(n)
  BY CommitKeeps
<1>b. PICK objs : objs = r.objs
  OBVIOUS
<1>9. \A i \in DOMAIN objs :
         /\ objs[i].id \in DOMAIN alerts'
         /\ SameKey(alerts'[objs[i].id], objs[i].row)
         /\ alerts'[objs[i].id].severity = objs[i].row.severity
  <2>1. /\ DOMAIN alerts' = DOMAIN alerts \cup {objs[i].id : i \in DOMAIN objs}
        /\ \A i \in DOMAIN objs :
             IF objs[i].new THEN objs[i].id \notin DOMAIN alerts /\ Opened(objs[i])
             ELSE objs[i].id \in DOMAIN alerts /\ Bumped(objs[i])
    BY <1>a, <1>b, CommittedRows
  <2> QED BY <2>1 DEF Opened, Bumped, SameKey
<1>10. ASSUME NEW p \in snapshots', p.drift >= DriftWarning
       PROVE  \E n \in DOMAIN alerts' : Covers(alerts'[n], p)
  <2>1. CASE p \in r.snaps
    <3>1. PICK i \in DOMAIN objs : Covers(objs[i].row, p)
      BY <1>2, <1>b, <1>10, <2>1 DEF DriftsCovered
    <3>2. Covers(alerts'[objs[i].id], p)
      BY <1>9, <3>1 DEF Covers, SameKey
    <3> QED BY <1>9, <3>2
  <2>2. CASE p \in snapshots
    <3>1. PICK n \in DOMAIN alerts : Covers(alerts[n], p)
      BY <1>10, <2>2, Parts DEF DriftAlerts, Covers
    <3>c. PICK x, y, z : /\ x = alerts[n].severity /\ y = alerts'[n].severity
                         /\ z = (IF p.drift >= DriftCritical THEN Critical ELSE High)
      OBVIOUS
    <3>2. x \in Int /\ y \in Int /\ z \in Int
      <4>1. alerts[n] \in Row
        BY <1>1 DEF TablesOK
      <4>2. alerts'[n] \in Row
        BY <1>8, Parts, CommitTables DEF TablesOK, Upserters, Sessions
      <4> QED BY <4>1, <4>2, <3>c DEF Row, SeverityRanks, Critical, High
    <3>3. x <= y /\ x >= z /\ SameKey(alerts'[n], alerts[n])
      BY <1>8, <3>1, <3>c DEF Kept, Covers
    <3>4. y >= z
      BY <3>2, <3>3
    <3>5. Covers(alerts'[n], p)
      BY <3>1, <3>3, <3>4, <3>c DEF Covers, SameKey
    <3> QED BY <1>8, <3>5
  <2> QED BY <1>3, <2>1, <2>2
<1>11. DriftAlerts'
  BY <1>10 DEF DriftAlerts, Covers
<1> QED BY <1>7, <1>11

LEMMA CommitKeepsMessages ==
    ASSUME MonitoringInv, NEW s \in Upserters, Commit(s)
    PROVE  MessagesAreCommitted' /\ PublishedIsAnnounced'
<1>1. /\ \A n \in DOMAIN alerts : n \in DOMAIN alerts' /\ Kept(n)
      /\ \A n \in DOMAIN alerts' \ DOMAIN alerts : ~alerts'[n].published
  BY CommitKeeps DEF InsertOK
<1>2. sent' = sent
  BY DEF Commit
<1>3. TablesOK /\ TablesOK'
  BY Parts, TypeInvParts, CommitTables DEF Upserters, Sessions
<1>4. ASSUME NEW k \in DOMAIN sent
      PROVE  /\ sent[k].alert \in DOMAIN alerts'
             /\ sent[k].severity <= alerts'[sent[k].alert].severity
  <2>a. PICK n, x, y, z : /\ n = sent[k].alert /\ x = sent[k].severity
                          /\ y = alerts[n].severity /\ z = alerts'[n].severity
    OBVIOUS
  <2>1. n \in DOMAIN alerts /\ x <= y
    BY <2>a, Parts DEF MessagesAreCommitted
  <2>2. y <= z /\ n \in DOMAIN alerts'
    BY <1>1, <2>1, <2>a DEF Kept
  <2>3. x \in Int /\ y \in Int /\ z \in Int
    <3>1. alerts[n] \in Row /\ alerts'[n] \in Row
      BY <1>3, <2>1, <2>2 DEF TablesOK
    <3> DEFINE M == [alert : Nat, severity : SeverityRanks,
                     status : {"open", "acknowledged", "resolved"}]
    <3>2. sent \in Seq(M)
      BY <1>3 DEF TablesOK
    <3>3. sent[k] \in M
      <4> HIDE DEF M
      <4> QED BY <3>2
    <3> QED BY <2>a, <3>1, <3>3 DEF Row, SeverityRanks
  <2> QED BY <2>1, <2>2, <2>3, <2>a
<1>5. MessagesAreCommitted'
  BY <1>2, <1>4 DEF MessagesAreCommitted
<1>6. ASSUME NEW n \in DOMAIN alerts', alerts'[n].published
      PROVE  Announced(n)'
  <2>1. n \in DOMAIN alerts /\ alerts[n].published /\ alerts'[n].severity = alerts[n].severity
    BY <1>1, <1>6 DEF Kept
  <2>2. Announced(n)
    BY <2>1, Parts DEF PublishedIsAnnounced, Announced
  <2> QED BY <1>2, <2>1, <2>2 DEF Announced
<1>7. PublishedIsAnnounced'
  BY <1>6 DEF PublishedIsAnnounced, Announced
<1> QED BY <1>5, <1>7

LEMMA SafeUpserterCommit ==
    ASSUME OneWriter, MonitoringInv, NEW s \in Upserters, Commit(s)
    PROVE  Safe' /\ SessionsOK'
<1>a. PICK r : r = sess[s]
  OBVIOUS
<1>1. /\ r \in SessionType /\ Ready(s, "commit", r) /\ s \notin Analysts
  BY <1>a, OwnParts DEF Upserters, Sessions, Commit
<1>2. r.objs \in Seq(Held) /\ r.flagged = {}
  BY <1>1 DEF SessionType, Ready
<1> DEFINE t == KeepObjects(r, Saved(r.objs))
<1>3. /\ Saved(r.objs) \in Seq(Held) /\ DOMAIN Saved(r.objs) = DOMAIN r.objs
      /\ \A i \in DOMAIN r.objs :
           /\ Saved(r.objs)[i].id = r.objs[i].id
           /\ Saved(r.objs)[i].read = r.objs[i].row /\ Saved(r.objs)[i].row = r.objs[i].row
  BY <1>2, SavedObjects
<1>4. t.objs = Saved(r.objs) /\ t.flagged = r.flagged
  BY <1>1, <1>3, WithObjects
<1>5. Move(s, "publish", t) \/ Move(s, "refresh", t) \/ Move(s, "idle", NoSession)
  BY <1>a DEF Commit, KeepObjects, Saved, Finish
<1> HIDE DEF t
<1>6. \A n \in DOMAIN alerts : alerts'[n].status = alerts[n].status
  BY CommitKeeps DEF Kept
<1>7. AnnouncingOK(t)'
  <2>1. \A i \in DOMAIN r.objs : r.objs[i].row.severity = alerts'[r.objs[i].id].severity
    <3>1. \A i \in DOMAIN r.objs : Opened(r.objs[i]) \/ Bumped(r.objs[i])
      BY <1>a, CommittedRows
    <3> QED BY <3>1 DEF Opened, Bumped
  <2> QED BY <1>2, <1>3, <1>4, <2>1 DEF AnnouncingOK
<1>8. UpserterOK("publish", t)' /\ UpserterOK("refresh", t)' /\ UpserterOK("idle", NoSession)'
  BY <1>7 DEF UpserterOK, Working, Announcing
<1>9. SessionsOK'
  BY <1>5, <1>6, <1>8, AnalystsKept
<1> QED BY <1>9, CommitKeepsOpen, CommitKeepsDrift, CommitKeepsMessages DEF Safe

------------------------------------------------------------------------------
(* Commits of the analyst.                                                 *)

ByAnalyst ==
    /\ DOMAIN alerts' = DOMAIN alerts /\ snapshots' = snapshots /\ sent' = sent
    /\ \A n \in DOMAIN alerts :
         /\ SameKey(alerts'[n], alerts[n]) /\ alerts'[n].severity = alerts[n].severity
         /\ alerts'[n].published = alerts[n].published
         /\ alerts[n].status = "resolved" => alerts'[n].status = "resolved"

LEMMA AnalystCommits ==
    ASSUME MonitoringInv, NEW s \in Analysts, Commit(s)
    PROVE  ByAnalyst /\ Finish(s)
<1>a. PICK r : r = sess[s]
  OBVIOUS
<1>b. PICK objs : objs = r.objs
  OBVIOUS
<1>1. /\ r \in SessionType /\ Ready(s, "commit", r) /\ Numbered("commit", r) /\ TablesOK
      /\ AnalystOK(r) /\ s \notin Sweepers /\ s \notin Consumers
  BY <1>a, OwnParts, Ops DEF Commit
<1>2. /\ objs \in Seq(Held) /\ r.snaps = {} /\ r.op \in {"acknowledge", "resolve"}
  BY <1>1, <1>b DEF SessionType, Ready
<1>3. alerts' = Stored(objs) /\ snapshots' = snapshots /\ sent' = sent /\ Finish(s)
  BY <1>2, <1>a, <1>b DEF Commit
<1>4. /\ DOMAIN alerts' = DOMAIN alerts \cup {objs[i].id : i \in DOMAIN objs}
      /\ \A n \in DOMAIN alerts :
           (\A i \in DOMAIN objs : objs[i].id # n) => alerts'[n] = alerts[n]
      /\ \A i \in DOMAIN objs :
           \E j \in DOMAIN objs :
              /\ objs[j].id = objs[i].id
              /\ alerts'[objs[i].id] = IF objs[i].id \in DOMAIN alerts
                                       THEN Merge(alerts[objs[i].id], objs[j])
                                       ELSE objs[j].row
  BY <1>1, <1>2, <1>3, StoredRows DEF TablesOK
<1>5. \A i \in DOMAIN objs : objs[i].id \in DOMAIN alerts
  BY <1>1, <1>b DEF AnalystOK, Numbered
<1>6. ASSUME NEW i \in DOMAIN objs, NEW n, n = objs[i].id
      PROVE  /\ SameKey(alerts'[n], alerts[n]) /\ alerts'[n].severity = alerts[n].severity
             /\ alerts'[n].published = alerts[n].published
             /\ alerts[n].status = "resolved" => alerts'[n].status = "resolved"
  <2>1. PICK j \in DOMAIN objs : objs[j].id = n /\ alerts'[n] = Merge(alerts[n], objs[j])
    BY <1>4, <1>5, <1>6
  <2>c. PICK o, row : o = objs[j] /\ row = alerts[n]
    OBVIOUS
  <2>d. PICK m : m = Merge(row, o)
    OBVIOUS
  <2>2. o \in Held /\ row \in Row
    BY <1>1, <1>2, <1>5, <1>6, <2>c DEF TablesOK
  <2>3. /\ SameKey(o.row, o.read) /\ o.row.severity = o.read.severity
        /\ o.row.published = o.read.published
        /\ o.row.status = "resolved" \/ row.status # "resolved"
    BY <1>1, <1>b, <2>1, <2>c DEF AnalystOK
  <2>4. /\ m.vendor = Written(row, o, "vendor") /\ m.key = Written(row, o, "key")
        /\ m.severity = Written(row, o, "severity") /\ m.status = Written(row, o, "status")
        /\ m.published = Written(row, o, "published")
    BY <2>2, <2>d, MergeRow
  <2>5. /\ SameKey(m, row) /\ m.severity = row.severity /\ m.published = row.published
        /\ row.status = "resolved" => m.status = "resolved"
    BY <2>3, <2>4 DEF Written, SameKey
  <2> QED BY <2>1, <2>5, <2>c, <2>d
<1>7. ASSUME NEW n \in DOMAIN alerts, \A i \in DOMAIN objs : objs[i].id # n
      PROVE  /\ SameKey(alerts'[n], alerts[n]) /\ alerts'[n].severity = alerts[n].severity
             /\ alerts'[n].published = alerts[n].published
             /\ alerts[n].status = "resolved" => alerts'[n].status = "resolved"
  BY <1>4, <1>7 DEF SameKey
<1>8. DOMAIN alerts' = DOMAIN alerts
  BY <1>4, <1>5
<1> QED BY <1>3, <1>6, <1>7, <1>8 DEF ByAnalyst

\* What an analyst commits takes nothing from the upserting session.
LEMMA UpserterUndisturbed ==
    ASSUME ByAnalyst, NEW step, NEW r, UpserterOK(step, r), Numbered(step, r)
    PROVE  UpserterOK(step, r)'
<1>1. ASSUME NEW n \in DOMAIN alerts, Announced(n)
      PROVE  Announced(n)'
  BY <1>1 DEF ByAnalyst, Announced
<1>2. ASSUME ObjectsOK(r)
      PROVE  ObjectsOK(r)'
  <2>1. ASSUME NEW i \in DOMAIN r.objs, r.objs[i].new
        PROVE  InsertOK(r.objs[i])'
    <3>1. InsertOK(r.objs[i])
      BY <1>2, <2>1 DEF ObjectsOK
    <3>2. ASSUME NEW n \in Unresolved'
          PROVE  n \in Unresolved /\ SameKey(alerts'[n], alerts[n])
      BY DEF ByAnalyst, Unresolved
    <3> QED BY <3>1, <3>2 DEF InsertOK, ByAnalyst, SameKey
  <2>2. ASSUME NEW i \in DOMAIN r.objs, ~r.objs[i].new
        PROVE  UpdateOK(r.objs[i])'
    <3>1. UpdateOK(r.objs[i]) /\ r.objs[i].id \in DOMAIN alerts
      BY <1>2, <2>2 DEF ObjectsOK, Numbered
    <3> QED BY <3>1 DEF UpdateOK, ByAnalyst, SameKey
  <2> QED BY <2>1, <2>2 DEF ObjectsOK
<1>3. WorkingOK(r) => WorkingOK(r)'
  <2>1. SnapshotsOK(r) => SnapshotsOK(r)'
    BY DEF SnapshotsOK, Of, ByAnalyst
  <2> QED BY <1>2, <2>1 DEF WorkingOK, Apart, Ahead, DriftsCovered
<1>4. ASSUME step \in Announcing, AnnouncingOK(r)
      PROVE  AnnouncingOK(r)'
  <2>1. \A i \in DOMAIN r.objs : r.objs[i].id \in DOMAIN alerts
    BY <1>4 DEF Numbered, Announcing
  <2>2. \A i \in DOMAIN r.objs :
           /\ r.objs[i].row.severity = alerts'[r.objs[i].id].severity
           /\ r.objs[i].row.published # r.objs[i].read.published => Announced(r.objs[i].id)'
    BY <1>1, <1>4, <2>1 DEF AnnouncingOK, ByAnalyst
  <2>3. \A n \in r.flagged : n \in DOMAIN alerts' /\ Announced(n)'
    BY <1>1, <1>4 DEF AnnouncingOK, ByAnalyst
  <2> QED BY <2>2, <2>3 DEF AnnouncingOK
<1> QED BY <1>3, <1>4 DEF UpserterOK

LEMMA SafeAnalystCommit ==
    ASSUME OneWriter, MonitoringInv, NEW s \in Analysts, Commit(s)
    PROVE  Safe' /\ SessionsOK'
<1>1. ByAnalyst /\ Finish(s)
  BY AnalystCommits
<1>2. OneOpenAlert'
  BY <1>1, Parts DEF OneOpenAlert, Unresolved, ByAnalyst, SameKey
<1>3. DriftIsDelta' /\ DriftAlerts'
  <2>1. DriftIsDelta'
    BY <1>1, Parts DEF DriftIsDelta, Older, ByAnalyst
  <2>2. /\ snapshots' = snapshots /\ DOMAIN alerts' = DOMAIN alerts
        /\ \A n \in DOMAIN alerts :
             /\ alerts'[n].vendor = alerts[n].vendor /\ alerts'[n].key = alerts[n].key
             /\ alerts'[n].severity = alerts[n].severity
    BY <1>1 DEF ByAnalyst, SameKey
  <2>3. ASSUME NEW p \in snapshots, p.drift >= DriftWarning
        PROVE  \E n \in DOMAIN alerts : Covers(alerts'[n], p)
    <3>1. PICK n \in DOMAIN alerts : Covers(alerts[n], p)
      BY <2>3, Parts DEF DriftAlerts, Covers
    <3> QED BY <2>2, <3>1 DEF Covers
  <2>4. DriftAlerts'
    BY <2>2, <2>3 DEF DriftAlerts, Covers
  <2> QED BY <2>1, <2>4
<1>4. MessagesAreCommitted' /\ PublishedIsAnnounced'
  BY <1>1, Parts DEF MessagesAreCommitted, PublishedIsAnnounced, ByAnalyst
<1>5. ASSUME NEW t \in Upserters \ {s}, NEW st, NEW q, st = pc[t], q = sess[t]
      PROVE  UpserterOK(st, q)'
  <2>1. UpserterOK(st, q) /\ Numbered(st, q)
    BY <1>5, OwnParts DEF Upserters, Sessions
  <2> QED BY <1>1, <2>1, UpserterUndisturbed
<1>6. Analysts \ {s} = {}
  BY DEF OneWriter, OneOf
<1>7. AnalystOK(NoSession)'
  BY DEF AnalystOK, NoSession
<1>8. s \in Sessions /\ s \notin Upserters
  BY Ops DEF Upserters
<1>9. SessionsOK'
  BY <1>1, <1>5, <1>6, <1>7, <1>8, Parts, SessionsAfter DEF Finish
<1> QED BY <1>2, <1>3, <1>4, <1>9 DEF Safe

------------------------------------------------------------------------------
(* Readings and upserts.                                                   *)

\* Every nonempty set of naturals has a least element.
LEMMA Least ==
    ASSUME NEW T, T \subseteq Nat, T # {}
    PROVE  \E x \in T : \A y \in T : x <= y
<1> DEFINE R == {ss \in Nat \X Nat : ss[1] < ss[2]}
<1>1. IsWellFoundedOn(R, Nat)
  BY NatLessThanWellFounded DEF OpToRel
<1>2. PICK x \in T : \A y \in T : ~ (<<y, x>> \in R)
  <2> HIDE DEF R
  <2> QED BY <1>1, WFMin
<1>3. \A y \in T : ~(y < x)
  BY <1>2
<1> QED BY <1>2, <1>3

\* The newest snapshot of a vendor is there as soon as one is.
LEMMA PreviousIsLatest ==
    ASSUME TablesOK, NEW v
    PROVE  /\ Previous(v) \subseteq Of(v)
           /\ \A p \in Previous(v), q \in Of(v) : q.at <= p.at
           /\ Of(v) # {} => Previous(v) # {}
<1>1. Previous(v) \subseteq Of(v) /\ \A p \in Previous(v), q \in Of(v) : q.at <= p.at
  BY DEF Previous, Of
<1>2. clock \in Nat /\ \A p \in Of(v) : p.at \in Nat /\ p.at <= clock
  BY DEF TablesOK, Of
<1>3. ASSUME Of(v) # {}
      PROVE  Previous(v) # {}
  <2> DEFINE T == {clock - p.at : p \in Of(v)}
  <2>1. T \subseteq Nat /\ T # {}
    BY <1>2, <1>3
  <2> HIDE DEF T
  <2>2. PICK x \in T : \A y \in T : x <= y
    BY <2>1, Least
  <2>3. PICK p \in Of(v) : x = clock - p.at
    BY DEF T
  <2>4. ASSUME NEW q \in Of(v)
        PROVE  q.at <= p.at
    <3>1. clock - q.at \in T
      BY DEF T
    <3>2. clock - p.at <= clock - q.at
      BY <2>2, <2>3, <3>1
    <3> QED BY <1>2, <3>2
  <2>5. p \in Previous(v)
    BY <2>4 DEF Previous, Of
  <2> QED BY <2>5
<1> QED BY <1>1, <1>3

LEMMA WorkingParts ==
    ASSUME NEW r
    PROVE  WorkingOK(r) <=> /\ ObjectsOK(r) /\ Apart(r) /\ Ahead(r)
                            /\ SnapshotsOK(r) /\ DriftsCovered(r)
  BY DEF WorkingOK

LEMMA SkipKeeps ==
    ASSUME NEW r \in SessionType, r.vendors # <<>>, WorkingOK(r)
    PROVE  WorkingOK(SkipVendor(r, Tail(r.vendors)))
<1>a. PICK rest : rest = Tail(r.vendors)
  OBVIOUS
<1>1. /\ rest \in Seq(Vendors)
      /\ \A k \in DOMAIN rest : k + 1 \in DOMAIN r.vendors /\ rest[k] = r.vendors[k + 1]
      /\ \A k \in DOMAIN rest : k \in Nat
  <2>1. r.vendors \in Seq(Vendors)
    BY DEF SessionType
  <2> QED BY <1>a, <2>1, Tailed
<1> DEFINE t == SkipVendor(r, rest)
<1>2. /\ t.vendors = rest /\ t.specs = r.specs /\ t.objs = r.objs /\ t.snaps = r.snaps
  BY <1>1, WithVendors
<1> HIDE DEF t
<1>3. ObjectsOK(r) /\ Apart(r) /\ Ahead(r) /\ SnapshotsOK(r) /\ DriftsCovered(r)
  BY WorkingParts
<1>4. ObjectsOK(t) /\ SnapshotsOK(t) /\ DriftsCovered(t)
  BY <1>2, <1>3 DEF ObjectsOK, SnapshotsOK, DriftsCovered
<1>5. Ahead(t)
  BY <1>1, <1>2, <1>3 DEF Ahead
<1>6. \A k, l \in DOMAIN rest : rest[k] = rest[l] => k = l
  <2>1. \A k, l \in DOMAIN rest : r.vendors[k + 1] = r.vendors[l + 1] => k + 1 = l + 1
    BY <1>1, <1>3 DEF Apart
  <2> QED BY <1>1, <2>1
<1>7. Apart(t)
  BY <1>2, <1>3, <1>6 DEF Apart
<1>8. WorkingOK(t)
  BY <1>4, <1>5, <1>7, WorkingParts
<1> QED BY <1>a, <1>8 DEF t

\* A reading of the next vendor: what it raises concerns no alert in memory, and its
\* snapshot follows the newest one of the vendor.
LEMMA ReadingKeeps ==
    ASSUME TypeInv, NEW r \in SessionType, r.vendors # <<>>, r.specs = <<>>, WorkingOK(r),
           NEW reading \in Readings, NEW v, v = Head(r.vendors), NEW sn,
           sn = [vendor |-> v, at |-> clock + 1, exposure |-> ExposureIndex(reading),
                 services |-> reading.services, drift |-> Drift(reading, Previous(v))],
           NEW sp, sp = EvaluateSnapshot(v, reading, Previous(v)),
           NEW sns, sns = r.snaps \cup {sn}
    PROVE  WorkingOK(TakeReading(r, Tail(r.vendors), sp, sns))
<1>a. PICK rest : rest = Tail(r.vendors)
  OBVIOUS
<1>1. /\ rest \in Seq(Vendors) /\ v \in Vendors /\ 1 \in DOMAIN r.vendors /\ v = r.vendors[1]
      /\ \A k \in DOMAIN rest : k + 1 \in DOMAIN r.vendors /\ rest[k] = r.vendors[k + 1]
      /\ \A k \in DOMAIN rest : k \in Nat /\ k # 0
  <2>1. r.vendors \in Seq(Vendors)
    BY DEF SessionType
  <2>2. /\ rest \in Seq(Vendors) /\ v \in Vendors /\ 1 \in DOMAIN r.vendors /\ v = r.vendors[1]
        /\ \A k \in DOMAIN rest : k + 1 \in DOMAIN r.vendors /\ rest[k] = r.vendors[k + 1]
    BY <1>a, <2>1, Tailed
  <2>3. \A k \in DOMAIN rest : k \in Nat /\ k # 0
    BY <2>2
  <2> QED BY <2>2, <2>3
<1>b. PICK prev : prev = Previous(v)
  OBVIOUS
<1>2. /\ sn \in Snapshot /\ sn.vendor = v /\ sn.at = clock + 1
      /\ sn.exposure = ExposureIndex(reading) /\ sn.drift = Drift(reading, prev)
  BY <1>1, <1>b, SnapshotTyped
<1>3. /\ sp \in Seq(AlertSpec) /\ \A i \in DOMAIN sp : sp[i].vendor = v
      /\ \A i, j \in DOMAIN sp : SameKey(sp[i], sp[j]) => i = j
      /\ Raised(DriftKey, reading, prev) =>
           \E i \in DOMAIN sp : /\ sp[i].vendor = v /\ sp[i].key = DriftKey
                                /\ sp[i].severity = SeverityOf(DriftKey, reading, prev)
  BY <1>1, <1>b, FindingsKeyed
<1>4. sns \in SUBSET Snapshot
  BY <1>2 DEF SessionType
<1> DEFINE t == TakeReading(r, rest, sp, sns)
<1>5. t.vendors = rest /\ t.specs = sp /\ t.snaps = sns /\ t.objs = r.objs
  BY <1>1, <1>3, <1>4, WithReading
<1> HIDE DEF t
<1>6. ObjectsOK(r) /\ Apart(r) /\ Ahead(r) /\ SnapshotsOK(r) /\ DriftsCovered(r)
  BY WorkingParts
<1>7. /\ \A j \in DOMAIN r.objs : r.objs[j].row.vendor # v
      /\ \A p \in r.snaps : p.vendor # v
  BY <1>1, <1>6 DEF Ahead
<1>8. \A k, l \in DOMAIN rest : rest[k] = rest[l] => k = l
  <2>1. \A k, l \in DOMAIN rest : r.vendors[k + 1] = r.vendors[l + 1] => k + 1 = l + 1
    BY <1>1, <1>6 DEF Apart
  <2> QED BY <1>1, <2>1
<1>9. \A k \in DOMAIN rest : rest[k] # v
  <2>1. \A k \in DOMAIN rest : k + 1 # 1
    BY <1>1
  <2> QED BY <1>1, <1>6, <2>1 DEF Apart
<1>10. Apart(t)
  <2>1. \A i \in DOMAIN sp, j \in DOMAIN r.objs : ~SameKey(sp[i], r.objs[j].row)
    BY <1>3, <1>7 DEF SameKey
  <2> QED BY <1>3, <1>5, <1>6, <1>8, <2>1 DEF Apart
<1>11. Ahead(t)
  <2>1. ASSUME NEW k \in DOMAIN rest
        PROVE  /\ \A i \in DOMAIN sp : sp[i].vendor # rest[k]
               /\ \A j \in DOMAIN r.objs : r.objs[j].row.vendor # rest[k]
               /\ \A p \in sns : p.vendor # rest[k]
    BY <1>1, <1>2, <1>3, <1>6, <1>9 DEF Ahead
  <2> QED BY <1>5, <2>1 DEF Ahead
<1>12. TablesOK
  BY TypeInvParts
<1>13. SnapshotsOK(t)
  <2>1. \A p, q \in sns : p.vendor = q.vendor => p = q
    BY <1>2, <1>6, <1>7 DEF SnapshotsOK
  <2>2. \A q \in Of(v) : q.at < sn.at
    BY <1>2, <1>12 DEF Of, TablesOK
  <2>3. \/ Of(v) = {} /\ sn.drift = 0
        \/ \E q \in Of(v) : /\ \A o \in Of(v) : o.at <= q.at
                            /\ sn.drift = sn.exposure - q.exposure
    <3>1. CASE prev = {}
      <4>1. Of(v) = {}
        BY <3>1, <1>b, <1>12, PreviousIsLatest
      <4>2. sn.drift = 0
        BY <3>1, <1>2 DEF Drift
      <4> QED BY <4>1, <4>2
    <3>2. CASE prev # {}
      <4>a. PICK q : q = CHOOSE p \in prev : TRUE
        OBVIOUS
      <4>1. q \in prev
        BY <3>2, <4>a
      <4>2. q \in Of(v) /\ \A o \in Of(v) : o.at <= q.at
        BY <4>1, <1>b, <1>12, PreviousIsLatest
      <4>3. sn.drift = sn.exposure - q.exposure
        BY <1>2, <3>2, <4>a DEF Drift
      <4> QED BY <4>2, <4>3
    <3> QED BY <3>1, <3>2
  <2>4. \A p \in r.snaps :
           /\ \A q \in Of(p.vendor) : q.at < p.at
           /\ \/ Of(p.vendor) = {} /\ p.drift = 0
              \/ \E q \in Of(p.vendor) : /\ \A o \in Of(p.vendor) : o.at <= q.at
                                         /\ p.drift = p.exposure - q.exposure
    BY <1>6 DEF SnapshotsOK
  <2> QED BY <1>2, <1>5, <2>1, <2>2, <2>3, <2>4 DEF SnapshotsOK
<1>14. DriftsCovered(t)
  <2>1. ASSUME NEW p \in r.snaps, p.drift >= DriftWarning
        PROVE  \E i \in DOMAIN r.objs : Covers(r.objs[i].row, p)
    BY <1>6, <2>1 DEF DriftsCovered
  <2>2. ASSUME sn.drift >= DriftWarning
        PROVE  \E i \in DOMAIN sp : Covers(sp[i], sn)
    <3>1. prev # {}
      BY <1>2, <2>2 DEF Drift, DriftWarning
    <3>2. Raised(DriftKey, reading, prev)
      BY <1>2, <2>2, <3>1 DEF Raised, Drifted, DriftKey
    <3>3. PICK i \in DOMAIN sp : /\ sp[i].vendor = v /\ sp[i].key = DriftKey
                                 /\ sp[i].severity = SeverityOf(DriftKey, reading, prev)
      BY <1>3, <3>2
    <3>4. sp[i].severity = (IF sn.drift >= DriftCritical THEN Critical ELSE High)
      BY <1>2, <3>3 DEF SeverityOf, DriftKey
    <3>5. sp[i].severity >= (IF sn.drift >= DriftCritical THEN Critical ELSE High)
      BY <3>4 DEF Critical, High
    <3> QED BY <1>2, <3>3, <3>5 DEF Covers, DriftKey
  <2> QED BY <1>5, <2>1, <2>2 DEF DriftsCovered
<1>15. ObjectsOK(t)
  BY <1>5, <1>6 DEF ObjectsOK
<1>16. WorkingOK(t)
  BY SMTT(30), <1>10, <1>11, <1>13, <1>14, <1>15, WorkingParts
<1> QED BY <1>a, <1>16 DEF t

LEMMA SafeSweepVendor ==
    ASSUME MonitoringInv, NEW s \in Sessions, SweepVendor(s)
    PROVE  Safe' /\ SessionsOK'
<1>a. PICK r : r = sess[s]
  OBVIOUS
<1>1. /\ r \in SessionType /\ Ready(s, "vendor", r)
      /\ s \in Upserters => UpserterOK("vendor", r)
      /\ s \in Upserters \/ s \in Analysts
  BY <1>a, OwnParts DEF SweepVendor
<1>2. r.vendors # <<>> /\ r.specs = <<>> /\ s \notin Analysts /\ WorkingOK(r)
  <2>1. r.vendors # <<>> /\ r.specs = <<>> /\ s \notin Analysts
    BY <1>1 DEF Ready
  <2> QED BY <1>1, <2>1 DEF UpserterOK, Working
<1>3. UNCHANGED <<alerts, snapshots, sent>>
  BY DEF SweepVendor
<1>b. PICK v, rest : v = Head(r.vendors) /\ rest = Tail(r.vendors)
  OBVIOUS
<1>4. ASSUME NEW step \in {"select", "vendor", "commit"}, NEW t, WorkingOK(t), Move(s, step, t)
      PROVE  Safe' /\ SessionsOK'
  <2>1. UpserterOK(step, t)
    BY <1>4 DEF UpserterOK, Announcing
  <2> QED BY <1>2, <1>3, <1>4, <2>1, SilentMove
<1>5. CASE Move(s, NextStep(<<>>, rest), [r EXCEPT !.vendors = rest])
  <2>a. PICK step, t : step = NextStep(<<>>, rest) /\ t = SkipVendor(r, rest)
    OBVIOUS
  <2>1. Move(s, step, t)
    BY <1>5, <2>a DEF SkipVendor
  <2>2. WorkingOK(t)
    BY <1>1, <1>2, <1>b, <2>a, SkipKeeps
  <2>3. step \in {"select", "vendor", "commit"}
    BY <2>a, NextStepFacts
  <2> QED BY <1>4, <2>1, <2>2, <2>3
<1>6. ASSUME NEW reading \in Readings,
             Move(s, NextStep(EvaluateSnapshot(v, reading, Previous(v)), rest),
                  [r EXCEPT !.vendors = rest, !.specs = EvaluateSnapshot(v, reading, Previous(v)),
                            !.snaps = @ \cup
                               {[vendor |-> v, at |-> clock + 1, exposure |-> ExposureIndex(reading),
                                 services |-> reading.services,
                                 drift |-> Drift(reading, Previous(v))]}])
      PROVE  Safe' /\ SessionsOK'
  <2>a. PICK sp, sn : /\ sp = EvaluateSnapshot(v, reading, Previous(v))
                      /\ sn = [vendor |-> v, at |-> clock + 1,
                               exposure |-> ExposureIndex(reading),
                               services |-> reading.services,
                               drift |-> Drift(reading, Previous(v))]
    OBVIOUS
  <2>b. PICK sns : sns = r.snaps \cup {sn}
    OBVIOUS
  <2>c. PICK step, t : step = NextStep(sp, rest) /\ t = TakeReading(r, rest, sp, sns)
    OBVIOUS
  <2>1. Move(s, step, t)
    BY <1>1, <1>6, <2>a, <2>b, <2>c DEF SessionType, TakeReading
  <2>2. WorkingOK(t)
    BY <1>1, <1>2, <1>b, <2>a, <2>b, <2>c, Parts, ReadingKeeps
  <2>3. step \in {"select", "vendor", "commit"}
    BY <2>c, NextStepFacts
  <2> QED BY <1>4, <2>1, <2>2, <2>3
<1> QED BY <1>a, <1>b, <1>5, <1>6 DEF SweepVendor

\* The next finding becomes an alert in memory.
LEMMA PutKeeps ==
    ASSUME TypeInv, NEW r \in SessionType, r.specs # <<>>, WorkingOK(r), NEW o \in Held,
           SameKey(o.row, Head(r.specs)), o.row.severity >= Head(r.specs).severity,
           IF o.new THEN InsertOK(o) ELSE UpdateOK(o),
           \A j \in DOMAIN r.objs : r.objs[j].id # o.id
    PROVE  WorkingOK(PutObject(r, Tail(r.specs), o))
<1>a. PICK spec, rest : spec = Head(r.specs) /\ rest = Tail(r.specs)
  OBVIOUS
<1>1. r.specs \in Seq(AlertSpec) /\ r.objs \in Seq(Held)
  BY DEF SessionType
<1>2. /\ rest \in Seq(AlertSpec) /\ spec \in AlertSpec
      /\ 1 \in DOMAIN r.specs /\ spec = r.specs[1]
      /\ \A i \in DOMAIN rest : i + 1 \in DOMAIN r.specs /\ rest[i] = r.specs[i + 1]
      /\ \A i \in DOMAIN rest : i \in Nat /\ i + 1 # 1
  <2>1. /\ rest \in Seq(AlertSpec) /\ spec \in AlertSpec
        /\ 1 \in DOMAIN r.specs /\ spec = r.specs[1]
        /\ \A i \in DOMAIN rest : i + 1 \in DOMAIN r.specs /\ rest[i] = r.specs[i + 1]
    BY <1>a, <1>1, Tailed
  <2>2. \A i \in DOMAIN rest : i \in Nat /\ i + 1 # 1
    BY <2>1
  <2> QED BY <2>1, <2>2
<1> DEFINE t == PutObject(r, rest, o)
<1>3. /\ t.specs = rest /\ t.objs = Append(r.objs, o)
      /\ t.vendors = r.vendors /\ t.snaps = r.snaps
  BY <1>2, WithObject
<1> HIDE DEF t
<1>4. /\ \A i \in DOMAIN t.objs :
            \/ i \in DOMAIN r.objs /\ t.objs[i] = r.objs[i]
            \/ i = Len(r.objs) + 1 /\ t.objs[i] = o
      /\ \A i \in DOMAIN r.objs : i \in DOMAIN t.objs /\ t.objs[i] = r.objs[i]
      /\ Len(r.objs) + 1 \in DOMAIN t.objs /\ t.objs[Len(r.objs) + 1] = o
  <2>1. /\ \A i \in DOMAIN Append(r.objs, o) :
              \/ i \in DOMAIN r.objs /\ Append(r.objs, o)[i] = r.objs[i]
              \/ i = Len(r.objs) + 1 /\ Append(r.objs, o)[i] = o
        /\ \A i \in DOMAIN r.objs :
              i \in DOMAIN Append(r.objs, o) /\ Append(r.objs, o)[i] = r.objs[i]
        /\ Append(r.objs, o)[Len(r.objs) + 1] = o
    BY <1>1, Appended
  <2>2. Len(r.objs) + 1 \in DOMAIN Append(r.objs, o)
    BY <1>1
  <2> QED BY <1>3, <2>1, <2>2
<1>5. ObjectsOK(r) /\ Apart(r) /\ Ahead(r) /\ SnapshotsOK(r) /\ DriftsCovered(r)
  BY WorkingParts
<1>6. ObjectsOK(t)
  BY <1>4, <1>5 DEF ObjectsOK
<1>7. /\ \A j \in DOMAIN r.objs : ~SameKey(o.row, r.objs[j].row) /\ ~SameKey(r.objs[j].row, o.row)
      /\ \A i \in DOMAIN rest : ~SameKey(rest[i], o.row)
  <2>1. \A j \in DOMAIN r.objs : ~SameKey(spec, r.objs[j].row)
    BY <1>2, <1>5 DEF Apart
  <2>2. \A i \in DOMAIN rest : ~SameKey(rest[i], spec)
    BY <1>2, <1>5 DEF Apart
  <2> QED BY <1>a, <2>1, <2>2 DEF SameKey
<1>8. Apart(t)
  <2>1. ASSUME NEW i \in DOMAIN t.objs, NEW j \in DOMAIN t.objs,
               t.objs[i].id = t.objs[j].id \/ SameKey(t.objs[i].row, t.objs[j].row)
        PROVE  i = j
    <3>1. CASE /\ i \in DOMAIN r.objs /\ t.objs[i] = r.objs[i]
               /\ j \in DOMAIN r.objs /\ t.objs[j] = r.objs[j]
      BY <2>1, <3>1, <1>5 DEF Apart
    <3>2. CASE i \in DOMAIN r.objs /\ t.objs[i] = r.objs[i] /\ t.objs[j] = o
      BY <2>1, <3>2, <1>7
    <3>3. CASE t.objs[i] = o /\ j \in DOMAIN r.objs /\ t.objs[j] = r.objs[j]
      BY <2>1, <3>3, <1>7
    <3> QED BY <1>4, <3>1, <3>2, <3>3
  <2>2. \A i, j \in DOMAIN rest : SameKey(rest[i], rest[j]) => i = j
    <3>1. \A i, j \in DOMAIN rest : SameKey(rest[i], rest[j]) => i + 1 = j + 1
      BY <1>2, <1>5 DEF Apart
    <3> QED BY <1>2, <3>1
  <2>3. \A i \in DOMAIN rest, j \in DOMAIN t.objs : ~SameKey(rest[i], t.objs[j].row)
    <3>1. \A i \in DOMAIN rest, j \in DOMAIN r.objs : ~SameKey(rest[i], r.objs[j].row)
      BY <1>2, <1>5 DEF Apart
    <3> QED BY <1>4, <1>7, <3>1
  <2> QED BY <1>3, <1>5, <2>1, <2>2, <2>3 DEF Apart
<1>9. Ahead(t)
  <2>1. ASSUME NEW k \in DOMAIN r.vendors
        PROVE  /\ \A i \in DOMAIN rest : rest[i].vendor # r.vendors[k]
               /\ \A j \in DOMAIN t.objs : t.objs[j].row.vendor # r.vendors[k]
    <3>1. spec.vendor # r.vendors[k] /\ \A i \in DOMAIN rest : rest[i].vendor # r.vendors[k]
      BY <1>2, <1>5 DEF Ahead
    <3>2. o.row.vendor # r.vendors[k]
      BY <1>a, <3>1 DEF SameKey
    <3>3. \A j \in DOMAIN r.objs : r.objs[j].row.vendor # r.vendors[k]
      BY <1>5 DEF Ahead
    <3> QED BY <1>4, <3>1, <3>2, <3>3
  <2> QED BY <1>3, <1>5, <2>1 DEF Ahead
<1>10. SnapshotsOK(t)
  BY <1>3, <1>5 DEF SnapshotsOK
<1>11. DriftsCovered(t)
  <2>1. ASSUME NEW p \in r.snaps, p.drift >= DriftWarning
        PROVE  \/ \E i \in DOMAIN rest : Covers(rest[i], p)
               \/ \E i \in DOMAIN t.objs : Covers(t.objs[i].row, p)
    <3>1. CASE \E i \in DOMAIN r.objs : Covers(r.objs[i].row, p)
      BY <1>4, <3>1
    <3>2. ASSUME NEW i \in DOMAIN r.specs, Covers(r.specs[i], p), i # 1
          PROVE  \E j \in DOMAIN rest : Covers(rest[j], p)
      <4>1. i - 1 \in DOMAIN rest
        BY <1>a, <1>1, <3>2
      <4>2. rest[i - 1] = r.specs[(i - 1) + 1] /\ (i - 1) + 1 = i
        BY <1>1, <1>2, <4>1
      <4> QED BY <3>2, <4>1, <4>2
    <3>3. ASSUME Covers(spec, p)
          PROVE  Covers(o.row, p)
      <4>a. PICK x, y, z : /\ x = spec.severity /\ y = o.row.severity
                           /\ z = (IF p.drift >= DriftCritical THEN Critical ELSE High)
        OBVIOUS
      <4>1. x \in Int /\ y \in Int /\ z \in Int
        BY <1>2, <4>a DEF AlertSpec, Held, Row, SeverityRanks, Critical, High
      <4>2. x >= z /\ y >= x
        BY <1>a, <3>3, <4>a DEF Covers
      <4>3. y >= z
        BY <4>1, <4>2
      <4> QED BY <1>a, <3>3, <4>3, <4>a DEF Covers, SameKey
    <3> QED BY <1>2, <1>4, <1>5, <2>1, <3>1, <3>2, <3>3 DEF DriftsCovered
  <2> QED BY <1>3, <2>1 DEF DriftsCovered
<1>12. WorkingOK(t)
  BY <1>6, <1>8, <1>9, <1>10, <1>11, WorkingParts
<1> QED BY <1>a, <1>12 DEF t

LEMMA SafeSelectAlert ==
    ASSUME MonitoringInv, NEW s \in Sessions, SelectAlert(s)
    PROVE  Safe' /\ SessionsOK'
<1>a. PICK r : r = sess[s]
  OBVIOUS
<1>b. PICK spec, rest : spec = Head(r.specs) /\ rest = Tail(r.specs)
  OBVIOUS
<1>1. /\ r \in SessionType /\ Ready(s, "select", r) /\ Numbered("select", r) /\ TablesOK
      /\ s \in Upserters => UpserterOK("select", r)
      /\ s \in Upserters \/ s \in Analysts
  BY <1>a, OwnParts DEF SelectAlert
<1>2. r.specs \in Seq(AlertSpec) /\ r.specs # <<>> /\ r.objs \in Seq(Held)
  BY <1>1 DEF Ready, SessionType
<1>3. spec \in AlertSpec /\ 1 \in DOMAIN r.specs /\ spec = r.specs[1]
  BY <1>b, <1>2
<1>4. s \notin Analysts /\ WorkingOK(r)
  <2>1. s \notin Analysts
    BY <1>1 DEF Ready
  <2> QED BY <1>1, <2>1 DEF UpserterOK, Working
<1>5. UNCHANGED <<alerts, snapshots, sent>>
  BY DEF SelectAlert
<1>6. ASSUME NEW step \in {"select", "vendor", "commit", "flush"}, NEW t, WorkingOK(t),
             Move(s, step, t)
      PROVE  Safe' /\ SessionsOK'
  <2>1. UpserterOK(step, t)
    BY <1>6 DEF UpserterOK, Announcing
  <2> QED BY <1>4, <1>5, <1>6, <2>1, SilentMove
<1>7. ASSUME FindExisting(spec) = {},
             Move(s, NextStep(rest, r.vendors),
                  [r EXCEPT !.specs = rest, !.objs =
                      Append(@, [id |-> alertSeq + 1, new |-> TRUE,
                                 read |-> NewAlert(spec), row |-> NewAlert(spec)])])
      PROVE  Safe' /\ SessionsOK'
  <2>a. PICK row, n : row = NewAlert(spec) /\ n = alertSeq + 1
    OBVIOUS
  <2>b. PICK o : o = [id |-> n, new |-> TRUE, read |-> row, row |-> row]
    OBVIOUS
  <2>c. PICK step, t : step = NextStep(rest, r.vendors) /\ t = PutObject(r, rest, o)
    OBVIOUS
  <2>1. Move(s, step, t)
    BY <1>7, <2>a, <2>b, <2>c DEF PutObject
  <2>2. row \in Row /\ SameKey(row, spec) /\ row.severity = spec.severity /\ row.published = FALSE
    BY <1>3, <2>a, NewAlertRow DEF SameKey
  <2>3. n \in Nat /\ n \notin 1..alertSeq /\ n \notin DOMAIN alerts
    BY <1>1, <2>a DEF TablesOK
  <2>4. o \in Held /\ o.id = n /\ o.new = TRUE /\ o.row = row
    BY <2>b, <2>2, <2>3 DEF Held
  <2>5. InsertOK(o)
    <3>1. \A k \in Unresolved : ~SameKey(alerts[k], spec)
      BY <1>7 DEF FindExisting, Matches, Unresolved, SameKey
    <3>2. \A k \in Unresolved : ~SameKey(alerts[k], row)
      BY <2>2, <3>1 DEF SameKey
    <3> QED BY <2>2, <2>3, <2>4, <3>2 DEF InsertOK
  <2>6. \A j \in DOMAIN r.objs : r.objs[j].id # o.id
    BY <1>1, <2>3, <2>4 DEF Numbered
  <2>7. row.severity >= spec.severity
    BY <1>3, <2>2 DEF AlertSpec, SeverityRanks
  <2>8. WorkingOK(t)
    BY <1>1, <1>2, <1>4, <1>b, <2>2, <2>4, <2>5, <2>6, <2>7, <2>c, Parts, PutKeeps
  <2>9. step \in {"select", "vendor", "commit", "flush"}
    BY <2>c, NextStepFacts
  <2> QED BY <1>6, <2>1, <2>8, <2>9
<1>8. ASSUME NEW n \in FindExisting(spec),
             Move(s, "flush", [r EXCEPT !.specs = rest, !.objs =
                                  Append(@, [Loaded(n) EXCEPT !.row = Bump(@, spec)])])
      PROVE  Safe' /\ SessionsOK'
  <2>a. PICK old : old = alerts[n]
    OBVIOUS
  <2>b. PICK row : row = Bump(old, spec)
    OBVIOUS
  <2>c. PICK o : o = InMemory(n, row)
    OBVIOUS
  <2>d. PICK t : t = PutObject(r, rest, o)
    OBVIOUS
  <2>1. n \in DOMAIN alerts /\ old \in Row /\ SameKey(old, spec)
    BY <1>1, <1>8, <2>a DEF FindExisting, TablesOK, Matches, SameKey
  <2>2. /\ row \in Row /\ row.vendor = old.vendor /\ row.key = old.key /\ row.status = old.status
        /\ row.severity >= old.severity /\ row.severity >= spec.severity /\ row.published = FALSE
    BY <1>3, <2>1, <2>b, BumpRow
  <2>3. o \in Held /\ o.id = n /\ o.new = FALSE /\ o.read = alerts[n] /\ o.row = row
    BY <2>1, <2>2, <2>c, Parts, LoadedObject
  <2>4. Move(s, "flush", t)
    BY <1>8, <2>a, <2>b, <2>c, <2>d DEF Loaded, InMemory, PutObject
  <2>5. UpdateOK(o)
    <3>1. old.severity <= row.severity
      BY <2>1, <2>2 DEF Row, SeverityRanks
    <3> QED BY <2>2, <2>3, <2>a, <3>1 DEF UpdateOK, SameKey
  <2>6. ASSUME NEW j \in DOMAIN r.objs
        PROVE  r.objs[j].id # o.id
    <3>1. ~SameKey(spec, r.objs[j].row)
      BY <1>3, <1>4 DEF WorkingOK, Apart
    <3>2. IF r.objs[j].new THEN InsertOK(r.objs[j]) ELSE UpdateOK(r.objs[j])
      BY <1>4 DEF WorkingOK, ObjectsOK
    <3> QED BY <2>1, <2>3, <2>a, <3>1, <3>2 DEF InsertOK, UpdateOK, SameKey
  <2>7. SameKey(row, spec)
    BY <2>1, <2>2 DEF SameKey
  <2>8. WorkingOK(t)
    BY <1>1, <1>2, <1>4, <1>b, <2>2, <2>3, <2>5, <2>6, <2>7, <2>d, Parts, PutKeeps
  <2> QED BY <1>6, <2>4, <2>8
<1> QED BY <1>a, <1>b, <1>7, <1>8 DEF SelectAlert

------------------------------------------------------------------------------
(* The invariant, and what it gives.                                       *)

LEMMA SafeInit == Init => MonitoringInv
<1> SUFFICES ASSUME Init PROVE MonitoringInv
  OBVIOUS
<1>1. DOMAIN alerts = {} /\ snapshots = {} /\ DOMAIN sent = {}
  BY DEF Init
<1>2. Safe
  BY <1>1 DEF Safe, OneOpenAlert, Unresolved, DriftIsDelta, DriftAlerts, MessagesAreCommitted,
              PublishedIsAnnounced
<1>3. \A s \in Sessions : pc[s] = "idle" /\ sess[s] = NoSession
  BY DEF Init
<1>4. UpserterOK("idle", NoSession) /\ AnalystOK(NoSession)
  BY DEF UpserterOK, Working, Announcing, AnalystOK, NoSession
<1>5. SessionsOK
  BY <1>3, <1>4 DEF SessionsOK, Upserters, Sessions
<1> QED BY <1>2, <1>5, TypeInit DEF MonitoringInv

LEMMA SafeIdle ==
    ASSUME MonitoringInv, UNCHANGED vars
    PROVE  Safe' /\ SessionsOK'
<1>1. /\ alerts' = alerts /\ snapshots' = snapshots /\ sent' = sent
      /\ pc' = pc /\ sess' = sess
  BY DEF vars, dbVars
<1>2. \A n : Announced(n) => Announced(n)'
  BY <1>1 DEF Announced
<1>3. Safe'
  <2>1. OneOpenAlert' /\ DriftIsDelta' /\ DriftAlerts'
    BY <1>1, Parts DEF OneOpenAlert, Unresolved, DriftIsDelta, Older, DriftAlerts
  <2>2. MessagesAreCommitted' /\ PublishedIsAnnounced'
    BY <1>1, Parts DEF MessagesAreCommitted, PublishedIsAnnounced
  <2> QED BY <2>1, <2>2 DEF Safe
<1>4. ASSUME NEW t \in Upserters
      PROVE  UpserterOK(pc[t], sess[t])'
  <2>a. PICK st, q : st = pc[t] /\ q = sess[t]
    OBVIOUS
  <2>1. UpserterOK(st, q)
    BY <2>a, Parts DEF SessionsOK
  <2>2. UpserterOK(st, q)'
    BY <1>1, <1>2, <2>1, UpserterKept
  <2> QED BY <1>1, <2>2, <2>a
<1>5. ASSUME NEW t \in Analysts
      PROVE  AnalystOK(sess[t])'
  <2>a. PICK q : q = sess[t]
    OBVIOUS
  <2>1. AnalystOK(q)
    BY <2>a, Parts DEF SessionsOK
  <2>2. AnalystOK(q)'
    BY <1>1, <2>1, AnalystKept
  <2> QED BY <1>1, <2>2, <2>a
<1> QED BY <1>3, <1>4, <1>5 DEF SessionsOK

LEMMA SafeStep ==
    ASSUME OneWriter, MonitoringInv, NEW s \in Sessions, Step(s) \/ Crash(s)
    PROVE  Safe' /\ SessionsOK'
<1>1. CASE DeadlockVictim(s)
  BY <1>1, SafeFinish DEF DeadlockVictim, dbVars
<1>2. CASE Crash(s)
  BY <1>2, SafeFinish DEF Crash, dbVars
<1>3. CASE Commit(s)
  BY <1>3, SafeUpserterCommit, SafeAnalystCommit DEF Upserters, Sessions
<1> QED BY <1>1, <1>2, <1>3, SafeSweepVendor, SafeSelectAlert, SafeFlushAlert, SafeRefresh,
           SafePublishAlert, SafePublishDone, SafeFlagAlert, SafeCommitFlags DEF Step

LEMMA SafeNext == OneWriter /\ MonitoringInv /\ [Next]_vars => MonitoringInv'
<1> SUFFICES ASSUME OneWriter, MonitoringInv, [Next]_vars
             PROVE  MonitoringInv'
  OBVIOUS
<1>1. TypeInv'
  BY Parts, TypeNext
<1>2. ASSUME NEW s \in Sweepers, StartSweep(s)
      PROVE  Safe' /\ SessionsOK'
  BY <1>2, SafeStartSweep
<1>3. ASSUME NEW c \in Consumers, HandleEvent(c)
      PROVE  Safe' /\ SessionsOK'
  BY <1>3, SafeHandleEvent
<1>4. ASSUME NEW h \in Analysts, Acknowledge(h) \/ Resolve(h)
      PROVE  Safe' /\ SessionsOK'
  BY <1>4, SafeAcknowledge, SafeResolve
<1>5. ASSUME NEW s \in Sessions, Step(s) \/ Crash(s)
      PROVE  Safe' /\ SessionsOK'
  BY <1>5, SafeStep
<1>6. ASSUME UNCHANGED vars
      PROVE  Safe' /\ SessionsOK'
  BY <1>6, SafeIdle
<1>7. Safe' /\ SessionsOK'
  BY <1>2, <1>3, <1>4, <1>5, <1>6 DEF Next, Quiescent
<1> QED BY <1>1, <1>7 DEF MonitoringInv

\* With one session that upserts alerts and one analyst at a time, a vendor has at
\* most one unresolved alert for a dedup key: upsert_alert's query and its insert
\* cannot be separated by another insert, and nobody reopens a resolved alert.
THEOREM OneAlertPerKey ==
    ASSUME OneWriter
    PROVE  Spec => []OneOpenAlert
<1>1. MonitoringInv => OneOpenAlert
  BY Parts
<1> QED BY OneWriter, SafeInit, SafeNext, <1>1, PTL DEF Spec

\* The drift that sweep_vendor stores is the difference to the snapshot before,
\* also when sweeps are rolled back and numbers of snapshots are lost.
THEOREM DriftIsStepwise ==
    ASSUME OneWriter
    PROVE  Spec => []DriftIsDelta
<1>1. MonitoringInv => DriftIsDelta
  BY Parts
<1> QED BY OneWriter, SafeInit, SafeNext, <1>1, PTL DEF Spec

\* Every committed deterioration has its alert: sweep_vendor stores the snapshot and
\* upserts the alert in one transaction, and later writes never lower a severity.
THEOREM NoSilentDrift ==
    ASSUME OneWriter
    PROVE  Spec => []DriftAlerts
<1>1. MonitoringInv => DriftAlerts
  BY Parts
<1> QED BY OneWriter, SafeInit, SafeNext, <1>1, PTL DEF Spec

\* What publish_alerts and _handle_event send is about a committed alert, and not
\* worse than it.
THEOREM NoPhantomMessage ==
    ASSUME OneWriter
    PROVE  Spec => []MessagesAreCommitted
<1>1. MonitoringInv => MessagesAreCommitted
  BY Parts
<1> QED BY OneWriter, SafeInit, SafeNext, <1>1, PTL DEF Spec

\* A mark stands for a message with the severity of the alert: the second
\* transaction of a sweep marks what it has sent, and every repeat clears the mark.
THEOREM MarkMeansSent ==
    ASSUME OneWriter
    PROVE  Spec => []PublishedIsAnnounced
<1>1. MonitoringInv => PublishedIsAnnounced
  BY Parts
<1> QED BY OneWriter, SafeInit, SafeNext, <1>1, PTL DEF Spec
=============================================================================
