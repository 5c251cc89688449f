-------------------------- MODULE StoreAgreementProofs --------------------------
(***************************************************************************)
(* Proofs about StoreAgreement for every set of names and families and any *)
(* number of calls: what the tables of PostgresStore keep of a case, of a  *)
(* training record, of a probe that runs and of a device that was revoked. *)
(***************************************************************************)
EXTENDS StoreAgreement, SequenceTheorems, WellFoundedInduction, TLAPS

(* The tables the proof follows: those of both stores for the runs and the *)
(* devices, which the handlers read in one and write in both.              *)
HasTables ==
  /\ {"investigations", "training", "probes", "devices", "tokens"} \subseteq DOMAIN pg
  /\ {"probes", "devices", "tokens"} \subseteq DOMAIN mem

(* The identifier is the primary key. *)
Keyed(T) == \A a, b \in T : a.id = b.id => a = b

CasesInv ==
  /\ pg.investigations \subseteq Cases
  /\ Keyed(pg.investigations)
  /\ \A r \in pg.investigations : r.at <= now

TrainingInv ==
  /\ \A t \in pg.training : {"id", "outcomes"} \subseteq DOMAIN t
  /\ Keyed(pg.training)

(* The runs the handlers start from are those memory holds. *)
ProbesInv ==
  /\ pg.probes \subseteq ProbeRuns
  /\ Keyed(pg.probes)
  /\ mem.probes \in Seq(ProbeRuns)
  /\ \A i \in DOMAIN mem.probes : mem.probes[i].trigger \in DOMAIN P!ProbeColumns["trigger"]

(* No device is registered anew in one store while the other knows it. *)
DevicesInv ==
  /\ \A d \in pg.devices : {"id", "revoked"} \subseteq DOMAIN d
  /\ Keyed(pg.devices)
  /\ mem.devices \in Seq(Devices)
  /\ \A d \in pg.devices : \E i \in DOMAIN mem.devices : mem.devices[i].id = d.id

IInv == now \in Nat /\ HasTables /\ CasesInv /\ TrainingInv /\ ProbesInv /\ DevicesInv

(* A step that touches none of these tables *)
Elsewhere ==
  /\ HasTables' /\ now' = now + 1
  /\ pg'.investigations = pg.investigations /\ pg'.training = pg.training
  /\ pg'.probes = pg.probes /\ mem'.probes = mem.probes
  /\ pg'.devices = pg.devices /\ mem'.devices = mem.devices

-----------------------------------------------------------------------------
(* The calls of the other repositories                                       *)

LEMMA RegistryElsewhere ==
  ASSUME HasTables,
         \/ UpsertAsset \/ SaveDrift \/ SaveCertificate \/ RecordHeartbeat \/ SaveFinding \/ LinkAsset
         \/ SaveSession \/ SaveObservation
  PROVE  Elsewhere
<1>1. CASE UpsertAsset
  BY <1>1 DEF HasTables, Elsewhere, Time, UpsertAsset, Write, Call, M!UpsertAsset, P!UpsertAsset
<1>2. CASE SaveDrift
  BY <1>2 DEF HasTables, Elsewhere, Time, SaveDrift, Ask, Call, M!SaveDrift, P!SaveDrift
<1>3. CASE SaveCertificate
  BY <1>3 DEF HasTables, Elsewhere, Time, SaveCertificate, Write, Call, M!SaveCertificate, P!SaveCertificate
<1>4. CASE RecordHeartbeat
  BY <1>4 DEF HasTables, Elsewhere, Time, RecordHeartbeat, Write, Call, M!RecordHeartbeat, P!RecordHeartbeat
<1>5. CASE SaveFinding
  <2>1. PICK f : pg' = P!SaveFinding(pg, f).db /\ mem' = M!SaveFinding(mem, f).db
    BY <1>5, Zenon DEF SaveFinding, Ask, Call
  <2>2. PICK t, u : pg' = [pg EXCEPT !.findings = t, !.evidence = u]
    BY <2>1 DEF P!SaveFinding
  <2>3. mem' = mem \/ \E v : mem' = [mem EXCEPT !.findings = v]
    <3>1. CASE M!ById(mem.findings, f.id) # None /\ M!ById(mem.findings, f.id).rule # f.rule
      BY <2>1, <3>1 DEF M!SaveFinding
    <3>2. CASE ~(M!ById(mem.findings, f.id) # None /\ M!ById(mem.findings, f.id).rule # f.rule)
      BY <2>1, <3>2 DEF M!SaveFinding
    <3> QED
      BY <3>1, <3>2
  <2>4. now' = now + 1
    BY <1>5 DEF SaveFinding, Ask, Call, Time
  <2> QED
    BY <2>2, <2>3, <2>4 DEF HasTables, Elsewhere
<1>6. CASE LinkAsset
  BY <1>6 DEF HasTables, Elsewhere, Time, LinkAsset, Ask, Call, M!LinkAsset, P!LinkAsset
<1>7. CASE SaveSession
  BY <1>7 DEF HasTables, Elsewhere, Time, SaveSession, Ask, Call, M!SaveSession, P!SaveSession
<1>8. CASE SaveObservation
  BY <1>8 DEF HasTables, Elsewhere, Time, SaveObservation, Ask, Call, M!SaveObservation, P!SaveObservation
<1> QED
  BY <1>1, <1>2, <1>3, <1>4, <1>5, <1>6, <1>7, <1>8

LEMMA IntelligenceElsewhere ==
  ASSUME HasTables,
         \/ SaveMx \/ SaveTlsa \/ SaveMtaSts \/ SaveTlsRpt \/ SaveReport \/ SaveCt \/ SaveCtEvent
         \/ SaveRefresh \/ SaveBaseline \/ SaveAnomaly
  PROVE  Elsewhere
<1>1. CASE SaveMx
  BY <1>1 DEF HasTables, Elsewhere, Time, SaveMx, Write, Call, M!SaveMx, P!SaveMx
<1>2. CASE SaveTlsa
  BY <1>2 DEF HasTables, Elsewhere, Time, SaveTlsa, Write, Call, M!SaveTlsa, P!SaveTlsa
<1>3. CASE SaveMtaSts
  BY <1>3 DEF HasTables, Elsewhere, Time, SaveMtaSts, Write, Call, M!SaveMtaSts, P!SaveMtaSts
<1>4. CASE SaveTlsRpt
  BY <1>4 DEF HasTables, Elsewhere, Time, SaveTlsRpt, Write, Call, M!SaveTlsRpt, P!SaveTlsRpt
<1>5. CASE SaveReport
  BY <1>5 DEF HasTables, Elsewhere, Time, SaveReport, Write, Call, M!SaveReport, P!SaveReport
<1>6. CASE SaveCt
  <2>1. PICK t : pg' = [pg EXCEPT !.ct = t]
    BY <1>6, Zenon DEF SaveCt, Write, Call, P!SaveCt
  <2>2. mem' = mem \/ \E v : mem' = [mem EXCEPT !.ct = v]
    BY <1>6 DEF SaveCt, Write, Call, M!SaveCt
  <2>3. now' = now + 1
    BY <1>6 DEF SaveCt, Write, Call, Time
  <2> QED
    BY <2>1, <2>2, <2>3 DEF HasTables, Elsewhere
<1>7. CASE SaveCtEvent
  BY <1>7 DEF HasTables, Elsewhere, Time, SaveCtEvent, Write, Call, M!SaveCtEvent, P!SaveCtEvent
<1>8. CASE SaveRefresh
  BY <1>8 DEF HasTables, Elsewhere, Time, SaveRefresh, Write, Call, M!SaveRefresh, P!SaveRefresh
<1>9. CASE SaveBaseline
  BY <1>9 DEF HasTables, Elsewhere, Time, SaveBaseline, Write, Call, M!SaveBaseline, P!SaveBaseline
<1>10. CASE SaveAnomaly
  BY <1>10 DEF HasTables, Elsewhere, Time, SaveAnomaly, Write, Call, M!SaveAnomaly, P!SaveAnomaly
<1> QED
  BY <1>1, <1>2, <1>3, <1>4, <1>5, <1>6, <1>7, <1>8, <1>9, <1>10

LEMMA CaseElsewhere ==
  ASSUME HasTables, SaveDecision \/ CreateRemediation \/ UpdateRemediation \/ SavePosture
  PROVE  Elsewhere
<1>1. CASE SaveDecision
  BY <1>1 DEF HasTables, Elsewhere, Time, SaveDecision, Write, Call, M!SaveDecision, P!SaveDecision
<1>2. CASE CreateRemediation
  BY <1>2 DEF HasTables, Elsewhere, Time, CreateRemediation, Ask, Call, M!CreateRemediation, P!CreateRemediation
<1>3. CASE UpdateRemediation
  <2>1. PICK m, e : pg' = P!UpdateRemediation(pg, m, e).db /\ mem' = M!UpdateRemediation(mem, m, e).db
    BY <1>3, Zenon DEF UpdateRemediation, Ask, Call
  <2>2. PICK t : pg' = [pg EXCEPT !.remediations = t]
    BY <2>1 DEF P!UpdateRemediation
  <2>3. mem' = mem \/ \E v : mem' = [mem EXCEPT !.remediations = v]
    <3> DEFINE Current(r) == r.id = m.id /\ r.revision = e
    <3>1. CASE M!Find(mem.remediations, Current) = None
      BY <2>1, <3>1 DEF M!UpdateRemediation
    <3>2. CASE M!Find(mem.remediations, Current) # None
      BY <2>1, <3>2 DEF M!UpdateRemediation
    <3> QED
      BY <3>1, <3>2
  <2>4. now' = now + 1
    BY <1>3 DEF UpdateRemediation, Ask, Call, Time
  <2> QED
    BY <2>2, <2>3, <2>4 DEF HasTables, Elsewhere
<1>4. CASE SavePosture
  BY <1>4 DEF HasTables, Elsewhere, Time, SavePosture, Write, Call, M!SavePosture, P!SavePosture
<1> QED
  BY <1>1, <1>2, <1>3, <1>4

LEMMA WorkspaceElsewhere ==
  ASSUME HasTables,
         \/ SaveIntegration \/ UpdateIntegration \/ DeleteIntegration \/ Archive \/ SaveAssessment
         \/ AddMember \/ SaveOrganization
  PROVE  Elsewhere
<1>1. CASE SaveIntegration
  BY <1>1 DEF HasTables, Elsewhere, Time, SaveIntegration, Write, Call, M!SaveIntegration, P!SaveIntegration
<1>2. CASE UpdateIntegration
  BY <1>2 DEF HasTables, Elsewhere, Time, UpdateIntegration, Write, Call, M!UpdateIntegration, P!UpdateIntegration
<1>3. CASE DeleteIntegration
  BY <1>3 DEF HasTables, Elsewhere, Time, DeleteIntegration, Ask, Call, M!DeleteIntegration, P!DeleteIntegration
<1>4. CASE Archive
  BY <1>4 DEF HasTables, Elsewhere, Time, Archive, Write, Call, M!Archive, P!Archive
<1>5. CASE SaveAssessment
  <2>1. PICK a : pg' = P!SaveAssessment(pg, a) /\ mem' = M!SaveAssessment(mem, a)
    BY <1>5, Zenon DEF SaveAssessment, Write, Call
  <2>2. PICK t : pg' = [pg EXCEPT !.assessments = t]
    BY <2>1, Zenon DEF P!SaveAssessment
  <2>3. PICK v : mem' = [mem EXCEPT !.assessments = v]
    BY <2>1, Zenon DEF M!SaveAssessment
  <2>4. now' = now + 1
    BY <1>5 DEF SaveAssessment, Write, Call, Time
  <2> QED
    BY <2>2, <2>3, <2>4 DEF HasTables, Elsewhere
<1>6. CASE AddMember
  <2>1. PICK t : pg' = [pg EXCEPT !.members = t]
    BY <1>6, Zenon DEF AddMember, Write, Call, P!AddMember
  <2>2. mem' = mem \/ \E v : mem' = [mem EXCEPT !.members = v]
    BY <1>6 DEF AddMember, Write, Call, M!AddMember
  <2>3. now' = now + 1
    BY <1>6 DEF AddMember, Write, Call, Time
  <2> QED
    BY <2>1, <2>2, <2>3 DEF HasTables, Elsewhere
<1>7. CASE SaveOrganization
  BY <1>7 DEF HasTables, Elsewhere, Time, SaveOrganization, Write, Call, M!SaveOrganization, P!SaveOrganization
<1> QED
  BY <1>1, <1>2, <1>3, <1>4, <1>5, <1>6, <1>7

LEMMA DispatchElsewhere ==
  ASSUME HasTables,
         \/ CreateChallenge \/ ApproveChallenge \/ CreateJob \/ LeaseNextJob \/ LeaseNextCloudJob
         \/ UpdateJob \/ RecoverExpiredLeases \/ CancelActive \/ SaveMonitor \/ DeleteMonitor
  PROVE  Elsewhere
<1>1. CASE CreateChallenge
  BY <1>1 DEF HasTables, Elsewhere, Time, CreateChallenge, Write, Call, M!CreateChallenge, P!CreateChallenge
<1>2. CASE ApproveChallenge
  BY <1>2 DEF HasTables, Elsewhere, Time, ApproveChallenge, Write, Call, M!ApproveChallenge, P!ApproveChallenge
<1>3. CASE CreateJob
  BY <1>3 DEF HasTables, Elsewhere, Time, CreateJob, Write, Call, M!CreateJob, P!CreateJob
<1>4. CASE LeaseNextJob
  BY <1>4 DEF HasTables, Elsewhere, Time, LeaseNextJob, Ask, Call, M!LeaseNextJob, P!LeaseNextJob, P!Leased, M!Leased
<1>5. CASE LeaseNextCloudJob
  BY <1>5 DEF HasTables, Elsewhere, Time, LeaseNextCloudJob, Ask, Call, M!LeaseNextCloudJob,
         P!LeaseNextCloudJob, P!Leased, M!Leased
<1>6. CASE UpdateJob
  <2>1. PICK t : pg' = [pg EXCEPT !.jobs = t]
    BY <1>6, Zenon DEF UpdateJob, Write, Call, P!UpdateJob, P!CreateJob
  <2>2. mem' = mem \/ \E v : mem' = [mem EXCEPT !.jobs = v]
    BY <1>6 DEF UpdateJob, Write, Call, M!UpdateJob
  <2>3. now' = now + 1
    BY <1>6 DEF UpdateJob, Write, Call, Time
  <2> QED
    BY <2>1, <2>2, <2>3 DEF HasTables, Elsewhere
<1>7. CASE RecoverExpiredLeases
  BY <1>7 DEF HasTables, Elsewhere, Time, RecoverExpiredLeases, Ask, Call, M!RecoverExpiredLeases,
         P!RecoverExpiredLeases
<1>8. CASE CancelActive
  BY <1>8 DEF HasTables, Elsewhere, Time, CancelActive, Ask, Call, M!CancelActive, P!CancelActive
<1>9. CASE SaveMonitor
  <2>1. PICK a : pg' = P!SaveMonitor(pg, a) /\ mem' = M!SaveMonitor(mem, a)
    BY <1>9, Zenon DEF SaveMonitor, Write, Call
  <2>2. PICK t : pg' = [pg EXCEPT !.monitors = t]
    BY <2>1, Zenon DEF P!SaveMonitor
  <2>3. PICK v : mem' = [mem EXCEPT !.monitors = v]
    BY <2>1, Zenon DEF M!SaveMonitor
  <2>4. now' = now + 1
    BY <1>9 DEF SaveMonitor, Write, Call, Time
  <2> QED
    BY <2>2, <2>3, <2>4 DEF HasTables, Elsewhere
<1>10. CASE DeleteMonitor
  BY <1>10 DEF HasTables, Elsewhere, Time, DeleteMonitor, Ask, Call, M!DeleteMonitor, P!DeleteMonitor
<1> QED
  BY <1>1, <1>2, <1>3, <1>4, <1>5, <1>6, <1>7, <1>8, <1>9, <1>10

-----------------------------------------------------------------------------
(* Cases                                                                     *)

CaseGrows(r, s) ==
  /\ s.id = r.id
  /\ r.findings \subseteq s.findings /\ r.drifts \subseteq s.drifts
  /\ DOMAIN r.probes \subseteq DOMAIN s.probes
  /\ s.first <= r.first /\ s.at >= r.at
  /\ call' # "update_status" => s.status = r.status

CasesGrow == \A r \in pg.investigations : \E s \in pg'.investigations : CaseGrows(r, s)

CasesSame == pg'.investigations = pg.investigations
RestOfCases ==
  /\ HasTables' /\ now' = now + 1
  /\ pg'.training = pg.training
  /\ pg'.probes = pg.probes /\ mem'.probes = mem.probes
  /\ pg'.devices = pg.devices /\ mem'.devices = mem.devices

LEMMA StatusNames ==
  /\ \A v \in DOMAIN P!Columns["status"] : P!Shown("status", v) \in Names(P!Columns["status"])
  /\ \A v \in DOMAIN P!Columns["risk"] : P!Shown("risk", v) \in Names(P!Columns["risk"])
BY DEF P!Shown, Names

LEMMA CaseNames ==
  /\ "Open" \in DOMAIN P!Columns["status"]
  /\ {"Low", "Critical"} \subseteq DOMAIN P!Columns["risk"]
BY DEF P!Columns

LEMMA CasesSaved ==
  ASSUME now \in Nat, HasTables, CasesInv, SaveInvestigation
  PROVE  CasesInv' /\ CasesGrow /\ RestOfCases
<1>1. PICK id \in Ids, risk \in {"Low", "Critical"}, fs \in SUBSET Ids :
        Write("save",
          P!SaveInvestigation(pg, [id |-> id, asset |-> id, status |-> "Open", risk |-> risk, findings |-> fs,
                                   drifts |-> {id}, probes |-> M!NoMap, first |-> Time, at |-> Time]),
          M!SaveInvestigation(mem, [id |-> id, asset |-> id, status |-> "Open", risk |-> risk, findings |-> fs,
                                   drifts |-> {id}, probes |-> M!NoMap, first |-> Time, at |-> Time]))
  BY DEF SaveInvestigation
<1> DEFINE i == [id |-> id, asset |-> id, status |-> "Open", risk |-> risk, findings |-> fs,
                 drifts |-> {id}, probes |-> M!NoMap, first |-> Time, at |-> Time]
           n == [i EXCEPT !.status = P!Shown("status", @), !.risk = P!Shown("risk", @)]
           K(r) == [r EXCEPT !.risk = P!Shown("risk", i.risk), !.findings = @ \cup i.findings,
                             !.drifts = @ \cup i.drifts, !.probes = P!Override(@, i.probes),
                             !.first = P!Lesser(@, i.first), !.at = P!Greater(@, i.at)]
           T == pg.investigations
           U == IF \E r \in T : r.id = id THEN {IF r.id = id THEN K(r) ELSE r : r \in T} ELSE T \cup {n}
<1>2. pg' = [pg EXCEPT !.investigations = U]
  BY <1>1 DEF Write, Call, P!SaveInvestigation, P!Put
<1>3. now' = now + 1 /\ \E v : mem' = [mem EXCEPT !.investigations = v]
  BY <1>1 DEF Write, Call, Time, M!SaveInvestigation
<1>4. RestOfCases /\ pg'.investigations = U
  BY <1>2, <1>3 DEF RestOfCases, HasTables
<1> DEFINE Maps == UNION {[runs -> {"verified", "failed"}] : runs \in SUBSET Ids}
<1>5. n \in Cases /\ n.id = id /\ n.at = now'
  <2>1. M!NoMap \in [{} -> {"verified", "failed"}]
    BY DEF M!NoMap
  <2>2. M!NoMap \in Maps
    BY <2>1
  <2>3. P!Shown("status", "Open") \in Names(P!Columns["status"]) /\ P!Shown("risk", risk) \in Names(P!Columns["risk"])
    BY StatusNames, CaseNames
  <2> HIDE DEF Maps
  <2>4. i \in [id : Ids, asset : Ids, status : {"Open"}, risk : {risk},
               findings : SUBSET Ids, drifts : SUBSET Ids, probes : Maps, first : Nat, at : Nat]
    BY <2>2 DEF Time
  <2>5. Cases = [id : Ids, asset : Ids, status : Names(P!Columns["status"]), risk : Names(P!Columns["risk"]),
                 findings : SUBSET Ids, drifts : SUBSET Ids, probes : Maps, first : Nat, at : Nat]
    BY DEF Cases, Maps
  <2>6. i.id = id /\ i.at = now + 1
    BY DEF Time
  <2> HIDE DEF i
  <2> QED
    BY <2>3, <2>4, <2>5, <2>6, <1>3
<1>6. ASSUME NEW r \in T PROVE K(r) \in Cases /\ K(r).id = r.id /\ CaseGrows(r, K(r)) /\ K(r).at <= now'
  <2>1. P!Override(r.probes, M!NoMap) \in Maps /\ DOMAIN r.probes \subseteq DOMAIN P!Override(r.probes, M!NoMap)
    <3>1. PICK runs \in SUBSET Ids : r.probes \in [runs -> {"verified", "failed"}]
      BY DEF CasesInv, Cases
    <3>2. P!Override(r.probes, M!NoMap) \in [runs -> {"verified", "failed"}]
      BY <3>1 DEF P!Override, M!NoMap
    <3> QED
      BY <3>1, <3>2
  <2> HIDE DEF Maps
  <2>2. Cases = [id : Ids, asset : Ids, status : Names(P!Columns["status"]), risk : Names(P!Columns["risk"]),
                 findings : SUBSET Ids, drifts : SUBSET Ids, probes : Maps, first : Nat, at : Nat]
    BY DEF Cases, Maps
  <2>3. P!Shown("risk", risk) \in Names(P!Columns["risk"])
    BY StatusNames, CaseNames
  <2>4. P!Lesser(r.first, now + 1) \in Nat /\ P!Lesser(r.first, now + 1) <= r.first
    BY <2>2 DEF CasesInv, P!Lesser
  <2>5. P!Greater(r.at, now + 1) \in Nat /\ P!Greater(r.at, now + 1) >= r.at /\ P!Greater(r.at, now + 1) <= now + 1
    BY <2>2 DEF CasesInv, P!Greater
  <2>6. K(r) = [r EXCEPT !.risk = P!Shown("risk", risk), !.findings = @ \cup fs, !.drifts = @ \cup {id},
                         !.probes = P!Override(@, M!NoMap), !.first = P!Lesser(@, now + 1), !.at = P!Greater(@, now + 1)]
    BY DEF Time
  <2>7. r \in Cases
    BY DEF CasesInv
  <2> DEFINE s == [r EXCEPT !.risk = P!Shown("risk", risk), !.findings = @ \cup fs, !.drifts = @ \cup {id},
                            !.probes = P!Override(@, M!NoMap), !.first = P!Lesser(@, now + 1), !.at = P!Greater(@, now + 1)]
  <2>8. s \in Cases
    BY <2>1, <2>2, <2>3, <2>4, <2>5, <2>7
  <2>9. /\ s.id = r.id /\ s.findings = r.findings \cup fs /\ s.drifts = r.drifts \cup {id}
        /\ s.probes = P!Override(r.probes, M!NoMap) /\ s.first = P!Lesser(r.first, now + 1)
        /\ s.at = P!Greater(r.at, now + 1) /\ s.status = r.status
    BY <2>2, <2>7
  <2> HIDE DEF K, s
  <2>10. CaseGrows(r, s)
    BY <2>1, <2>4, <2>5, <2>9 DEF CaseGrows
  <2> QED
    BY <1>3, <2>5, <2>6, <2>8, <2>9, <2>10 DEF s
<1> HIDE DEF K, n
<1>7. \A s \in pg'.investigations : s \in Cases /\ s.at <= now'
  <2>1. \A r \in T : r \in Cases /\ r.at <= now'
    BY <1>3 DEF CasesInv, Cases
  <2> QED
    BY <1>3, <1>4, <1>5, <1>6, <2>1
<1>8. Keyed(pg'.investigations)
  BY <1>4, <1>5, <1>6 DEF CasesInv, Keyed
<1>9. CasesGrow
  <2>1. \A r \in T : CaseGrows(r, r)
    BY DEF CasesInv, Cases, CaseGrows
  <2> QED
    BY <1>4, <1>6, <2>1 DEF CasesGrow
<1> QED
  BY <1>4, <1>7, <1>8, <1>9 DEF CasesInv

LEMMA CasesUpdated ==
  ASSUME now \in Nat, HasTables, CasesInv, UpdateInvestigation
  PROVE  CasesInv' /\ CasesGrow /\ RestOfCases
<1>1. PICK id \in Ids, status \in DOMAIN P!Columns["status"] :
        Write("update_status", P!UpdateInvestigation(pg, id, status, Time), M!UpdateInvestigation(mem, id, status, Time))
  BY DEF UpdateInvestigation
<1> DEFINE K(r) == [r EXCEPT !.status = P!Shown("status", status), !.at = now + 1]
           T == pg.investigations
           U == {IF r.id = id THEN K(r) ELSE r : r \in T}
<1>2. pg' = [pg EXCEPT !.investigations = U]
  BY <1>1 DEF Write, Call, Time, P!UpdateInvestigation, P!Set
<1>3. now' = now + 1 /\ call' = "update_status" /\ \E v : mem' = [mem EXCEPT !.investigations = v]
  BY <1>1 DEF Write, Call, Time, M!UpdateInvestigation
<1>4. RestOfCases /\ pg'.investigations = U
  BY <1>2, <1>3 DEF RestOfCases, HasTables
<1>5. ASSUME NEW r \in T PROVE K(r) \in Cases /\ K(r).id = r.id /\ CaseGrows(r, K(r)) /\ K(r).at <= now'
  <2>1. P!Shown("status", status) \in Names(P!Columns["status"])
    BY StatusNames
  <2>2. r \in Cases /\ r.at <= now
    BY DEF CasesInv
  <2> DEFINE Maps == UNION {[runs -> {"verified", "failed"}] : runs \in SUBSET Ids}
  <2>a. Cases = [id : Ids, asset : Ids, status : Names(P!Columns["status"]), risk : Names(P!Columns["risk"]),
                 findings : SUBSET Ids, drifts : SUBSET Ids, probes : Maps, first : Nat, at : Nat]
    BY DEF Cases, Maps
  <2> HIDE DEF Maps
  <2>3. K(r) \in Cases
    <3> DEFINE name == P!Shown("status", status)
    <3>1. name \in Names(P!Columns["status"]) /\ now + 1 \in Nat
      BY <2>1
    <3> HIDE DEF name
    <3>2. [r EXCEPT !.status = name, !.at = now + 1] \in Cases
      BY <2>2, <2>a, <3>1
    <3> QED
      BY <3>2 DEF name
  <2>4. /\ K(r).id = r.id /\ K(r).findings = r.findings /\ K(r).drifts = r.drifts
        /\ K(r).probes = r.probes /\ K(r).first = r.first /\ K(r).at = now + 1
    BY <2>2 DEF Cases
  <2>5. r.first \in Nat /\ r.at \in Nat
    BY <2>2 DEF Cases
  <2> HIDE DEF K
  <2> QED
    BY <1>3, <2>2, <2>3, <2>4, <2>5 DEF CaseGrows
<1> HIDE DEF K
<1>6. \A s \in U : s \in Cases /\ s.at <= now'
  <2>1. \A r \in T : r \in Cases /\ r.at <= now'
    BY <1>3 DEF CasesInv, Cases
  <2> QED
    BY <1>5, <2>1
<1>7. Keyed(U)
  BY <1>5 DEF CasesInv, Keyed
<1>8. \A r \in T : \E s \in U : CaseGrows(r, s)
  <2>1. \A r \in T : CaseGrows(r, r)
    BY DEF CasesInv, Cases, CaseGrows
  <2> QED
    BY <1>5, <2>1
<1> QED
  BY <1>4, <1>6, <1>7, <1>8 DEF CasesInv, CasesGrow

LEMMA ProbesAttached ==
  ASSUME now \in Nat, HasTables, CasesInv, AttachProbe
  PROVE  CasesInv' /\ CasesGrow /\ RestOfCases
<1>1. PICK case \in Ids, run \in Ids, outcome \in {"verified", "failed"} :
        Write("attach_probe", P!AttachProbe(pg, [id |-> run, case |-> case, asset |-> case, outcome |-> outcome]),
              M!AttachProbe(mem, [id |-> run, case |-> case, asset |-> case, outcome |-> outcome]))
  BY DEF AttachProbe
<1> DEFINE K(r) == [r EXCEPT !.probes = P!Insert(@, run, outcome)]
           T == pg.investigations
           U == {IF r.id = case /\ r.asset = case THEN K(r) ELSE r : r \in T}
<1>2. pg' = [pg EXCEPT !.investigations = U]
  BY <1>1 DEF Write, Call, P!AttachProbe, P!Set
<1>3. now' = now + 1 /\ \E v : mem' = [mem EXCEPT !.investigations = v]
  BY <1>1 DEF Write, Call, Time, M!AttachProbe
<1>4. RestOfCases /\ pg'.investigations = U
  BY <1>2, <1>3 DEF RestOfCases, HasTables
<1>5. ASSUME NEW r \in T PROVE K(r) \in Cases /\ K(r).id = r.id /\ CaseGrows(r, K(r)) /\ K(r).at <= now'
  <2> DEFINE Maps == UNION {[runs -> {"verified", "failed"}] : runs \in SUBSET Ids}
  <2>1. P!Insert(r.probes, run, outcome) \in Maps /\ DOMAIN r.probes \subseteq DOMAIN P!Insert(r.probes, run, outcome)
    <3>1. PICK runs \in SUBSET Ids : r.probes \in [runs -> {"verified", "failed"}]
      BY DEF CasesInv, Cases
    <3>2. P!Insert(r.probes, run, outcome) \in [runs \cup {run} -> {"verified", "failed"}]
      BY <3>1 DEF P!Insert
    <3>3. runs \cup {run} \in SUBSET Ids
      OBVIOUS
    <3> QED
      BY <3>1, <3>2, <3>3
  <2> HIDE DEF Maps
  <2>2. Cases = [id : Ids, asset : Ids, status : Names(P!Columns["status"]), risk : Names(P!Columns["risk"]),
                 findings : SUBSET Ids, drifts : SUBSET Ids, probes : Maps, first : Nat, at : Nat]
    BY DEF Cases, Maps
  <2>3. r \in Cases /\ r.at <= now
    BY DEF CasesInv
  <2>4. K(r) \in Cases
    BY <2>1, <2>2, <2>3
  <2>5. /\ K(r).id = r.id /\ K(r).findings = r.findings /\ K(r).drifts = r.drifts /\ K(r).status = r.status
        /\ K(r).probes = P!Insert(r.probes, run, outcome) /\ K(r).first = r.first /\ K(r).at = r.at
    BY <2>2, <2>3
  <2>6. r.first \in Nat /\ r.at \in Nat
    BY <2>2, <2>3
  <2> HIDE DEF K
  <2> QED
    BY <1>3, <2>1, <2>3, <2>4, <2>5, <2>6 DEF CaseGrows
<1> HIDE DEF K
<1>6. \A s \in U : s \in Cases /\ s.at <= now'
  <2>1. \A r \in T : r \in Cases /\ r.at <= now'
    BY <1>3 DEF CasesInv, Cases
  <2> QED
    BY <1>5, <2>1
<1>7. Keyed(U)
  BY <1>5 DEF CasesInv, Keyed
<1>8. \A r \in T : \E s \in U : CaseGrows(r, s)
  <2>1. \A r \in T : CaseGrows(r, r)
    BY DEF CasesInv, Cases, CaseGrows
  <2> QED
    BY <1>5, <2>1
<1> QED
  BY <1>4, <1>6, <1>7, <1>8 DEF CasesInv, CasesGrow

(* A step that leaves the table alone, with a later time *)
LEMMA CasesUntouched ==
  ASSUME now \in Nat, CasesInv, now' = now \/ now' = now + 1, pg'.investigations = pg.investigations
  PROVE  CasesInv' /\ CasesGrow
<1>1. \A r \in pg.investigations : r.at \in Nat /\ r.first \in Nat
  BY DEF CasesInv, Cases
<1> QED
  BY <1>1 DEF CasesInv, CasesGrow, CaseGrows, Keyed

(* What is read back under an identifier is the row that has it. *)
LEMMA ParsedCase ==
  ASSUME NEW r \in Cases
  PROVE  /\ P!AsInvestigation(r) \in Cases
         /\ P!AsInvestigation(r).findings = r.findings /\ P!AsInvestigation(r).drifts = r.drifts
         /\ P!AsInvestigation(r).probes = r.probes /\ P!AsInvestigation(r).first = r.first
         /\ P!AsInvestigation(r).at = r.at
         /\ P!AsInvestigation(r).status = P!Parsed("status", r.status)
<1>1. P!Parsed("status", r.status) \in DOMAIN P!Columns["status"]
  <2>1. P!Unreadable["status"] = "Open"
    BY DEF P!Unreadable
  <2> QED
    BY <2>1, CaseNames DEF P!Parsed
<1>2. P!Parsed("risk", r.risk) \in DOMAIN P!Columns["risk"]
  <2>1. P!Unreadable["risk"] = "Low"
    BY DEF P!Unreadable
  <2> QED
    BY <2>1, CaseNames DEF P!Parsed
<1>3. P!Parsed("status", r.status) \in Names(P!Columns["status"]) /\ P!Parsed("risk", r.risk) \in Names(P!Columns["risk"])
  BY <1>1, <1>2 DEF Names
<1> QED
  BY <1>3 DEF P!AsInvestigation, Cases

LEMMA CasesKept ==
  ASSUME CasesInv, CasesInv', CasesGrow, NEW id \in Ids
  PROVE  CaseKept(id)
<1> SUFFICES ASSUME P!FindInvestigation(pg, id) # None
             PROVE  LET old == P!FindInvestigation(pg, id)
                        new == P!FindInvestigation(pg', id)
                    IN /\ new # None
                       /\ old.findings \subseteq new.findings /\ old.drifts \subseteq new.drifts
                       /\ DOMAIN old.probes \subseteq DOMAIN new.probes
                       /\ new.first <= old.first /\ new.at >= old.at
                       /\ call' # "update_status" => new.status = old.status
  BY DEF CaseKept
<1>1. PICK r \in pg.investigations : r.id = id
  BY DEF P!FindInvestigation, P!Row
<1>2. PICK s \in pg'.investigations : CaseGrows(r, s)
  BY DEF CasesGrow
<1>3. s.id = id
  BY <1>1, <1>2 DEF CaseGrows
<1>4. r \in Cases /\ s \in Cases /\ r # None /\ s # None
  BY NoneAssumption DEF CasesInv
<1>5. P!Row(pg.investigations, LAMBDA q : q.id = id) = r
  BY <1>1 DEF P!Row, CasesInv, Keyed
<1>6. P!Row(pg'.investigations, LAMBDA q : q.id = id) = s
  BY <1>3 DEF P!Row, CasesInv, Keyed
<1>7. P!FindInvestigation(pg, id) = P!AsInvestigation(r)
  BY <1>4, <1>5 DEF P!FindInvestigation
<1>8. P!FindInvestigation(pg', id) = P!AsInvestigation(s)
  BY <1>4, <1>6 DEF P!FindInvestigation
<1>9. P!AsInvestigation(s) # None
  BY <1>4, ParsedCase, NoneAssumption
<1> QED
  BY <1>2, <1>4, <1>7, <1>8, <1>9, ParsedCase DEF CaseGrows

-----------------------------------------------------------------------------
(* Training records                                                          *)

OutcomesKept(t, s) ==
  s.id = t.id /\ \A request \in DOMAIN t.outcomes : s.outcomes[request] = t.outcomes[request]

TrainingGrows == \A t \in pg.training : \E s \in pg'.training : OutcomesKept(t, s)

RestOfTraining ==
  /\ HasTables' /\ now' = now + 1
  /\ pg'.investigations = pg.investigations
  /\ pg'.probes = pg.probes /\ mem'.probes = mem.probes
  /\ pg'.devices = pg.devices /\ mem'.devices = mem.devices

LEMMA TrainingUntouched ==
  ASSUME TrainingInv, pg'.training = pg.training
  PROVE  TrainingInv' /\ TrainingGrows
BY DEF TrainingInv, TrainingGrows, OutcomesKept, Keyed

LEMMA TrainingSaved ==
  ASSUME HasTables, TrainingInv, SaveTraining
  PROVE  TrainingInv' /\ TrainingGrows /\ RestOfTraining
<1>1. PICK id, t :
        /\ Ask("save", P!SaveTraining(pg, t), M!SaveTraining(mem, t))
        /\ t.id = id /\ {"id", "outcomes"} \subseteq DOMAIN t
  BY DEF SaveTraining
<1>2. now' = now + 1
  BY <1>1 DEF Ask, Call, Time
<1>3. mem' = mem \/ \E v : mem' = [mem EXCEPT !.training = v]
  BY <1>1 DEF Ask, Call, M!SaveTraining
<1>4. CASE \E r \in pg.training : r.id = t.id
  <2>1. pg' = pg
    BY <1>1, <1>4 DEF Ask, Call, P!SaveTraining
  <2>2. RestOfTraining
    BY <2>1, <1>2, <1>3 DEF RestOfTraining, HasTables
  <2> QED
    BY <2>1, <2>2, TrainingUntouched
<1>5. CASE ~ \E r \in pg.training : r.id = t.id
  <2>1. pg' = [pg EXCEPT !.training = @ \cup {t}]
    BY <1>1, <1>5 DEF Ask, Call, P!SaveTraining
  <2>2. RestOfTraining /\ pg'.training = pg.training \cup {t}
    BY <2>1, <1>2, <1>3 DEF RestOfTraining, HasTables
  <2> QED
    BY <2>2, <1>1, <1>5 DEF TrainingInv, TrainingGrows, OutcomesKept, Keyed
<1> QED
  BY <1>4, <1>5

LEMMA OutcomeAttached ==
  ASSUME HasTables, TrainingInv, AttachOutcome
  PROVE  TrainingInv' /\ TrainingGrows /\ RestOfTraining
<1>1. PICK id, request, outcome :
        Ask("attach_remediation_outcome", P!AttachOutcome(pg, id, request, outcome),
            M!AttachOutcome(mem, id, request, outcome))
  BY DEF AttachOutcome
<1> DEFINE Is(r) == r.id = id /\ request \notin DOMAIN r.outcomes
           K(r) == [r EXCEPT !.outcomes = P!Insert(@, request, outcome)]
           T == pg.training
           U == {IF Is(r) THEN K(r) ELSE r : r \in T}
<1>2. pg' = [pg EXCEPT !.training = U]
  BY <1>1 DEF Ask, Call, P!AttachOutcome, P!Set
<1>3. now' = now + 1 /\ (mem' = mem \/ \E v : mem' = [mem EXCEPT !.training = v])
  BY <1>1 DEF Ask, Call, Time, M!AttachOutcome
<1>4. RestOfTraining /\ pg'.training = U
  BY <1>2, <1>3 DEF RestOfTraining, HasTables
<1>5. ASSUME NEW r \in T, Is(r)
      PROVE  {"id", "outcomes"} \subseteq DOMAIN K(r) /\ OutcomesKept(r, K(r))
  <2>1. {"id", "outcomes"} \subseteq DOMAIN r
    BY DEF TrainingInv
  <2>2. DOMAIN K(r) = DOMAIN r /\ K(r).id = r.id /\ K(r).outcomes = P!Insert(r.outcomes, request, outcome)
    BY <2>1
  <2>3. \A q \in DOMAIN r.outcomes : P!Insert(r.outcomes, request, outcome)[q] = r.outcomes[q]
    BY <1>5 DEF P!Insert
  <2> HIDE DEF K
  <2> QED
    BY <2>1, <2>2, <2>3 DEF OutcomesKept
<1>6. \A r \in T : {"id", "outcomes"} \subseteq DOMAIN r /\ OutcomesKept(r, r)
  BY DEF TrainingInv, OutcomesKept
<1> HIDE DEF K, Is
<1>7. \A s \in U : {"id", "outcomes"} \subseteq DOMAIN s
  BY <1>5, <1>6
<1>8. Keyed(U)
  BY <1>5 DEF TrainingInv, Keyed, OutcomesKept
<1>9. \A t \in T : \E s \in U : OutcomesKept(t, s)
  BY <1>5, <1>6
<1> QED
  BY <1>4, <1>7, <1>8, <1>9 DEF TrainingInv, TrainingGrows

LEMMA LabelAttached ==
  ASSUME HasTables, TrainingInv, AttachAnalystLabel
  PROVE  TrainingInv' /\ TrainingGrows /\ RestOfTraining
<1>1. PICK id, label :
        Ask("attach_analyst_label", P!AttachAnalystLabel(pg, id, label), M!AttachAnalystLabel(mem, id, label))
  BY DEF AttachAnalystLabel
<1> DEFINE K(r) == [r EXCEPT !.label = label]
           T == pg.training
           U == {IF r.id = id THEN K(r) ELSE r : r \in T}
<1>2. pg' = [pg EXCEPT !.training = U]
  BY <1>1 DEF Ask, Call, P!AttachAnalystLabel, P!Set
<1>3. now' = now + 1 /\ \E v : mem' = [mem EXCEPT !.training = v]
  BY <1>1 DEF Ask, Call, Time, M!AttachAnalystLabel
<1>4. RestOfTraining /\ pg'.training = U
  BY <1>2, <1>3 DEF RestOfTraining, HasTables
<1>5. ASSUME NEW r \in T
      PROVE  {"id", "outcomes"} \subseteq DOMAIN K(r) /\ OutcomesKept(r, K(r))
  <2>1. {"id", "outcomes"} \subseteq DOMAIN r
    BY DEF TrainingInv
  <2>2. DOMAIN K(r) = DOMAIN r /\ K(r).id = r.id /\ K(r).outcomes = r.outcomes
    BY <2>1
  <2> HIDE DEF K
  <2> QED
    BY <2>1, <2>2 DEF OutcomesKept
<1>6. \A r \in T : {"id", "outcomes"} \subseteq DOMAIN r /\ OutcomesKept(r, r)
  BY DEF TrainingInv, OutcomesKept
<1> HIDE DEF K
<1>7. \A s \in U : {"id", "outcomes"} \subseteq DOMAIN s
  BY <1>5, <1>6
<1>8. Keyed(U)
  BY <1>5 DEF TrainingInv, Keyed, OutcomesKept
<1>9. \A t \in T : \E s \in U : OutcomesKept(t, s)
  BY <1>5, <1>6
<1> QED
  BY <1>4, <1>7, <1>8, <1>9 DEF TrainingInv, TrainingGrows

LEMMA TrainingKept ==
  ASSUME TrainingInv', TrainingGrows, NEW t \in pg.training, NEW request \in DOMAIN t.outcomes
  PROVE  P!FindTraining(pg', t.id).outcomes[request] = t.outcomes[request]
<1>1. PICK s \in pg'.training : OutcomesKept(t, s)
  BY DEF TrainingGrows
<1>2. P!FindTraining(pg', t.id) = s
  BY <1>1 DEF P!FindTraining, P!Row, TrainingInv, Keyed, OutcomesKept
<1> QED
  BY <1>1, <1>2 DEF OutcomesKept

-----------------------------------------------------------------------------
(* Runs of probes                                                            *)

RunsStay == \A r \in pg.probes : \E s \in pg'.probes : s.id = r.id

RestOfProbes ==
  /\ HasTables' /\ now' = now + 1
  /\ pg'.investigations = pg.investigations /\ pg'.training = pg.training
  /\ pg'.devices = pg.devices /\ mem'.devices = mem.devices

LEMMA ProbesUntouched ==
  ASSUME ProbesInv, pg'.probes = pg.probes, mem'.probes = mem.probes
  PROVE  ProbesInv' /\ RunsStay
BY DEF ProbesInv, RunsStay, Keyed

(* iter().find finds the first element, if there is one. *)
LEMMA FirstById ==
  ASSUME NEW S, NEW v \in Seq(S), NEW id, \E i \in DOMAIN v : v[i].id = id
  PROVE  \E i \in DOMAIN v : v[i].id = id /\ M!ById(v, id) = v[i]
<1> DEFINE D == {i \in DOMAIN v : v[i].id = id}
           R == OpToRel(<, Nat)
<1>1. \A x, y \in Nat : <<y, x>> \in R <=> y < x
  BY DEF OpToRel
<1>2. IsWellFoundedOn(R, Nat)
  BY NatLessThanWellFounded
<1>4. D \subseteq Nat /\ D # {}
  OBVIOUS
<1> HIDE DEF R
<1>5. PICK i \in D : \A j \in D : ~ (<<j, i>> \in R)
  BY <1>2, <1>4, WFMin
<1>6. \A j \in D : ~ (j < i)
  BY <1>1, <1>4, <1>5
<1>7. \A k \in 1 .. (i - 1) : ~ (v[k].id = id)
  <2> SUFFICES ASSUME NEW k \in 1 .. (i - 1), v[k].id = id PROVE FALSE
    OBVIOUS
  <2>1. k \in DOMAIN v /\ k < i
    BY <1>5
  <2> QED
    BY <1>6, <2>1
<1> DEFINE First(j) == v[j].id = id /\ \A k \in 1 .. (j - 1) : ~ (v[k].id = id)
<1>8. i \in DOMAIN v /\ First(i)
  BY <1>5, <1>7
<1>9. M!ById(v, id) = v[CHOOSE j \in DOMAIN v : First(j)]
  BY DEF M!ById, M!Find
<1>10. (CHOOSE j \in DOMAIN v : First(j)) \in DOMAIN v /\ First(CHOOSE j \in DOMAIN v : First(j))
  BY <1>8
<1> QED
  BY <1>9, <1>10

(* Rows written in place leave a list of rows. *)
LEMMA RowsRewritten ==
  ASSUME NEW S, NEW v \in Seq(S), NEW w, w = [k \in DOMAIN v |-> w[k]], \A k \in DOMAIN v : w[k] \in S
  PROVE  w \in Seq(S)
<1>1. DOMAIN v = 1 .. Len(v) /\ Len(v) \in Nat
  OBVIOUS
<1>2. w \in [1 .. Len(v) -> S]
  BY <1>1
<1> QED
  BY <1>1, <1>2, SeqDef

LEMMA RunNames ==
  /\ \A v \in DOMAIN P!ProbeColumns["trigger"] : /\ v \in Names(P!ProbeColumns["trigger"])
                                                 /\ P!ProbeColumns["trigger"][v] \in Names(P!ProbeColumns["trigger"])
  /\ \A v \in DOMAIN P!ProbeColumns["outcome"] : /\ v \in Names(P!ProbeColumns["outcome"])
                                                 /\ P!ProbeColumns["outcome"][v] \in Names(P!ProbeColumns["outcome"])
  /\ "InternalError" \in DOMAIN P!ProbeColumns["outcome"]
  /\ "Scheduled" \in DOMAIN P!ProbeColumns["trigger"]
<1>1. "InternalError" \in DOMAIN P!ProbeColumns["outcome"] /\ "Scheduled" \in DOMAIN P!ProbeColumns["trigger"]
  BY DEF P!ProbeColumns
<1> QED
  BY <1>1 DEF Names

(* A run that is saved inserts its row or finishes the one there is. *)
LEMMA RunSaved ==
  ASSUME ProbesInv, NEW run \in ProbeRuns, run.trigger \in DOMAIN P!ProbeColumns["trigger"],
         run.outcome \in DOMAIN P!ProbeColumns["outcome"], "probes" \in DOMAIN pg,
         pg' = P!SaveProbe(pg, run)
  PROVE  /\ pg'.probes \subseteq ProbeRuns /\ Keyed(pg'.probes) /\ RunsStay
         /\ \E t : pg' = [pg EXCEPT !.probes = t]
<1> DEFINE outcome == P!ProbeColumns["outcome"][run.outcome]
           n == [run EXCEPT !.outcome = outcome, !.trigger = P!ProbeColumns["trigger"][@]]
           K(r) == [r EXCEPT !.finished = run.finished, !.outcome = outcome]
           T == pg.probes
           U == IF \E r \in T : r.id = run.id THEN {IF r.id = run.id THEN K(r) ELSE r : r \in T} ELSE T \cup {n}
<1>1. pg' = [pg EXCEPT !.probes = U]
  BY DEF P!SaveProbe, P!Put
<1>2. pg'.probes = U
  BY <1>1
<1>3. outcome \in Names(P!ProbeColumns["outcome"])
      /\ P!ProbeColumns["trigger"][run.trigger] \in Names(P!ProbeColumns["trigger"])
  BY RunNames
<1> HIDE DEF outcome
<1>4. n \in ProbeRuns /\ n.id = run.id
  BY <1>3 DEF ProbeRuns
<1>5. ASSUME NEW r \in T PROVE K(r) \in ProbeRuns /\ K(r).id = r.id
  <2>1. r \in ProbeRuns /\ run.finished \in Nat \cup {None}
    BY DEF ProbesInv, ProbeRuns
  <2> QED
    BY <2>1, <1>3 DEF ProbeRuns
<1> HIDE DEF n, K
<1>6. \A s \in U : s \in ProbeRuns
  BY <1>4, <1>5 DEF ProbesInv
<1>7. Keyed(U)
  BY <1>4, <1>5 DEF ProbesInv, Keyed
<1>8. \A r \in T : \E s \in U : s.id = r.id
  BY <1>5
<1>9. \E t : pg' = [pg EXCEPT !.probes = t]
  BY <1>1, Zenon
<1> QED
  BY <1>2, <1>6, <1>7, <1>8, <1>9 DEF RunsStay

LEMMA ProbeReserved ==
  ASSUME now \in Nat, HasTables, ProbesInv, Reserve
  PROVE  ProbesInv' /\ RunsStay /\ RestOfProbes
<1>1. PICK asset \in Ids, target \in Ids, trigger \in DOMAIN P!ProbeColumns["trigger"] :
        LET r == [id |-> Time, asset |-> asset, case |-> asset, target |-> target, at |-> Time,
                  finished |-> None, trigger |-> trigger, outcome |-> "InternalError"]
        IN Ask("reserve", P!Reserve(pg, r, Cooldown), M!Reserve(mem, r, Cooldown))
  <2>1. "Scheduled" \in DOMAIN P!ProbeColumns["trigger"]
    BY RunNames
  <2> QED
    BY <2>1, Zenon DEF Reserve
<1> DEFINE r == [id |-> Time, asset |-> asset, case |-> asset, target |-> target, at |-> Time,
                 finished |-> None, trigger |-> trigger, outcome |-> "InternalError"]
<1>2. r \in ProbeRuns /\ r.trigger \in DOMAIN P!ProbeColumns["trigger"] /\ r.outcome \in DOMAIN P!ProbeColumns["outcome"]
  <2>1. trigger \in Names(P!ProbeColumns["trigger"]) /\ "InternalError" \in Names(P!ProbeColumns["outcome"])
    BY RunNames
  <2> QED
    BY <2>1, RunNames DEF ProbeRuns, Time
<1>3. Ask("reserve", P!Reserve(pg, r, Cooldown), M!Reserve(mem, r, Cooldown))
  BY <1>1
<1> HIDE DEF r
<1>4. now' = now + 1 /\ pg' = P!Reserve(pg, r, Cooldown).db /\ mem' = M!Reserve(mem, r, Cooldown).db
  BY <1>3 DEF Ask, Call, Time
<1>5. pg' = pg \/ pg' = P!SaveProbe(pg, r)
  BY <1>4 DEF P!Reserve
<1>6. mem' = mem \/ mem' = [mem EXCEPT !.probes = Append(@, r)]
  BY <1>4 DEF M!Reserve
<1>7. (pg' = pg \/ \E t : pg' = [pg EXCEPT !.probes = t])
      /\ pg'.probes \subseteq ProbeRuns /\ Keyed(pg'.probes) /\ RunsStay
  <2>1. CASE pg' = pg
    BY <2>1 DEF ProbesInv, RunsStay
  <2>2. CASE pg' = P!SaveProbe(pg, r)
    BY <2>2, <1>2, RunSaved DEF HasTables
  <2> QED
    BY <1>5, <2>1, <2>2
<1>8. RestOfProbes
  BY <1>4, <1>6, <1>7 DEF RestOfProbes, HasTables
<1>9. mem'.probes \in Seq(ProbeRuns)
      /\ \A i \in DOMAIN mem'.probes : mem'.probes[i].trigger \in DOMAIN P!ProbeColumns["trigger"]
  <2>1. CASE mem'.probes = mem.probes
    BY <2>1 DEF ProbesInv
  <2>2. CASE mem'.probes = Append(mem.probes, r)
    BY <2>2, <1>2 DEF ProbesInv
  <2>3. mem'.probes = mem.probes \/ mem'.probes = Append(mem.probes, r)
    BY <1>6 DEF HasTables
  <2> QED
    BY <2>1, <2>2, <2>3
<1> QED
  BY <1>7, <1>8, <1>9 DEF ProbesInv

LEMMA ProbeFinished ==
  ASSUME now \in Nat, HasTables, ProbesInv, FinishProbe
  PROVE  ProbesInv' /\ RunsStay /\ RestOfProbes
<1>1. PICK id \in 1 .. MaxCalls, outcome \in DOMAIN P!ProbeColumns["outcome"] :
        /\ M!FindProbe(mem, id) # None
        /\ LET r == [M!FindProbe(mem, id) EXCEPT !.finished = Time, !.outcome = outcome]
           IN \/ Write("update", P!UpdateProbe(pg, r), M!UpdateProbe(mem, r))
              \/ Write("save", P!SaveProbe(pg, r), M!SaveProbe(mem, r))
  BY Zenon DEF FinishProbe
<1>2. PICK i \in DOMAIN mem.probes : M!FindProbe(mem, id) = mem.probes[i]
  <2>1. \E i \in DOMAIN mem.probes : mem.probes[i].id = id
    BY <1>1 DEF M!FindProbe, M!ById, M!Find
  <2> QED
    BY <2>1, FirstById DEF M!FindProbe, ProbesInv
<1> DEFINE r == [M!FindProbe(mem, id) EXCEPT !.finished = Time, !.outcome = outcome]
<1>3. r \in ProbeRuns /\ r.trigger \in DOMAIN P!ProbeColumns["trigger"] /\ r.outcome \in DOMAIN P!ProbeColumns["outcome"]
  <2>1. mem.probes[i] \in ProbeRuns /\ mem.probes[i].trigger \in DOMAIN P!ProbeColumns["trigger"]
    BY DEF ProbesInv
  <2>2. outcome \in Names(P!ProbeColumns["outcome"])
    BY RunNames
  <2> DEFINE x == mem.probes[i]
  <2>3. now + 1 \in Nat \cup {None}
    OBVIOUS
  <2>4. r = [x EXCEPT !.finished = now + 1, !.outcome = outcome]
    BY <1>2 DEF Time
  <2> HIDE DEF x, r
  <2>5. x \in ProbeRuns /\ x.trigger \in DOMAIN P!ProbeColumns["trigger"]
    BY <2>1 DEF x
  <2> QED
    BY <2>2, <2>3, <2>4, <2>5 DEF ProbeRuns
<1>4. Write("update", P!UpdateProbe(pg, r), M!UpdateProbe(mem, r)) \/ Write("save", P!SaveProbe(pg, r), M!SaveProbe(mem, r))
  BY <1>1
<1> HIDE DEF r
<1>5. now' = now + 1 /\ pg' = P!SaveProbe(pg, r) /\ (mem' = M!UpdateProbe(mem, r) \/ mem' = M!SaveProbe(mem, r))
  BY <1>4 DEF Write, Call, Time, P!UpdateProbe
<1>6. PICK v : /\ mem' = [mem EXCEPT !.probes = v]
               /\ \/ v = mem.probes
                  \/ v = Append(mem.probes, r)
                  \/ \E j : v = [mem.probes EXCEPT ![j] = r]
  <2>1. CASE mem' = M!SaveProbe(mem, r)
    BY <2>1 DEF M!SaveProbe, M!Place
  <2>2. CASE mem' = M!UpdateProbe(mem, r)
    <3>1. CASE M!ById(mem.probes, r.id) = None
      BY <2>2, <3>1 DEF M!UpdateProbe, M!Amend
    <3>2. CASE M!ById(mem.probes, r.id) # None
      <4>1. \E k \in DOMAIN mem.probes : mem.probes[k].id = r.id
        BY <3>2 DEF M!ById, M!Find
      <4> QED
        BY <2>2, <3>2, <4>1 DEF M!UpdateProbe, M!Amend, M!Place
    <3> QED
      BY <3>1, <3>2
  <2> QED
    BY <1>5, <2>1, <2>2
<1>7. (\E t : pg' = [pg EXCEPT !.probes = t]) /\ pg'.probes \subseteq ProbeRuns /\ Keyed(pg'.probes) /\ RunsStay
  BY <1>3, <1>5, RunSaved DEF HasTables
<1>8. RestOfProbes /\ mem'.probes = v
  BY <1>5, <1>6, <1>7 DEF RestOfProbes, HasTables
<1>9. v \in Seq(ProbeRuns) /\ \A k \in DOMAIN v : v[k].trigger \in DOMAIN P!ProbeColumns["trigger"]
  <2>1. CASE v = mem.probes
    BY <2>1 DEF ProbesInv
  <2>2. CASE v = Append(mem.probes, r)
    BY <2>2, <1>3 DEF ProbesInv
  <2>3. ASSUME NEW j, v = [mem.probes EXCEPT ![j] = r]
        PROVE  v \in Seq(ProbeRuns) /\ \A k \in DOMAIN v : v[k].trigger \in DOMAIN P!ProbeColumns["trigger"]
    <3>1. mem.probes \in Seq(ProbeRuns) /\ DOMAIN v = DOMAIN mem.probes
      BY <2>3 DEF ProbesInv
    <3>3. \A k \in DOMAIN v : v[k] \in ProbeRuns /\ v[k].trigger \in DOMAIN P!ProbeColumns["trigger"]
      BY <2>3, <1>3, <3>1 DEF ProbesInv
    <3>4. v = [k \in DOMAIN mem.probes |-> v[k]]
      BY <2>3
    <3> QED
      BY <3>1, <3>3, <3>4, RowsRewritten
  <2> QED
    BY <1>6, <2>1, <2>2, <2>3
<1> QED
  BY <1>7, <1>8, <1>9 DEF ProbesInv

LEMMA ParsedRun ==
  ASSUME NEW r \in ProbeRuns
  PROVE  P!AsRun(r) \in ProbeRuns
<1>1. P!ProbeParsed("outcome", r.outcome) \in DOMAIN P!ProbeColumns["outcome"]
  BY RunNames DEF P!ProbeParsed
<1>2. P!ProbeParsed("trigger", r.trigger) \in DOMAIN P!ProbeColumns["trigger"]
  BY RunNames DEF P!ProbeParsed
<1>3. /\ P!ProbeParsed("outcome", r.outcome) \in Names(P!ProbeColumns["outcome"])
      /\ P!ProbeParsed("trigger", r.trigger) \in Names(P!ProbeColumns["trigger"])
  BY <1>1, <1>2, RunNames
<1> QED
  BY <1>3 DEF P!AsRun, ProbeRuns

LEMMA RunsKept ==
  ASSUME ProbesInv', RunsStay, NEW r \in pg.probes
  PROVE  P!FindProbe(pg', r.id) # None
<1>1. PICK s \in pg'.probes : s.id = r.id
  BY DEF RunsStay
<1>2. P!Row(pg'.probes, LAMBDA q : q.id = r.id) = s
  BY <1>1 DEF P!Row, ProbesInv, Keyed
<1>3. s \in ProbeRuns /\ s # None /\ P!AsRun(s) # None
  BY ParsedRun, NoneAssumption DEF ProbesInv
<1> QED
  BY <1>2, <1>3 DEF P!FindProbe

-----------------------------------------------------------------------------
(* Devices                                                                   *)

DeviceKept(r, s) ==
  /\ {"id", "revoked"} \subseteq DOMAIN s /\ s.id = r.id
  /\ r.revoked # None => s.revoked # None

DevicesStay == \A r \in pg.devices : \E s \in pg'.devices : DeviceKept(r, s)

RestOfDevices ==
  /\ HasTables' /\ now' = now + 1
  /\ pg'.investigations = pg.investigations /\ pg'.training = pg.training
  /\ pg'.probes = pg.probes /\ mem'.probes = mem.probes

(* What a step does to the devices of memory, a new one apart *)
OneRewritten(v, w) ==
  w = v \/ \E j \in DOMAIN v : \E e \in Devices : e.id = v[j].id /\ w = [v EXCEPT ![j] = e]

LEMMA DevicesUntouched ==
  ASSUME DevicesInv, pg'.devices = pg.devices, mem'.devices = mem.devices
  PROVE  DevicesInv' /\ DevicesStay
BY DEF DevicesInv, DevicesStay, DeviceKept, Keyed

LEMMA OneRewrittenKeeps ==
  ASSUME NEW v \in Seq(Devices), NEW w, OneRewritten(v, w)
  PROVE  w \in Seq(Devices) /\ DOMAIN w = DOMAIN v /\ \A i \in DOMAIN v : w[i].id = v[i].id
<1>1. CASE w = v
  BY <1>1
<1>2. ASSUME NEW j \in DOMAIN v, NEW e \in Devices, e.id = v[j].id, w = [v EXCEPT ![j] = e]
      PROVE  w \in Seq(Devices) /\ DOMAIN w = DOMAIN v /\ \A i \in DOMAIN v : w[i].id = v[i].id
  <2>1. DOMAIN w = DOMAIN v /\ w = [k \in DOMAIN v |-> w[k]]
    BY <1>2
  <2>2. \A k \in DOMAIN v : w[k] \in Devices
    BY <1>2
  <2>3. w \in Seq(Devices)
    BY <2>1, <2>2, RowsRewritten
  <2> QED
    BY <1>2, <2>1, <2>3
<1> QED
  BY <1>1, <1>2 DEF OneRewritten

LEMMA DevicesRewritten ==
  ASSUME DevicesInv, NEW f, \A r \in pg.devices : DeviceKept(r, f[r]), pg'.devices = {f[r] : r \in pg.devices},
         OneRewritten(mem.devices, mem'.devices)
  PROVE  DevicesInv' /\ DevicesStay
<1>1. /\ mem'.devices \in Seq(Devices) /\ DOMAIN mem'.devices = DOMAIN mem.devices
      /\ \A i \in DOMAIN mem.devices : mem'.devices[i].id = mem.devices[i].id
  BY OneRewrittenKeeps DEF DevicesInv
<1>2. \A r \in pg.devices : f[r].id = r.id /\ {"id", "revoked"} \subseteq DOMAIN f[r]
  BY DEF DeviceKept
<1>3. Keyed(pg'.devices)
  BY <1>2 DEF DevicesInv, Keyed
<1>4. \A s \in pg'.devices : {"id", "revoked"} \subseteq DOMAIN s /\ \E i \in DOMAIN mem'.devices : mem'.devices[i].id = s.id
  <2> SUFFICES ASSUME NEW r \in pg.devices
               PROVE  {"id", "revoked"} \subseteq DOMAIN f[r] /\ \E i \in DOMAIN mem'.devices : mem'.devices[i].id = f[r].id
    OBVIOUS
  <2>1. PICK i \in DOMAIN mem.devices : mem.devices[i].id = r.id
    BY DEF DevicesInv
  <2> QED
    BY <1>1, <1>2, <2>1
<1>5. DevicesStay
  BY DEF DevicesStay
<1> QED
  BY <1>1, <1>3, <1>4, <1>5 DEF DevicesInv

LEMMA DeviceSaved ==
  ASSUME now \in Nat, HasTables, DevicesInv, SaveDevice
  PROVE  DevicesInv' /\ DevicesStay /\ RestOfDevices
<1>1. PICK id \in Ids :
        LET d == [id |-> id, org |-> Org, version |-> None, caps |-> {}, seen |-> Time, revoked |-> None,
                  enabled |-> FALSE, status |-> None, job |-> None, done |-> 0, at |-> Time]
        IN ~Registered(id) /\ Write("save_device", P!SaveDevice(pg, d), M!SaveDevice(mem, d))
  BY Zenon DEF SaveDevice
<1> DEFINE d == [id |-> id, org |-> Org, version |-> None, caps |-> {}, seen |-> Time, revoked |-> None,
                 enabled |-> FALSE, status |-> None, job |-> None, done |-> 0, at |-> Time]
<1>2. d \in Devices /\ d.id = id /\ {"id", "revoked"} \subseteq DOMAIN d
  BY DEF Devices, Time
<1>3. ~Registered(id) /\ Write("save_device", P!SaveDevice(pg, d), M!SaveDevice(mem, d))
  BY <1>1
<1> HIDE DEF d
<1>4. \A i \in DOMAIN mem.devices : mem.devices[i].id # id
  <2> SUFFICES ASSUME NEW i \in DOMAIN mem.devices, mem.devices[i].id = id PROVE FALSE
    OBVIOUS
  <2>1. PICK j \in DOMAIN mem.devices : M!ById(mem.devices, id) = mem.devices[j]
    BY FirstById DEF DevicesInv
  <2>2. mem.devices[j] \in Devices
    BY DEF DevicesInv
  <2> QED
    BY <1>3, <2>1, <2>2, NoneAssumption DEF Registered, M!FindDevice
<1>5. \A r \in pg.devices : r.id # id
  BY <1>4 DEF DevicesInv
<1>6. now' = now + 1 /\ pg' = P!SaveDevice(pg, d) /\ mem' = M!SaveDevice(mem, d)
  BY <1>3 DEF Write, Call, Time
<1>7. pg' = [pg EXCEPT !.devices = @ \cup {d}]
  BY <1>2, <1>5, <1>6 DEF P!SaveDevice, P!Put
<1>8. mem' = [mem EXCEPT !.devices = Append(@, d)]
  BY <1>2, <1>4, <1>6 DEF M!SaveDevice, M!Place
<1>9. RestOfDevices /\ pg'.devices = pg.devices \cup {d} /\ mem'.devices = Append(mem.devices, d)
  BY <1>6, <1>7, <1>8 DEF RestOfDevices, HasTables
<1>10. mem'.devices \in Seq(Devices)
       /\ \A r \in pg'.devices : \E i \in DOMAIN mem'.devices : mem'.devices[i].id = r.id
  <2>1. mem.devices \in Seq(Devices)
    BY DEF DevicesInv
  <2>2. /\ mem'.devices \in Seq(Devices)
        /\ \A i \in DOMAIN mem.devices : i \in DOMAIN mem'.devices /\ mem'.devices[i] = mem.devices[i]
        /\ Len(mem.devices) + 1 \in DOMAIN mem'.devices /\ mem'.devices[Len(mem.devices) + 1] = d
    BY <1>2, <1>9, <2>1
  <2> QED
    BY <1>9, <2>2 DEF DevicesInv
<1>11. Keyed(pg'.devices) /\ \A r \in pg'.devices : {"id", "revoked"} \subseteq DOMAIN r
  BY <1>2, <1>5, <1>9 DEF DevicesInv, Keyed
<1>12. DevicesStay
  BY <1>9 DEF DevicesStay, DeviceKept, DevicesInv
<1> QED
  BY <1>9, <1>10, <1>11, <1>12 DEF DevicesInv

(* One device of memory is amended, or none. *)
LEMMA Amended ==
  ASSUME NEW v \in Seq(Devices), NEW w,
         w = v \/ \E j, e : w = [v EXCEPT ![j] = e] /\ (j \in DOMAIN v => e \in Devices /\ e.id = v[j].id)
  PROVE  OneRewritten(v, w)
<1>1. CASE w = v
  BY <1>1 DEF OneRewritten
<1>2. ASSUME NEW j, NEW e, w = [v EXCEPT ![j] = e], j \in DOMAIN v => e \in Devices /\ e.id = v[j].id
      PROVE  OneRewritten(v, w)
  <2>1. CASE j \in DOMAIN v
    BY <1>2, <2>1 DEF OneRewritten
  <2>2. CASE j \notin DOMAIN v
    <3>1. w = v
      BY <1>2, <2>2
    <3> QED
      BY <3>1 DEF OneRewritten
  <2> QED
    BY <2>1, <2>2
<1> QED
  BY <1>1, <1>2

(* What the calls write is a device. *)
LEMMA DeviceFields ==
  ASSUME NEW d \in Devices, NEW version \in {None, "1.1", "1.2"}, NEW caps \in SUBSET {"scan", "fix"},
         NEW status \in {None, "idle", "busy"}, NEW job \in {None}, NEW done \in Nat, NEW seen \in Nat
  PROVE  /\ [d EXCEPT !.version = version, !.caps = caps, !.seen = seen] \in Devices
         /\ [d EXCEPT !.seen = seen, !.version = version, !.caps = caps, !.enabled = TRUE, !.status = status] \in Devices
         /\ [d EXCEPT !.status = status, !.job = job, !.done = done] \in Devices
         /\ [d EXCEPT !.revoked = seen] \in Devices
BY DEF Devices

LEMMA InstallationReported ==
  ASSUME now \in Nat, HasTables, DevicesInv, ReportInstallation
  PROVE  DevicesInv' /\ DevicesStay /\ RestOfDevices
<1>1. PICK id \in Ids :
        Write("report_installation", P!ReportInstallation(pg, id, "1.1", {"scan"}, Time),
              M!ReportInstallation(mem, id, "1.1", {"scan"}, Time))
  BY Zenon DEF ReportInstallation
<1>2. now' = now + 1 /\ pg' = P!ReportInstallation(pg, id, "1.1", {"scan"}, now + 1) /\ mem' = M!ReportInstallation(mem, id, "1.1", {"scan"}, now + 1)
  BY <1>1 DEF Write, Call, Time
<1> DEFINE K(d) == [d EXCEPT !.version = "1.1", !.caps = {"scan"}, !.seen = now + 1]
           f == [d \in pg.devices |-> IF d.id = id /\ d.revoked = None THEN K(d) ELSE d]
<1>3. pg' = [pg EXCEPT !.devices = {f[d] : d \in pg.devices}]
  BY <1>2 DEF P!ReportInstallation, P!Set
<1>4. PICK w : mem' = [mem EXCEPT !.devices = w]
               /\ (w = mem.devices \/ \E j : w = [mem.devices EXCEPT ![j] = K(@)])
  <2>1. \/ mem' = [mem EXCEPT !.devices = M!Amend(mem.devices, id, K)]
        \/ mem' = [mem EXCEPT !.devices = mem.devices]
    BY <1>2 DEF M!ReportInstallation
  <2> HIDE DEF K
  <2>2. M!Amend(mem.devices, id, K) = mem.devices
        \/ \E j : M!Amend(mem.devices, id, K) = [mem.devices EXCEPT ![j] = K(@)]
    BY DEF M!Amend, M!Place, M!ById, M!Find
  <2> QED
    BY <2>1, <2>2
<1>5. RestOfDevices /\ pg'.devices = {f[d] : d \in pg.devices} /\ mem'.devices = w
  BY <1>2, <1>3, <1>4 DEF RestOfDevices, HasTables
<1>6. \A d \in pg.devices : DeviceKept(d, f[d])
  BY NoneAssumption DEF DeviceKept, DevicesInv
<1>7. ASSUME NEW d \in Devices PROVE K(d) \in Devices /\ K(d).id = d.id
  <2>1. "1.1" \in {None, "1.1", "1.2"} /\ {"scan"} \in SUBSET {"scan", "fix"} /\ now + 1 \in Nat
    OBVIOUS
  <2>2. K(d) \in Devices
    BY <2>1, DeviceFields, Zenon
  <2>3. K(d).id = d.id
    BY DEF Devices
  <2> QED
    BY <2>2, <2>3
<1> HIDE DEF f, K
<1>8. OneRewritten(mem.devices, w)
  BY <1>4, <1>7, Amended DEF DevicesInv
<1> QED
  BY <1>5, <1>6, <1>8, DevicesRewritten

LEMMA HeartbeatTaken ==
  ASSUME now \in Nat, HasTables, DevicesInv, Heartbeat
  PROVE  DevicesInv' /\ DevicesStay /\ RestOfDevices
<1>1. PICK id \in Ids, version \in {None, "1.2"}, caps \in {{}, {"fix"}} :
        Write("heartbeat", P!Heartbeat(pg, id, version, caps, "idle", Time),
              M!Heartbeat(mem, id, version, caps, "idle", Time))
  BY Zenon DEF Heartbeat
<1>2. now' = now + 1 /\ pg' = P!Heartbeat(pg, id, version, caps, "idle", now + 1) /\ mem' = M!Heartbeat(mem, id, version, caps, "idle", now + 1)
  BY <1>1 DEF Write, Call, Time
<1> DEFINE K(d) == [d EXCEPT !.seen = now + 1, !.version = IF version = None THEN @ ELSE version,
                              !.caps = IF caps = {} THEN @ ELSE caps, !.enabled = TRUE, !.status = "idle"]
           f == [d \in pg.devices |-> IF d.id = id /\ d.revoked = None THEN K(d) ELSE d]
<1>3. pg' = [pg EXCEPT !.devices = {f[d] : d \in pg.devices}]
  BY <1>2 DEF P!Heartbeat, P!Set
<1>4. PICK w : mem' = [mem EXCEPT !.devices = w]
               /\ (w = mem.devices \/ \E j : w = [mem.devices EXCEPT ![j] = K(@)])
  <2>1. \/ mem' = [mem EXCEPT !.devices = M!Amend(mem.devices, id, K)]
        \/ mem' = [mem EXCEPT !.devices = mem.devices]
    BY <1>2 DEF M!Heartbeat
  <2> HIDE DEF K
  <2>2. M!Amend(mem.devices, id, K) = mem.devices
        \/ \E j : M!Amend(mem.devices, id, K) = [mem.devices EXCEPT ![j] = K(@)]
    BY DEF M!Amend, M!Place, M!ById, M!Find
  <2> QED
    BY <2>1, <2>2
<1>5. RestOfDevices /\ pg'.devices = {f[d] : d \in pg.devices} /\ mem'.devices = w
  BY <1>2, <1>3, <1>4 DEF RestOfDevices, HasTables
<1>6. \A d \in pg.devices : DeviceKept(d, f[d])
  BY NoneAssumption DEF DeviceKept, DevicesInv
<1>7. ASSUME NEW d \in Devices PROVE K(d) \in Devices /\ K(d).id = d.id
  <2> DEFINE x == IF version = None THEN d.version ELSE version
             y == IF caps = {} THEN d.caps ELSE caps
  <2>1. /\ x \in {None, "1.1", "1.2"} /\ y \in SUBSET {"scan", "fix"}
        /\ "idle" \in {None, "idle", "busy"} /\ now + 1 \in Nat
    BY DEF Devices
  <2> HIDE DEF x, y
  <2>a. [d EXCEPT !.seen = now + 1, !.version = x, !.caps = y, !.enabled = TRUE, !.status = "idle"] \in Devices
    BY <2>1, DeviceFields, Zenon
  <2>2. K(d) \in Devices
    BY <2>a, Zenon DEF x, y
  <2>3. K(d).id = d.id
    BY DEF Devices
  <2> QED
    BY <2>2, <2>3
<1> HIDE DEF f, K
<1>8. OneRewritten(mem.devices, w)
  BY <1>4, <1>7, Amended DEF DevicesInv
<1> QED
  BY <1>5, <1>6, <1>8, DevicesRewritten

LEMMA DeviceRevoked ==
  ASSUME now \in Nat, HasTables, DevicesInv, RevokeDevice
  PROVE  DevicesInv' /\ DevicesStay /\ RestOfDevices
<1>1. PICK id \in Ids :
        Write("revoke_device", P!RevokeDevice(pg, id, Time),
              M!RevokeDevice(mem, id, Time))
  BY Zenon DEF RevokeDevice
<1>2. now' = now + 1 /\ pg' = P!RevokeDevice(pg, id, now + 1) /\ mem' = M!RevokeDevice(mem, id, now + 1)
  BY <1>1 DEF Write, Call, Time
<1> DEFINE K(d) == [d EXCEPT !.revoked = now + 1]
           f == [d \in pg.devices |-> IF d.id = id THEN K(d) ELSE d]
<1>3. pg' = [pg EXCEPT !.devices = {f[d] : d \in pg.devices}]
  BY <1>2 DEF P!RevokeDevice, P!Set
<1>4. PICK w : mem' = [mem EXCEPT !.devices = w]
               /\ (w = mem.devices \/ \E j : w = [mem.devices EXCEPT ![j] = K(@)])
  <2>1. \/ mem' = [mem EXCEPT !.devices = M!Amend(mem.devices, id, K)]
        \/ mem' = [mem EXCEPT !.devices = mem.devices]
    BY <1>2 DEF M!RevokeDevice
  <2> HIDE DEF K
  <2>2. M!Amend(mem.devices, id, K) = mem.devices
        \/ \E j : M!Amend(mem.devices, id, K) = [mem.devices EXCEPT ![j] = K(@)]
    BY DEF M!Amend, M!Place, M!ById, M!Find
  <2> QED
    BY <2>1, <2>2
<1>5. RestOfDevices /\ pg'.devices = {f[d] : d \in pg.devices} /\ mem'.devices = w
  BY <1>2, <1>3, <1>4 DEF RestOfDevices, HasTables
<1>6. \A d \in pg.devices : DeviceKept(d, f[d])
  BY NoneAssumption DEF DeviceKept, DevicesInv
<1>7. ASSUME NEW d \in Devices PROVE K(d) \in Devices /\ K(d).id = d.id
  <2>1. now + 1 \in Nat
    OBVIOUS
  <2>2. K(d) \in Devices
    BY <2>1, DeviceFields, Zenon
  <2>3. K(d).id = d.id
    BY DEF Devices
  <2> QED
    BY <2>2, <2>3
<1> HIDE DEF f, K
<1>8. OneRewritten(mem.devices, w)
  BY <1>4, <1>7, Amended DEF DevicesInv
<1> QED
  BY <1>5, <1>6, <1>8, DevicesRewritten

LEMMA AgentStatusUpdated ==
  ASSUME now \in Nat, HasTables, DevicesInv, UpdateAgentStatus
  PROVE  DevicesInv' /\ DevicesStay /\ RestOfDevices
<1>1. PICK id \in Ids, status \in {None, "busy"}, increment \in BOOLEAN :
        Write("update_agent_status", P!UpdateAgentStatus(pg, id, status, None, increment),
              M!UpdateAgentStatus(mem, id, status, None, increment))
  BY Zenon DEF UpdateAgentStatus
<1>2. now' = now + 1 /\ pg' = P!UpdateAgentStatus(pg, id, status, None, increment) /\ mem' = M!UpdateAgentStatus(mem, id, status, None, increment)
  BY <1>1 DEF Write, Call, Time
<1> DEFINE K(d) == [d EXCEPT !.status = IF status = None THEN @ ELSE status, !.job = None,
                              !.done = IF increment THEN @ + 1 ELSE @]
           f == [d \in pg.devices |-> IF d.id = id THEN K(d) ELSE d]
<1>3. pg' = [pg EXCEPT !.devices = {f[d] : d \in pg.devices}]
  BY <1>2 DEF P!UpdateAgentStatus, P!Set
<1>4. PICK w : mem' = [mem EXCEPT !.devices = w]
               /\ (w = mem.devices \/ \E j : w = [mem.devices EXCEPT ![j] = K(@)])
  <2>1. \/ mem' = [mem EXCEPT !.devices = M!Amend(mem.devices, id, K)]
        \/ mem' = [mem EXCEPT !.devices = mem.devices]
    BY <1>2 DEF M!UpdateAgentStatus
  <2> HIDE DEF K
  <2>2. M!Amend(mem.devices, id, K) = mem.devices
        \/ \E j : M!Amend(mem.devices, id, K) = [mem.devices EXCEPT ![j] = K(@)]
    BY DEF M!Amend, M!Place, M!ById, M!Find
  <2> QED
    BY <2>1, <2>2
<1>5. RestOfDevices /\ pg'.devices = {f[d] : d \in pg.devices} /\ mem'.devices = w
  BY <1>2, <1>3, <1>4 DEF RestOfDevices, HasTables
<1>6. \A d \in pg.devices : DeviceKept(d, f[d])
  BY NoneAssumption DEF DeviceKept, DevicesInv
<1>7. ASSUME NEW d \in Devices PROVE K(d) \in Devices /\ K(d).id = d.id
  <2> DEFINE x == IF status = None THEN d.status ELSE status
             y == IF increment THEN d.done + 1 ELSE d.done
  <2>1. x \in {None, "idle", "busy"} /\ y \in Nat /\ None \in {None}
    BY DEF Devices
  <2> HIDE DEF x, y
  <2>a. [d EXCEPT !.status = x, !.job = None, !.done = y] \in Devices
    BY <2>1, DeviceFields, Zenon
  <2>2. K(d) \in Devices
    BY <2>a, Zenon DEF x, y
  <2>3. K(d).id = d.id
    BY DEF Devices
  <2> QED
    BY <2>2, <2>3
<1> HIDE DEF f, K
<1>8. OneRewritten(mem.devices, w)
  BY <1>4, <1>7, Amended DEF DevicesInv
<1> QED
  BY <1>5, <1>6, <1>8, DevicesRewritten

LEMMA TokenSaved ==
  ASSUME HasTables, SaveDeviceToken
  PROVE  Elsewhere
<1>1. PICK id \in Ids : Write("save_device_token", P!SaveDeviceToken(pg, id, id, Org, Time),
                              M!SaveDeviceToken(mem, id, id, Org, Time))
  BY Zenon DEF SaveDeviceToken
<1>2. PICK t : pg' = [pg EXCEPT !.tokens = t]
  BY <1>1, Zenon DEF Write, Call, P!SaveDeviceToken
<1>3. PICK v : mem' = [mem EXCEPT !.tokens = v]
  BY <1>1, Zenon DEF Write, Call, M!SaveDeviceToken
<1>4. now' = now + 1
  BY <1>1 DEF Write, Call, Time
<1> QED
  BY <1>2, <1>3, <1>4 DEF HasTables, Elsewhere

LEMMA TokenValidated ==
  ASSUME now \in Nat, HasTables, DevicesInv, ValidateDeviceToken
  PROVE  DevicesInv' /\ DevicesStay /\ RestOfDevices
<1>1. PICK hash \in Ids : /\ now' = now + 1
                          /\ pg' = P!ValidateDeviceToken(pg, hash, Time).db
                          /\ mem' = M!ValidateDeviceToken(mem, hash, Time).db
  BY Zenon DEF ValidateDeviceToken, Call, Time
<1>2. mem' = mem
  BY <1>1 DEF M!ValidateDeviceToken
<1>3. CASE pg' = pg
  BY <1>1, <1>2, <1>3, DevicesUntouched DEF RestOfDevices, HasTables
<1> DEFINE Seen(id) == {IF d.id = id THEN [d EXCEPT !.seen = now + 1] ELSE d : d \in pg.devices}
<1>4. ASSUME NEW id, NEW t, pg' = [pg EXCEPT !.tokens = t, !.devices = Seen(id)]
      PROVE  DevicesInv' /\ DevicesStay /\ RestOfDevices
  <2> DEFINE K(d) == [d EXCEPT !.seen = now + 1]
             f == [d \in pg.devices |-> IF d.id = id THEN K(d) ELSE d]
  <2>1. pg' = [pg EXCEPT !.tokens = t, !.devices = {f[d] : d \in pg.devices}]
    BY <1>4
  <2>2. RestOfDevices /\ pg'.devices = {f[d] : d \in pg.devices} /\ mem'.devices = mem.devices
    BY <1>1, <1>2, <2>1 DEF RestOfDevices, HasTables
  <2>3. \A d \in pg.devices : DeviceKept(d, f[d])
    BY DEF DeviceKept, DevicesInv
  <2> HIDE DEF f
  <2> QED
    BY <2>2, <2>3, DevicesRewritten DEF OneRewritten
<1>5. pg' = pg \/ \E id, t : pg' = [pg EXCEPT !.tokens = t, !.devices = Seen(id)]
  <2> DEFINE tok == P!Row(pg.tokens, LAMBDA r : r.hash = hash)
             dev == IF tok = None THEN None ELSE P!FindDevice(pg, tok.device)
             used == P!Set(pg.tokens, LAMBDA r : r.hash = hash, LAMBDA r : [r EXCEPT !.used = Time])
  <2>1. CASE dev = None \/ (dev # None /\ dev.revoked # None)
    BY <1>1, <2>1 DEF P!ValidateDeviceToken
  <2>2. CASE ~ (dev = None \/ (dev # None /\ dev.revoked # None))
    <3> DEFINE rows == P!Set(pg.devices, LAMBDA r : r.id = dev.id, LAMBDA r : [r EXCEPT !.seen = Time])
    <3>1. rows = Seen(dev.id)
      BY DEF P!Set, Time
    <3>2. pg' = [pg EXCEPT !.tokens = used, !.devices = rows]
      BY <1>1, <2>2 DEF P!ValidateDeviceToken
    <3> HIDE DEF used, rows, dev, Seen
    <3> QED
      BY <3>1, <3>2
  <2> QED
    BY <2>1, <2>2
<1> HIDE DEF Seen
<1> QED
  BY <1>3, <1>4, <1>5

LEMMA TokenRevoked ==
  ASSUME now \in Nat, HasTables, DevicesInv, RevokeDeviceToken
  PROVE  DevicesInv' /\ DevicesStay /\ RestOfDevices
<1>1. PICK hash \in Ids : /\ now' = now + 1
                          /\ pg' = P!RevokeDeviceToken(pg, hash, now + 1)
                          /\ mem' = M!RevokeDeviceToken(mem, hash, now + 1)
  BY Zenon DEF RevokeDeviceToken, Write, Call, Time
<1> DEFINE K(d) == [d EXCEPT !.revoked = now + 1]
           f == [d \in pg.devices |-> IF \E t \in pg.tokens : t.hash = hash /\ t.device = d.id THEN K(d) ELSE d]
<1>2. PICK t : pg' = [pg EXCEPT !.devices = {f[d] : d \in pg.devices}, !.tokens = t]
  BY <1>1 DEF P!RevokeDeviceToken, P!Set
<1>3. PICK w, u : mem' = [mem EXCEPT !.devices = w, !.tokens = u]
                  /\ (w = mem.devices \/ \E j : w = [mem.devices EXCEPT ![j] = K(@)])
  <2>1. \E u, id : \/ mem' = [mem EXCEPT !.devices = M!Amend(mem.devices, id, K), !.tokens = u]
                   \/ mem' = [mem EXCEPT !.devices = mem.devices, !.tokens = u]
    BY <1>1 DEF M!RevokeDeviceToken
  <2> HIDE DEF K
  <2>2. \A id : M!Amend(mem.devices, id, K) = mem.devices
                \/ \E j : M!Amend(mem.devices, id, K) = [mem.devices EXCEPT ![j] = K(@)]
    BY DEF M!Amend, M!Place, M!ById, M!Find
  <2> QED
    BY <2>1, <2>2
<1>4. RestOfDevices /\ pg'.devices = {f[d] : d \in pg.devices} /\ mem'.devices = w
  BY <1>1, <1>2, <1>3 DEF RestOfDevices, HasTables
<1>5. \A d \in pg.devices : DeviceKept(d, f[d])
  BY NoneAssumption DEF DeviceKept, DevicesInv
<1>6. ASSUME NEW d \in Devices PROVE K(d) \in Devices /\ K(d).id = d.id
  <2>1. now + 1 \in Nat
    OBVIOUS
  <2>2. K(d) \in Devices
    BY <2>1, DeviceFields, Zenon
  <2>3. K(d).id = d.id
    BY DEF Devices
  <2> QED
    BY <2>2, <2>3
<1> HIDE DEF f, K
<1>7. OneRewritten(mem.devices, w)
  BY <1>3, <1>6, Amended DEF DevicesInv
<1> QED
  BY <1>4, <1>5, <1>7, DevicesRewritten

LEMMA DevicesKept ==
  ASSUME DevicesInv', DevicesStay, NEW d \in pg.devices, d.revoked # None
  PROVE  P!FindDevice(pg', d.id).revoked # None
<1>1. PICK s \in pg'.devices : DeviceKept(d, s)
  BY DEF DevicesStay
<1>2. P!FindDevice(pg', d.id) = s
  BY <1>1 DEF P!FindDevice, P!Row, DevicesInv, Keyed, DeviceKept
<1> QED
  BY <1>1, <1>2 DEF DeviceKept

-----------------------------------------------------------------------------
(* Every step                                                                *)

LEMMA InitHolds == Init => IInv
<1> SUFFICES ASSUME Init PROVE IInv
  OBVIOUS
<1>1. now = 0
  BY DEF Init
<1>2. /\ {"investigations", "training", "probes", "devices", "tokens"} \subseteq DOMAIN P!Empty
      /\ P!Empty.investigations = {} /\ P!Empty.training = {} /\ P!Empty.probes = {} /\ P!Empty.devices = {}
  BY DEF P!Empty
<1>3. /\ {"probes", "devices", "tokens"} \subseteq DOMAIN M!Empty
      /\ M!Empty.probes = <<>> /\ M!Empty.devices = <<>>
  BY DEF M!Empty
<1>4. \E t : pg = [P!Empty EXCEPT !.organizations = t]
  <2>1. \E t : P!Reset(P!Empty) = [P!Empty EXCEPT !.organizations = t]
    BY Zenon DEF P!Reset
  <2>2. PICK u : pg = [P!Reset(P!Empty) EXCEPT !.organizations = u]
    BY Zenon DEF Init, P!SaveOrganization
  <2> QED
    BY <2>1, <2>2
<1>5. \E v : mem = [M!Empty EXCEPT !.organizations = v]
  BY DEF Init, M!SaveOrganization, M!Reset
<1>6. HasTables
  BY <1>2, <1>3, <1>4, <1>5 DEF HasTables
<1>7. pg.investigations = {} /\ pg.training = {} /\ pg.probes = {} /\ pg.devices = {}
  BY <1>2, <1>4
<1>8. mem.probes = <<>> /\ mem.devices = <<>>
  BY <1>3, <1>5
<1> QED
  BY <1>1, <1>6, <1>7, <1>8 DEF IInv, CasesInv, TrainingInv, ProbesInv, DevicesInv, Keyed

Advances == IInv' /\ CasesGrow /\ TrainingGrows /\ RunsStay /\ DevicesStay

LEMMA ElsewhereAdvances ==
  ASSUME IInv, Elsewhere
  PROVE  Advances
BY CasesUntouched, TrainingUntouched, ProbesUntouched, DevicesUntouched DEF IInv, Elsewhere, Advances

LEMMA CasesAdvance ==
  ASSUME IInv, SaveInvestigation \/ UpdateInvestigation \/ AttachProbe
  PROVE  Advances
<1>1. CasesInv' /\ CasesGrow /\ RestOfCases
  BY CasesSaved, CasesUpdated, ProbesAttached DEF IInv
<1> QED
  BY <1>1, TrainingUntouched, ProbesUntouched, DevicesUntouched DEF IInv, RestOfCases, Advances

LEMMA TrainingAdvances ==
  ASSUME IInv, SaveTraining \/ AttachOutcome \/ AttachAnalystLabel
  PROVE  Advances
<1>1. TrainingInv' /\ TrainingGrows /\ RestOfTraining
  BY TrainingSaved, OutcomeAttached, LabelAttached DEF IInv
<1> QED
  BY <1>1, CasesUntouched, ProbesUntouched, DevicesUntouched DEF IInv, RestOfTraining, Advances

LEMMA ProbesAdvance ==
  ASSUME IInv, Reserve \/ FinishProbe
  PROVE  Advances
<1>1. ProbesInv' /\ RunsStay /\ RestOfProbes
  BY ProbeReserved, ProbeFinished DEF IInv
<1> QED
  BY <1>1, CasesUntouched, TrainingUntouched, DevicesUntouched DEF IInv, RestOfProbes, Advances

LEMMA DevicesAdvance ==
  ASSUME IInv, \/ SaveDevice \/ ReportInstallation \/ Heartbeat \/ UpdateAgentStatus \/ RevokeDevice
               \/ ValidateDeviceToken \/ RevokeDeviceToken
  PROVE  Advances
<1>1. DevicesInv' /\ DevicesStay /\ RestOfDevices
  BY DeviceSaved, InstallationReported, HeartbeatTaken, AgentStatusUpdated, DeviceRevoked, TokenValidated,
     TokenRevoked DEF IInv
<1> QED
  BY <1>1, CasesUntouched, TrainingUntouched, ProbesUntouched DEF IInv, RestOfDevices, Advances

LEMMA StepAdvances ==
  ASSUME IInv, [Next]_vars
  PROVE  Advances
<1>1. CASE UNCHANGED vars
  <2>1. now' = now /\ pg' = pg /\ mem' = mem
    BY <1>1 DEF vars
  <2> QED
    BY <2>1, CasesUntouched, TrainingUntouched, ProbesUntouched, DevicesUntouched DEF IInv, HasTables, Advances
<1>2. CASE \/ UpsertAsset \/ SaveDrift \/ SaveCertificate \/ RecordHeartbeat \/ SaveFinding \/ LinkAsset
           \/ SaveSession \/ SaveObservation
  BY <1>2, RegistryElsewhere, ElsewhereAdvances DEF IInv
<1>3. CASE \/ SaveMx \/ SaveTlsa \/ SaveMtaSts \/ SaveTlsRpt \/ SaveReport \/ SaveCt \/ SaveCtEvent
           \/ SaveRefresh \/ SaveBaseline \/ SaveAnomaly
  BY <1>3, IntelligenceElsewhere, ElsewhereAdvances DEF IInv
<1>4. CASE SaveDecision \/ CreateRemediation \/ UpdateRemediation \/ SavePosture
  BY <1>4, CaseElsewhere, ElsewhereAdvances DEF IInv
<1>5. CASE \/ SaveIntegration \/ UpdateIntegration \/ DeleteIntegration \/ Archive \/ SaveAssessment
           \/ AddMember \/ SaveOrganization
  BY <1>5, WorkspaceElsewhere, ElsewhereAdvances DEF IInv
<1>6. CASE \/ CreateChallenge \/ ApproveChallenge \/ CreateJob \/ LeaseNextJob \/ LeaseNextCloudJob
           \/ UpdateJob \/ RecoverExpiredLeases \/ CancelActive \/ SaveMonitor \/ DeleteMonitor
  BY <1>6, DispatchElsewhere, ElsewhereAdvances DEF IInv
<1>7. CASE SaveDeviceToken
  BY <1>7, TokenSaved, ElsewhereAdvances DEF IInv
<1> QED
  BY <1>1, <1>2, <1>3, <1>4, <1>5, <1>6, <1>7, CasesAdvance, TrainingAdvances, ProbesAdvance, DevicesAdvance
  DEF Next

LEMMA HistoryInvariant == Spec => []IInv
<1>1. IInv /\ [Next]_vars => IInv'
  BY StepAdvances DEF Advances
<1> QED
  BY <1>1, InitHolds, PTL DEF Spec

(* HistoryKept, for any names, families, numbers of calls and cooldown:    *)
(* PostgresStorage forgets nothing of a case, an outcome, a reserved run   *)
(* or a revocation, in whatever order the handlers call it (save,          *)
(* update_status and attach_probe of investigations, and the methods of    *)
(* training records, probe runs and devices).                              *)
THEOREM HistoryStands == Spec => HistoryKept
<1>1. IInv /\ [Next]_vars => [StepKeepsHistory]_vars
  <2> SUFFICES ASSUME IInv, [Next]_vars PROVE StepKeepsHistory
    OBVIOUS
  <2>1. Advances
    BY StepAdvances
  <2>2. \A id \in Ids : CaseKept(id)
    BY <2>1, CasesKept DEF IInv, Advances
  <2>3. \A t \in pg.training : \A request \in DOMAIN t.outcomes :
          P!FindTraining(pg', t.id).outcomes[request] = t.outcomes[request]
    BY <2>1, TrainingKept DEF IInv, Advances
  <2>4. \A r \in pg.probes : P!FindProbe(pg', r.id) # None
    BY <2>1, RunsKept DEF IInv, Advances
  <2>5. \A d \in pg.devices : d.revoked # None => P!FindDevice(pg', d.id).revoked # None
    BY <2>1, DevicesKept DEF IInv, Advances
  <2> QED
    BY <2>2, <2>3, <2>4, <2>5 DEF StepKeepsHistory
<1> QED
  BY <1>1, HistoryInvariant, PTL DEF Spec, HistoryKept
=============================================================================
