---- MODULE StoreAgreement ----
(***************************************************************************)
(* Core runs on either store: DualStorage sends the calls of a guest's     *)
(* request to InMemoryStorage and all others to PostgresStorage, and every *)
(* handler is written once.  Here both stores are given the same calls,    *)
(* those the handlers make, and must answer alike.  A behaviour exercises  *)
(* one family of repositories; `now' counts its calls and is their time.   *)
(***************************************************************************)
EXTENDS StoreTables

CONSTANTS Ids,        \* names of assets, cases, devices, domains, ...
          Families,   \* the families of repositories exercised
          Calls,      \* how many calls of each family are made
          Seconds,    \* seconds between two calls
          Cooldown    \* calls a target of a probe rests

VARIABLES family, now, pg, mem, call, ans

vars == <<family, now, pg, mem, call, ans>>

MaxCalls == Calls[family]

P == INSTANCE PostgresStore
M == INSTANCE MemoryStore

Org == P!DefaultOrganization
Orgs == {Org, "other"}
Time == now + 1
All == Cardinality(Ids) * MaxCalls

\* The names of an enumeration, in the program and in its column
Names(column) == DOMAIN column \cup {column[v] : v \in DOMAIN column}

\* A case, a run of a probe and a device
Cases ==
  [id : Ids, asset : Ids, status : Names(P!Columns["status"]), risk : Names(P!Columns["risk"]),
   findings : SUBSET Ids, drifts : SUBSET Ids, probes : UNION {[runs -> {"verified", "failed"}] : runs \in SUBSET Ids},
   first : Nat, at : Nat]
ProbeRuns ==
  [id : Nat, asset : Ids, case : Ids, target : Ids, at : Nat, finished : Nat \cup {None},
   trigger : Names(P!ProbeColumns["trigger"]), outcome : Names(P!ProbeColumns["outcome"])]
Devices ==
  [id : Ids, org : {Org}, version : {None, "1.1", "1.2"}, caps : SUBSET {"scan", "fix"}, seen : Nat,
   revoked : Nat \cup {None}, enabled : BOOLEAN, status : {None, "idle", "busy"}, job : {None}, done : Nat, at : Nat]

\* NULL and Option::None: no time and no row
ASSUME NoneAssumption == None \notin Nat \cup Cases \cup ProbeRuns \cup Devices

Init ==
  /\ family \in Families
  /\ now = 0
  /\ call = "connect" /\ ans = [pg |-> "ok", mem |-> "ok"]
  /\ pg = P!SaveOrganization(P!Reset(P!Empty), [id |-> "other", slug |-> "other"])
  /\ mem = M!SaveOrganization(M!Reset(M!Empty), [id |-> "other", slug |-> "other"])

\* One call of a method, given to both stores
Call(name, p, m, answers) ==
  /\ now < MaxCalls
  /\ now' = Time
  /\ call' = name
  /\ pg' = p /\ mem' = m
  /\ ans' = answers
  /\ UNCHANGED family
Write(name, p, m) == Call(name, p, m, [pg |-> "ok", mem |-> "ok"])
Ask(name, p, m) == Call(name, p.db, m.db, [pg |-> p.answer, mem |-> m.answer])

----------------------------------------------------------------------------
(* Assets and what is observed about them.                                 *)

\* A handler reads an asset, or starts a new one, extends it and stores it whole.
NewAsset(id) == [id |-> id, org |-> Org, name |-> None, addrs |-> {}, first |-> Time, at |-> Time, idents |-> {}, ends |-> {}]
Extensions(a) ==
  {[a EXCEPT !.name = a.id, !.at = Time]}
  \cup {[a EXCEPT !.addrs = @ \cup {k}, !.at = Time] : k \in Ids}
  \cup {[a EXCEPT !.idents = @ \cup {k}, !.at = Time] : k \in Ids}
  \cup {[a EXCEPT !.ends = {[port |-> 25, tls |-> t]}, !.at = Time] : t \in BOOLEAN}
Stored(id) == M!FindAsset(mem, id) # None

UpsertAsset ==
  /\ family = "assets"
  /\ \E id \in Ids : \E a \in Extensions(IF Stored(id) THEN M!FindAsset(mem, id) ELSE NewAsset(id)) :
       Write("upsert", P!UpsertAsset(pg, a), M!UpsertAsset(mem, a))

\* Every kind of event once, then one kind: the column is the same for all.
SaveDrift ==
  /\ family = "assets"
  /\ \E id \in Ids : \E kind \in (IF mem.drifts = <<>> THEN P!DriftKinds ELSE {"NewEndpoint"}) :
       LET e == [id |-> Time, asset |-> id, at |-> Time, kind |-> kind]
       IN Stored(id) /\ Ask("save_drift_event", P!SaveDrift(pg, e), M!SaveDrift(mem, e))

SaveCertificate ==
  /\ family = "certificates"
  /\ \E fp \in Ids : \E assets \in SUBSET Ids :
       LET c == [fp |-> fp, issuer |-> "issuer", at |-> Time, assets |-> assets]
       IN Write("save", P!SaveCertificate(pg, c), M!SaveCertificate(mem, c))

RecordHeartbeat ==
  /\ family = "sensors"
  /\ \E id \in Ids : \E mode \in {"pcap", "live"} :
       LET h == [id |-> id, mode |-> mode]
       IN Write("record_heartbeat", P!RecordHeartbeat(pg, h, Time), M!RecordHeartbeat(mem, h, Time))

\* The identifier of a finding is derived from its rule and its subject.
SaveFinding ==
  /\ family = "findings"
  /\ \E id \in Ids : \E sessions \in SUBSET Ids :
       LET f == [id |-> id, rule |-> id, count |-> Time, at |-> Time,
                 evidence |-> {[session |-> s, words |-> "seen"] : s \in sessions}]
       IN Ask("save", P!SaveFinding(pg, f), M!SaveFinding(mem, f))
LinkAsset ==
  /\ family = "findings"
  /\ \E f \in Ids : \E a \in Ids :
       M!FindFinding(mem, f) # None /\ Ask("link_asset", P!LinkAsset(pg, f, a), M!LinkAsset(mem, f, a))

SaveSession ==
  /\ family = "sessions"
  /\ \E id \in Ids : \E data \in {"tls", "clear"} :
       LET s == [id |-> id, data |-> data, ips |-> {id}, at |-> Time]
       IN Ask("save", P!SaveSession(pg, s), M!SaveSession(mem, s))
SaveObservation ==
  /\ family = "sessions"
  /\ \E id \in Ids : \E flow \in {"one", "two"} :
       LET old == M!FindObservation(mem, id)
           o == [id |-> id, flow |-> flow, at |-> IF old = None THEN Time ELSE old.at]
       IN Ask("save", P!SaveObservation(pg, o), M!SaveObservation(mem, o))

----------------------------------------------------------------------------
(* Intelligence, baselines and anomalies.                                  *)

SaveMx ==
  /\ family = "domains"
  /\ \E d \in Ids : \E hosts \in SUBSET Ids :
       LET records == {[host |-> h, priority |-> IF h = d THEN 10 ELSE 20] : h \in hosts}
       IN Write("save_mx_records", P!SaveMx(pg, d, records), M!SaveMx(mem, d, records))
SaveTlsa ==
  /\ family = "domains"
  /\ \E d \in Ids : \E hosts \in SUBSET Ids :
       Write("save_tlsa_records", P!SaveTlsa(pg, d, hosts), M!SaveTlsa(mem, d, hosts))
SaveMtaSts ==
  /\ family = "policies"
  /\ \E d \in Ids : \E mode \in DOMAIN P!Columns["mode"] :
       LET p == [domain |-> d, mode |-> mode]
       IN Write("save_mta_sts_policy", P!SaveMtaSts(pg, p), M!SaveMtaSts(mem, p))
SaveTlsRpt ==
  /\ family = "policies"
  /\ \E d \in Ids : \E uri \in {"mailto", "https"} :
       LET p == [domain |-> d, uri |-> uri]
       IN Write("save_tls_rpt_policy", P!SaveTlsRpt(pg, p), M!SaveTlsRpt(mem, p))
SaveReport ==
  /\ family = "domains"
  /\ \E d \in Ids : LET r == [id |-> Time, domain |-> d, at |-> Time]
                    IN Write("save_tls_rpt_report", P!SaveReport(pg, r), M!SaveReport(mem, r))
\* A certificate names one domain.
SaveCt ==
  /\ family = "transparency"
  /\ \E d \in Ids : \E fps \in SUBSET {1, 2} : \E observed \in BOOLEAN :
       LET certs == {[fp |-> <<d, n>>, observed |-> observed, seen |-> IF observed THEN Time ELSE None] : n \in fps}
       IN Write("save_ct_certificates", P!SaveCt(pg, d, certs), M!SaveCt(mem, d, certs))
SaveCtEvent ==
  /\ family = "transparency"
  /\ \E d \in Ids : LET e == [id |-> Time, domain |-> d, at |-> Time]
                    IN Write("save_ct_event", P!SaveCtEvent(pg, e), M!SaveCtEvent(mem, e))
SaveRefresh ==
  /\ family = "policies"
  /\ \E d \in Ids : \E next \in {None, now, Time + 1} :
       LET s == [domain |-> d, next |-> next]
       IN Write("save_refresh_status", P!SaveRefresh(pg, s), M!SaveRefresh(mem, s))
SaveBaseline ==
  /\ family = "transparency"
  /\ \E a \in Ids : LET b == [asset |-> a, samples |-> Time]
                    IN Write("save_baseline", P!SaveBaseline(pg, b), M!SaveBaseline(mem, b))
SaveAnomaly ==
  /\ family = "transparency"
  /\ \E a \in Ids : LET s == [id |-> Time, asset |-> a, at |-> Time]
                    IN Write("save_anomaly", P!SaveAnomaly(pg, s), M!SaveAnomaly(mem, s))

----------------------------------------------------------------------------
(* Cases, probes, training, remediation and posture.                       *)

SaveInvestigation ==
  /\ family = "cases"
  /\ \E id \in Ids : \E risk \in {"Low", "Critical"} : \E fs \in SUBSET Ids :
       LET i == [id |-> id, asset |-> id, status |-> "Open", risk |-> risk, findings |-> fs, drifts |-> {id},
                 probes |-> M!NoMap, first |-> Time, at |-> Time]
       IN Write("save", P!SaveInvestigation(pg, i), M!SaveInvestigation(mem, i))
UpdateInvestigation ==
  /\ family = "cases"
  /\ \E id \in Ids : \E status \in DOMAIN P!Columns["status"] :
       Write("update_status", P!UpdateInvestigation(pg, id, status, Time), M!UpdateInvestigation(mem, id, status, Time))
AttachProbe ==
  /\ family = "cases"
  /\ \E case \in Ids : \E run \in Ids : \E outcome \in {"verified", "failed"} :
       LET r == [id |-> run, case |-> case, asset |-> case, outcome |-> outcome]
       IN Write("attach_probe", P!AttachProbe(pg, r), M!AttachProbe(mem, r))
SaveDecision ==
  /\ family = "cases"
  /\ LET d == [id |-> Time, at |-> Time] IN Write("save_record", P!SaveDecision(pg, d), M!SaveDecision(mem, d))

Reserve ==
  /\ family = "probes"
  /\ \E asset \in Ids : \E target \in Ids :
     \E trigger \in (IF mem.probes = <<>> THEN DOMAIN P!ProbeColumns["trigger"] ELSE {"Scheduled"}) :
       LET r == [id |-> Time, asset |-> asset, case |-> asset, target |-> target, at |-> Time,
                 finished |-> None, trigger |-> trigger, outcome |-> "InternalError"]
       IN Ask("reserve", P!Reserve(pg, r, Cooldown), M!Reserve(mem, r, Cooldown))
FinishProbe ==
  /\ family = "probes"
  /\ \E id \in 1..MaxCalls : \E outcome \in DOMAIN P!ProbeColumns["outcome"] :
       /\ M!FindProbe(mem, id) # None
       /\ LET r == [M!FindProbe(mem, id) EXCEPT !.finished = Time, !.outcome = outcome]
          IN \/ Write("update", P!UpdateProbe(pg, r), M!UpdateProbe(mem, r))
             \/ Write("save", P!SaveProbe(pg, r), M!SaveProbe(mem, r))

SaveTraining ==
  /\ family = "training"
  /\ \E id \in Ids : \E features \in {"f", "g"} :
       LET old == M!FindTraining(mem, id)
           t == [id |-> id, case |-> id, asset |-> id, features |-> features, label |-> None,
                 outcomes |-> M!NoMap, at |-> IF old = None THEN Time ELSE old.at]
       IN Ask("save", P!SaveTraining(pg, t), M!SaveTraining(mem, t))
AttachOutcome ==
  /\ family = "training"
  /\ \E id \in Ids : \E request \in Ids : \E outcome \in {"verified", "failed"} :
       /\ M!FindTraining(mem, id) # None
       /\ Ask("attach_remediation_outcome", P!AttachOutcome(pg, id, request, outcome),
              M!AttachOutcome(mem, id, request, outcome))
AttachAnalystLabel ==
  /\ family = "training"
  /\ \E id \in Ids : \E label \in {"confirmed", "benign"} :
       Ask("attach_analyst_label", P!AttachAnalystLabel(pg, id, label), M!AttachAnalystLabel(mem, id, label))

CreateRemediation ==
  /\ family = "remediations"
  /\ \E id \in Ids : \E state \in {"open", "verifying"} :
       LET m == [id |-> id, asset |-> id, state |-> state, revision |-> 0]
       IN Ask("create", P!CreateRemediation(pg, m), M!CreateRemediation(mem, m))
UpdateRemediation ==
  /\ family = "remediations"
  /\ \E id \in Ids : \E expected \in 0..1 : \E state \in {"verifying", "verified"} :
       LET m == [id |-> id, asset |-> id, state |-> state, revision |-> expected + 1]
       IN Ask("update", P!UpdateRemediation(pg, m, expected), M!UpdateRemediation(mem, m, expected))
SavePosture ==
  /\ family = "remediations"
  /\ \E id \in Ids : \E score \in {40, 90} :
       LET p == [id |-> id, asset |-> id, score |-> score, at |-> Time]
       IN Write("save_snapshot", P!SavePosture(pg, p), M!SavePosture(mem, p))

----------------------------------------------------------------------------
(* The workspace: integrations, archive, assessments, organizations.       *)

SaveIntegration ==
  /\ family = "workspace"
  /\ \E id \in Ids : \E enabled \in BOOLEAN :
       LET old == M!FindIntegration(mem, id)
           c == [id |-> id, enabled |-> enabled, outcome |-> None, changed |-> Time,
                 at |-> IF old = None THEN Time ELSE old.at]
       IN Write("save", P!SaveIntegration(pg, c), M!SaveIntegration(mem, c))
UpdateIntegration ==
  /\ family = "workspace"
  /\ \E id \in Ids : \E outcome \in {"delivered", "refused"} :
       Write("update_status", P!UpdateIntegration(pg, id, outcome, Time), M!UpdateIntegration(mem, id, outcome, Time))
DeleteIntegration ==
  /\ family = "workspace"
  /\ \E id \in Ids : Ask("delete", P!DeleteIntegration(pg, id), M!DeleteIntegration(mem, id))
Archive ==
  /\ family = "workspace"
  /\ \E subject \in Ids : LET r == [id |-> Time, subject |-> subject, at |-> Time, notes |-> "", text |-> Time]
                          IN Write("archive", P!Archive(pg, r), M!Archive(mem, r))

\* A synchronised assessment is stored anew, or the stored one is edited.
SaveAssessment ==
  /\ family = "assessments"
  /\ \E id \in Ids : \E org \in Orgs : \E device \in Ids \cup {None} :
       LET old == M!FindAssessment(mem, id)
           a == [id |-> id, org |-> IF old = None THEN org ELSE old.org, capture |-> id, kind |-> "infrastructure",
                 device |-> device, synced |-> IF device = None THEN None ELSE Time,
                 findings |-> IF old = None THEN {} ELSE {id}, at |-> IF old = None THEN Time ELSE old.at]
       IN Write("save", P!SaveAssessment(pg, a), M!SaveAssessment(mem, a))
AddMember ==
  /\ family = "organizations"
  /\ \E org \in Orgs : \E user \in Ids : \E role \in {"admin", "member"} :
       LET m == [org |-> org, user |-> user, role |-> role] IN Write("add_member", P!AddMember(pg, m), M!AddMember(mem, m))
SaveOrganization ==
  /\ family = "organizations"
  /\ \E slug \in Ids : LET o == [id |-> "other", slug |-> slug]
                       IN Write("save", P!SaveOrganization(pg, o), M!SaveOrganization(mem, o))

----------------------------------------------------------------------------
(* Devices, jobs and monitors.                                             *)

Registered(id) == M!FindDevice(mem, id) # None

SaveDevice ==
  /\ family = "devices"
  /\ \E id \in Ids :
       LET d == [id |-> id, org |-> Org, version |-> None, caps |-> {}, seen |-> Time, revoked |-> None,
                 enabled |-> FALSE, status |-> None, job |-> None, done |-> 0, at |-> Time]
       IN ~Registered(id) /\ Write("save_device", P!SaveDevice(pg, d), M!SaveDevice(mem, d))
ReportInstallation ==
  /\ family = "devices"
  /\ \E id \in Ids : Write("report_installation", P!ReportInstallation(pg, id, "1.1", {"scan"}, Time),
                           M!ReportInstallation(mem, id, "1.1", {"scan"}, Time))
Heartbeat ==
  /\ family = "devices"
  /\ \E id \in Ids : \E version \in {None, "1.2"} : \E caps \in {{}, {"fix"}} :
       Write("heartbeat", P!Heartbeat(pg, id, version, caps, "idle", Time), M!Heartbeat(mem, id, version, caps, "idle", Time))
UpdateAgentStatus ==
  /\ family = "devices"
  /\ \E id \in Ids : \E status \in {None, "busy"} : \E increment \in BOOLEAN :
       Write("update_agent_status", P!UpdateAgentStatus(pg, id, status, None, increment),
             M!UpdateAgentStatus(mem, id, status, None, increment))
RevokeDevice ==
  /\ family = "devices"
  /\ \E id \in Ids : Write("revoke_device", P!RevokeDevice(pg, id, Time), M!RevokeDevice(mem, id, Time))
SaveDeviceToken ==
  /\ family = "devices"
  /\ \E id \in Ids : /\ Registered(id)
                     /\ Write("save_device_token", P!SaveDeviceToken(pg, id, id, Org, Time),
                              M!SaveDeviceToken(mem, id, id, Org, Time))
ValidateDeviceToken ==
  /\ family = "devices"
  /\ \E hash \in Ids :
       LET p == P!ValidateDeviceToken(pg, hash, Time)
           m == M!ValidateDeviceToken(mem, hash, Time)
           Known(v) == IF v = None THEN None ELSE [id |-> v.device.id, caps |-> v.device.caps, org |-> v.org]
       IN Call("validate_device_token", p.db, m.db, [pg |-> Known(p.answer), mem |-> Known(m.answer)])
RevokeDeviceToken ==
  /\ family = "devices"
  /\ \E hash \in Ids : Write("revoke_device_token", P!RevokeDeviceToken(pg, hash, Time), M!RevokeDeviceToken(mem, hash, Time))

CreateChallenge ==
  /\ family = "challenges"
  /\ \E code \in Ids : LET c == [code |-> code, expires |-> Time + 2, user |-> None, org |-> None,
                                 token |-> None, device |-> None]
                       IN Write("create_challenge", P!CreateChallenge(pg, c), M!CreateChallenge(mem, c))
ApproveChallenge ==
  /\ family = "challenges"
  /\ \E code \in Ids : \E user \in Ids :
       Write("approve_challenge", P!ApproveChallenge(pg, code, user, Org, Time, Time),
             M!ApproveChallenge(mem, code, user, Org, Time, Time))

CreateJob ==
  /\ family = "jobs"
  /\ \E target \in Ids \cup {None} :
       LET j == [id |-> Time, org |-> Org, target |-> target, kind |-> IF target = None THEN "cloud" ELSE "agent",
                 state |-> "pending", at |-> Time, lease |-> None, attempt |-> 0, max |-> 1, key |-> Time,
                 result |-> None]
       IN Write("create_job", P!CreateJob(pg, j), M!CreateJob(mem, j))
LeaseNextJob ==
  /\ family = "jobs"
  /\ \E agent \in Ids : Ask("lease_next_job", P!LeaseNextJob(pg, agent, Org, Time, 0), M!LeaseNextJob(mem, agent, Org, Time, 0))
LeaseNextCloudJob ==
  /\ family = "jobs"
  /\ Ask("lease_next_cloud_job", P!LeaseNextCloudJob(pg, Time, 0), M!LeaseNextCloudJob(mem, Time, 0))
\* A handler reads the job, edits it and stores it.
UpdateJob ==
  /\ family = "jobs"
  /\ \E id \in 1..MaxCalls : \E state \in {"running", "completed"} :
       /\ M!FindJob(mem, id) # None
       /\ LET j == [M!FindJob(mem, id) EXCEPT !.state = state, !.result = IF state = "completed" THEN id ELSE @]
          IN Write("update_job", P!UpdateJob(pg, j), M!UpdateJob(mem, j))
RecoverExpiredLeases ==
  /\ family = "jobs"
  /\ Ask("recover_expired_leases", P!RecoverExpiredLeases(pg, Time), M!RecoverExpiredLeases(mem, Time))
CancelActive ==
  /\ family = "jobs"
  /\ \E id \in Ids : Ask("cancel_active_for_device", P!CancelActive(pg, Org, id, Time), M!CancelActive(mem, Org, id, Time))

\* There is one monitor of a domain in an organization, and it is edited.
SaveMonitor ==
  /\ family = "monitors"
  /\ \E org \in Orgs : \E d \in Ids : \E enabled \in BOOLEAN : \E next \in {now, Time + 2} :
       LET m == [id |-> <<org, d>>, org |-> org, domain |-> [name |-> d, spelling |-> "upper"],
                 enabled |-> enabled, next |-> next]
       IN Write("save", P!SaveMonitor(pg, m), M!SaveMonitor(mem, m))
DeleteMonitor ==
  /\ family = "monitors"
  /\ \E org \in Orgs : \E owner \in Orgs : \E d \in Ids :
       Ask("delete", P!DeleteMonitor(pg, <<org, d>>, owner), M!DeleteMonitor(mem, <<org, d>>, owner))

Next ==
  \/ UpsertAsset \/ SaveDrift \/ SaveCertificate \/ RecordHeartbeat \/ SaveFinding \/ LinkAsset
  \/ SaveSession \/ SaveObservation \/ SaveMx \/ SaveTlsa \/ SaveMtaSts \/ SaveTlsRpt \/ SaveReport
  \/ SaveCt \/ SaveCtEvent \/ SaveRefresh \/ SaveBaseline \/ SaveAnomaly
  \/ SaveInvestigation \/ UpdateInvestigation \/ AttachProbe \/ SaveDecision \/ Reserve \/ FinishProbe
  \/ SaveTraining \/ AttachOutcome \/ AttachAnalystLabel \/ CreateRemediation \/ UpdateRemediation \/ SavePosture
  \/ SaveIntegration \/ UpdateIntegration \/ DeleteIntegration \/ Archive \/ SaveAssessment \/ AddMember
  \/ SaveOrganization \/ SaveDevice \/ ReportInstallation \/ Heartbeat \/ UpdateAgentStatus \/ RevokeDevice
  \/ SaveDeviceToken \/ ValidateDeviceToken \/ RevokeDeviceToken \/ CreateChallenge \/ ApproveChallenge
  \/ CreateJob \/ LeaseNextJob \/ LeaseNextCloudJob \/ UpdateJob \/ RecoverExpiredLeases \/ CancelActive
  \/ SaveMonitor \/ DeleteMonitor

Spec == Init /\ [][Next]_vars

----------------------------------------------------------------------------
(* Properties                                                              *)

\* A call that can be refused, or that answers with what it found, is answered
\* alike by both stores: the same deliveries are conflicts, the same probe is
\* reserved, the same job leased, the same token known.
AnswersAgree ==
  LET Plain(v) == IF call \in {"lease_next_job", "lease_next_cloud_job"} /\ v # None THEN v.id ELSE v
  IN Plain(ans.pg) = Plain(ans.mem)

\* What was stored about assets, certificates, sensors, findings and sessions is
\* read back alike, at every limit where the order is the same.  Of the assets
\* known by a key Postgres may give any, memory gives the first.
RegistryAgree ==
  /\ P!ListAssets(pg) = M!ListAssets(mem)
  /\ \A k \in Ids :
       /\ P!FindAsset(pg, k) = M!FindAsset(mem, k)
       /\ M!AssetsKnownAs(mem, k) \subseteq P!AssetsKnownAsScoped(pg, k, None)
       /\ P!AssetsKnownAsScoped(pg, k, Org) # {} => M!AssetsKnownAs(mem, k) # {}
       /\ \A n \in 1..2 : P!ListDrifts(pg, k, n) = M!ListDrifts(mem, k, n)
       /\ P!FindCertificate(pg, k) = M!FindCertificate(mem, k)
       /\ {c.fp : c \in P!CertificatesForAsset(pg, k)} = {c.fp : c \in M!CertificatesForAsset(mem, k)}
       /\ P!GetSensor(pg, k, now, Seconds) = M!GetSensor(mem, k, now, Seconds)
       /\ P!FindFinding(pg, k) = M!FindFinding(mem, k)
       /\ P!FindingsForSession(pg, k) = M!FindingsForSession(mem, k)
       /\ P!FindingsForAsset(pg, k) = M!FindingsForAsset(mem, k)
       /\ P!FindSession(pg, k) = M!FindSession(mem, k)
       /\ RowsOf(P!SessionsForAsset(pg, k, All)) = RowsOf(M!SessionsForAsset(mem, k, All))
       /\ P!FindObservation(pg, k) = M!FindObservation(mem, k)
  /\ P!ListDrifts(pg, None, All) = M!ListDrifts(mem, None, All)
  /\ P!ListCertificates(pg) = M!ListCertificates(mem)
  /\ P!ListFindings(pg) = M!ListFindings(mem)
  /\ RowsOf(P!ListSessions(pg, All)) = RowsOf(M!ListSessions(mem, All))
  /\ \A n \in 1..2 : P!ListObservations(pg, n) = M!ListObservations(mem, n)

\* The intelligence of a domain, its baselines and anomalies are read back alike.
\* Postgres remembers certificates that a later fetch no longer lists.
IntelligenceAgree ==
  /\ \A d \in Ids :
       /\ {[host |-> r.host, priority |-> r.priority] : r \in RowsOf(P!GetMx(pg, d))} = M!GetMx(mem, d)
       /\ P!GetTlsa(pg, d) = M!GetTlsa(mem, d)
       /\ P!GetMtaSts(pg, d) = M!GetMtaSts(mem, d)
       /\ P!GetTlsRpt(pg, d) = M!GetTlsRpt(mem, d)
       /\ P!GetRefresh(pg, d) = M!GetRefresh(mem, d)
       /\ P!GetBaseline(pg, d) = M!GetBaseline(mem, d)
       /\ \A c \in M!GetCt(mem, d) : \E r \in P!GetCt(pg, d) : r.fp = c.fp /\ r.observed = c.observed
       /\ \A n \in 1..2 :
            /\ P!ListReports(pg, d, n) = M!ListReports(mem, d, n)
            /\ P!ListCtEvents(pg, d, n) = M!ListCtEvents(mem, d, n)
            /\ P!ListAnomalies(pg, d, n) = M!ListAnomalies(mem, d, n)
  /\ P!DueRefreshes(pg, now) = M!DueRefreshes(mem, now)

\* Cases, their probes, training records, remediations and posture are read back
\* alike, enumerations included: no value is stored under a name that is read as
\* another.
CasesAgree ==
  /\ \A kind \in DOMAIN P!Columns : \A v \in DOMAIN P!Columns[kind] : P!Parsed(kind, P!Shown(kind, v)) = v
  /\ \A id \in Ids :
       /\ P!FindInvestigation(pg, id) = M!FindInvestigation(mem, id)
       /\ P!InvestigationsForAsset(pg, id) = M!InvestigationsForAsset(mem, id)
       /\ P!FindTraining(pg, id) = M!FindTraining(mem, id)
       /\ P!FindRemediation(pg, id) = M!FindRemediation(mem, id)
       /\ P!RemediationsForAsset(pg, id) = M!RemediationsForAsset(mem, id)
       /\ P!LatestPosture(pg, id) = M!LatestPosture(mem, id)
       /\ \A target \in Ids : P!LatestForTarget(pg, id, target) = M!LatestForTarget(mem, id, target)
       /\ \A n \in 1..2 :
            /\ P!ProbesForAsset(pg, id, n) = M!ProbesForAsset(mem, id, n)
            /\ P!ListTraining(pg, id, None, n) = M!ListTraining(mem, id, None, n)
            /\ P!PosturesForAsset(pg, id, n) = M!PosturesForAsset(mem, id, n)
  /\ \A n \in 1..2 :
       /\ P!ListInvestigations(pg, n) = M!ListInvestigations(mem, n)
       /\ P!ListDecisions(pg, n) = M!ListDecisions(mem, n)
       /\ P!ListProbes(pg, n) = M!ListProbes(mem, n)
       /\ P!ListUnlabeled(pg, n) = M!ListUnlabeled(mem, n)
  /\ P!Unfinished(pg) = M!Unfinished(mem)
  /\ P!ListVerifying(pg) = M!ListVerifying(mem)

\* Integrations, archived reports, assessments and memberships are read back alike.
WorkspaceAgree ==
  /\ \A id \in Ids :
       /\ P!FindIntegration(pg, id) = M!FindIntegration(mem, id)
       /\ P!ArchiveForSubject(pg, id) = M!ArchiveForSubject(mem, id)
       /\ P!FindAssessment(pg, id) = M!FindAssessment(mem, id)
       /\ \A org \in Orgs : P!FindAssessmentScoped(pg, id, org) = M!FindAssessmentScoped(mem, id, org)
       /\ P!FindBySlug(pg, id) = M!FindBySlug(mem, id)
       /\ \A org \in Orgs : P!GetMember(pg, org, id) = M!GetMember(mem, org, id)
       /\ (\E org \in Orgs : M!GetMember(mem, org, id) # None) => P!ListForUser(pg, id) = M!ListForUser(mem, id)
  /\ \A n \in 1..MaxCalls : P!FindArchived(pg, n) = M!FindArchived(mem, n)
  /\ P!ListIntegrations(pg) = M!ListIntegrations(mem)
  /\ P!ListArchive(pg, 2) = M!ListArchive(mem, 2)
  /\ P!ListAssessments(pg) = M!ListAssessments(mem)
  /\ \A org \in Orgs :
       /\ P!AssessmentsForOrg(pg, org) = M!AssessmentsForOrg(mem, org)
       /\ P!LatestSyncs(pg, org) = M!LatestSyncs(mem, org)
       /\ P!FindOrganization(pg, org) = M!FindOrganization(mem, org)

\* Devices, challenges, jobs and monitors are read back alike, the last use of a
\* token (which memory does not note) and the lease of a job given up (which it
\* keeps) apart.
DispatchAgree ==
  LET Seen(d) == IF d = None THEN None ELSE [d EXCEPT !.seen = None]
      Job(j) == IF j = None THEN None ELSE [j EXCEPT !.lease = IF j.state = "failed" THEN None ELSE @]
  IN /\ \A id \in Ids :
          /\ Seen(P!FindDevice(pg, id)) = Seen(M!FindDevice(mem, id))
          /\ P!GetChallenge(pg, id) = M!GetChallenge(mem, id)
          /\ P!CountActiveForAgent(pg, id) = M!CountActiveForAgent(mem, id)
          /\ \A org \in Orgs :
               /\ P!FindMonitor(pg, <<org, id>>) = M!FindMonitor(mem, <<org, id>>)
               /\ P!FindByDomain(pg, org, [name |-> id, spelling |-> "lower"])
                    = M!FindByDomain(mem, org, [name |-> id, spelling |-> "lower"])
     /\ \A n \in 1..MaxCalls :
          /\ Job(P!FindJob(pg, n)) = Job(M!FindJob(mem, n))
          /\ Job(P!FindByIdempotencyKey(pg, Org, n)) = Job(M!FindByIdempotencyKey(mem, Org, n))
     /\ \A org \in Orgs :
          /\ {Seen(d) : d \in RowsOf(P!DevicesForOrg(pg, org))} = {Seen(d) : d \in RowsOf(M!DevicesForOrg(mem, org))}
          /\ {Job(j) : j \in RowsOf(P!JobsForOrg(pg, org, All))} = {Job(j) : j \in RowsOf(M!JobsForOrg(mem, org, All))}
          /\ P!CountActiveForOrg(pg, org) = M!CountActiveForOrg(mem, org)
          /\ P!MonitorsForOrg(pg, org) = M!MonitorsForOrg(mem, org)
     /\ RowsOf(P!DueMonitors(pg, now, All)) = RowsOf(M!DueMonitors(mem, now, All))

\* Whatever the handlers did before, on either store: the same answers to the same
\* calls, and every table read back alike.
StoresAgree ==
  AnswersAgree /\ RegistryAgree /\ IntelligenceAgree /\ CasesAgree /\ WorkspaceAgree /\ DispatchAgree

\* What a call may do to a case, as it is read back
CaseKept(id) ==
  LET old == P!FindInvestigation(pg, id)
      new == P!FindInvestigation(pg', id)
  IN old # None =>
       /\ new # None
       /\ old.findings \subseteq new.findings /\ old.drifts \subseteq new.drifts
       /\ DOMAIN old.probes \subseteq DOMAIN new.probes
       /\ new.first <= old.first /\ new.at >= old.at
       /\ call' # "update_status" => new.status = old.status

\* What a call may do to what the tables remember
StepKeepsHistory ==
  /\ \A id \in Ids : CaseKept(id)
  /\ \A t \in pg.training : \A request \in DOMAIN t.outcomes :
       P!FindTraining(pg', t.id).outcomes[request] = t.outcomes[request]
  /\ \A r \in pg.probes : r.finished = None => P!FindProbe(pg', r.id) # None
  /\ \A d \in pg.devices : d.revoked # None => P!FindDevice(pg', d.id).revoked # None

\* Whatever the pipeline stores again, a case keeps the evidence and the probes it
\* gathered and the status an analyst gave it, the first outcome of a request
\* stays the outcome, and the last time a case was seen never moves back; a run
\* that was reserved is found again, and a revoked device stays revoked.
HistoryKept == [][StepKeepsHistory]_vars
====
