---- MODULE PostgresStore ----
(***************************************************************************)
(* The repositories of PostgresStorage, one operator per method.  A        *)
(* database `db' is a record of tables; a method that writes gives the     *)
(* database afterwards, or [db, answer] when callers look at its answer.   *)
(* Each method is its complete effect.  Most are one statement or one      *)
(* transaction; reset_all_data, save_ct_certificates,                      *)
(* validate_device_token and revoke_device_token are several statements    *)
(* without one, so that when a later statement fails the earlier ones      *)
(* stay.  Columns no caller branches on are left out, and a row an         *)
(* operator is given refers to rows that exist, as foreign keys demand.    *)
(***************************************************************************)
EXTENDS StoreTables

DefaultOrganization == "acme"

Empty ==
  [assets |-> {}, identities |-> {}, endpoints |-> {}, drifts |-> {},
   certificates |-> {}, uses |-> {}, sensors |-> {}, findings |-> {}, evidence |-> {},
   sessions |-> {}, observations |-> {},
   mx |-> {}, tlsa |-> {}, mtaSts |-> {}, tlsRpt |-> {}, reports |-> {},
   ct |-> {}, ctEvents |-> {}, refresh |-> {}, baselines |-> {}, anomalies |-> {},
   investigations |-> {}, decisions |-> {}, probes |-> {}, training |-> {},
   remediations |-> {}, postures |-> {}, integrations |-> {}, archive |-> {},
   assessments |-> {}, organizations |-> {[id |-> DefaultOrganization, slug |-> DefaultOrganization]},
   members |-> {}, devices |-> {}, challenges |-> {}, tokens |-> {}, jobs |-> {}, monitors |-> {}]

\* TRUNCATE names every table but organizations.
Reset(db) == [Empty EXCEPT !.organizations = db.organizations \cup @]

----------------------------------------------------------------------------
(* Assets, certificates, sensors and findings.                             *)

LoadIdentities(db, id) == {i.value : i \in {j \in db.identities : j.asset = id}}
LoadEndpoints(db, id) ==
  {[port |-> e.port, tls |-> e.tls] : e \in {f \in db.endpoints : f.asset = id}}

FindAsset(db, id) ==
  LET a == Row(db.assets, LAMBDA r : r.id = id)
  IN IF a = None THEN None
     ELSE [id |-> id, org |-> a.org, name |-> a.name, addrs |-> a.addrs, first |-> a.first, at |-> a.at,
           idents |-> LoadIdentities(db, id), ends |-> LoadEndpoints(db, id)]

\* Any one row may be the answer: the query has LIMIT 1 and no order.
AssetsKnownAs(db, key) ==
  {FindAsset(db, a.id) : a \in {b \in db.assets : key \in b.addrs \cup LoadIdentities(db, b.id)}}

AssetsKnownAsScoped(db, key, org) ==
  IF org = None THEN AssetsKnownAs(db, key) ELSE {a \in AssetsKnownAs(db, key) : a.org = org}

UpsertAsset(db, a) ==
  [db EXCEPT
     !.assets = Put(@, LAMBDA r : r.id = a.id,
                    [id |-> a.id, org |-> a.org, name |-> a.name, addrs |-> a.addrs, first |-> a.first, at |-> a.at],
                    LAMBDA r : [r EXCEPT !.name = IF a.name = None THEN @ ELSE a.name, !.addrs = a.addrs, !.at = a.at]),
     !.identities = @ \cup {[asset |-> a.id, value |-> v] : v \in a.idents},
     !.endpoints = {e \in @ : ~(e.asset = a.id /\ \E x \in a.ends : x.port = e.port)}
                   \cup {[asset |-> a.id, port |-> x.port, tls |-> x.tls] : x \in a.ends}]

ListAssets(db) == {FindAsset(db, a.id) : a \in db.assets}

\* The columns of an event are named for its kind; what does not parse is a new
\* TLS version.  Its assessment, domain and organization have no column here.
DriftColumn ==
  [NewTlsVersion |-> "new_tls_version", NewCipherSuite |-> "new_cipher_suite",
   KeyExchangeChanged |-> "key_exchange_changed", ForwardSecrecyLost |-> "forward_secrecy_lost",
   CertificateChanged |-> "certificate_changed", NewCertificateIssuer |-> "new_certificate_issuer",
   NewEndpoint |-> "new_endpoint", MxAdded |-> "mx_added", MxRemoved |-> "mx_removed",
   EndpointAdded |-> "endpoint_added", EndpointRemoved |-> "endpoint_removed",
   StartTlsLost |-> "starttls_lost", StartTlsRestored |-> "starttls_restored",
   LegacyTlsEnabled |-> "legacy_tls_enabled", LegacyTlsDisabled |-> "legacy_tls_disabled",
   ForwardSecrecyRestored |-> "forward_secrecy_restored", CertificateExpired |-> "certificate_expired",
   CertificateRenewed |-> "certificate_renewed", CertificateTrustChanged |-> "certificate_trust_changed",
   MtaStsChanged |-> "mta_sts_changed", DaneChanged |-> "dane_changed", TlsRptChanged |-> "tls_rpt_changed",
   FindingIntroduced |-> "finding_introduced", FindingResolved |-> "finding_resolved",
   PostureChanged |-> "posture_changed"]
DriftParsed ==
  [new_tls_version |-> "NewTlsVersion", new_cipher_suite |-> "NewCipherSuite",
   key_exchange_changed |-> "KeyExchangeChanged", forward_secrecy_lost |-> "ForwardSecrecyLost",
   certificate_changed |-> "CertificateChanged", new_certificate_issuer |-> "NewCertificateIssuer",
   new_endpoint |-> "NewEndpoint", mx_added |-> "MxAdded", mx_removed |-> "MxRemoved",
   endpoint_added |-> "EndpointAdded", endpoint_removed |-> "EndpointRemoved",
   starttls_lost |-> "StartTlsLost", starttls_restored |-> "StartTlsRestored",
   legacy_tls_enabled |-> "LegacyTlsEnabled", legacy_tls_disabled |-> "LegacyTlsDisabled",
   forward_secrecy_restored |-> "ForwardSecrecyRestored", certificate_expired |-> "CertificateExpired",
   certificate_renewed |-> "CertificateRenewed", certificate_trust_changed |-> "CertificateTrustChanged",
   mta_sts_changed |-> "MtaStsChanged", dane_changed |-> "DaneChanged", tls_rpt_changed |-> "TlsRptChanged",
   finding_introduced |-> "FindingIntroduced", finding_resolved |-> "FindingResolved",
   posture_changed |-> "PostureChanged"]
DriftKinds == DOMAIN DriftColumn
ParseDriftKind(s) == Get(DriftParsed, s, "NewTlsVersion")

\* The foreign key on asset_id refuses an event of an asset that is not stored.
SaveDrift(db, e) ==
  IF \E a \in db.assets : a.id = e.asset
  THEN [db |-> [db EXCEPT !.drifts = @ \cup {[id |-> e.id, asset |-> e.asset, at |-> e.at,
                                              kind |-> DriftColumn[e.kind]]}], answer |-> "ok"]
  ELSE [db |-> db, answer |-> "error"]

ListDrifts(db, asset, limit) ==
  LET rows == Newest({e \in db.drifts : asset \in {None, e.asset}}, limit)
  IN [i \in DOMAIN rows |-> [rows[i] EXCEPT !.kind = ParseDriftKind(@)]]

SaveCertificate(db, c) ==
  [db EXCEPT
     !.certificates = Put(@, LAMBDA r : r.fp = c.fp, [fp |-> c.fp, issuer |-> c.issuer, at |-> c.at],
                          LAMBDA r : [r EXCEPT !.at = c.at]),
     !.uses = @ \cup {[asset |-> a, fp |-> c.fp] : a \in c.assets}]

WithAssets(db, c) ==
  [fp |-> c.fp, issuer |-> c.issuer, at |-> c.at, assets |-> {u.asset : u \in {v \in db.uses : v.fp = c.fp}}]
FindCertificate(db, fp) ==
  LET c == Row(db.certificates, LAMBDA r : r.fp = fp) IN IF c = None THEN None ELSE WithAssets(db, c)
ListCertificates(db) == {WithAssets(db, c) : c \in db.certificates}
\* The list of one asset names that asset only.
CertificatesForAsset(db, asset) ==
  {[fp |-> c.fp, issuer |-> c.issuer, at |-> c.at, assets |-> {asset}] :
      c \in {d \in db.certificates : [asset |-> asset, fp |-> d.fp] \in db.uses}}

RecordHeartbeat(db, h, now) ==
  [db EXCEPT !.sensors = Put(@, LAMBDA r : r.id = h.id,
      [id |-> h.id, mode |-> h.mode, at |-> now, registered |-> now],
      LAMBDA r : [r EXCEPT !.mode = h.mode, !.at = now])]
\* Ages in seconds: over two minutes is offline, over half a minute stale.
SensorStatus(age) == IF age > 120 THEN "offline" ELSE IF age > 30 THEN "stale" ELSE "online"
ListSensors(db, now, seconds) ==
  {[id |-> s.id, mode |-> s.mode, at |-> s.at, registered |-> s.registered,
    status |-> SensorStatus((now - s.at) * seconds)] : s \in db.sensors}
GetSensor(db, id, now, seconds) == Row(ListSensors(db, now, seconds), LAMBDA s : s.id = id)

LinkAsset(db, finding, asset) ==
  IF \E f \in db.findings : f.id = finding /\ f.asset \in {None, asset}
  THEN [db |-> [db EXCEPT !.findings = Set(@, LAMBDA r : r.id = finding, LAMBDA r : [r EXCEPT !.asset = asset])],
        answer |-> "ok"]
  ELSE [db |-> db, answer |-> "conflict"]

\* Evidence is told apart by its session, its observation and its words.
SaveFinding(db, f) ==
  [db |-> [db EXCEPT
     !.findings = Put(@, LAMBDA r : r.id = f.id,
         [id |-> f.id, rule |-> f.rule, count |-> f.count, at |-> f.at, asset |-> None],
         LAMBDA r : [r EXCEPT !.count = f.count, !.at = f.at]),
     !.evidence = @ \cup {[finding |-> f.id, session |-> e.session, words |-> e.words] : e \in f.evidence}],
   answer |-> "ok"]

LoadEvidence(db, id) ==
  {[session |-> e.session, words |-> e.words] : e \in {d \in db.evidence : d.finding = id}}
AsFinding(db, f) == [id |-> f.id, rule |-> f.rule, count |-> f.count, at |-> f.at, evidence |-> LoadEvidence(db, f.id)]
ListFindings(db) == {AsFinding(db, f) : f \in db.findings}
FindFinding(db, id) == Row(ListFindings(db), LAMBDA f : f.id = id)
FindingsForSession(db, s) == {f \in ListFindings(db) : \E e \in f.evidence : e.session = s}
FindingsForAsset(db, a) == {AsFinding(db, f) : f \in {g \in db.findings : g.asset = a}}

\* A second delivery may extend the time a session was seen, nothing else.
SaveSession(db, s) ==
  IF \E r \in db.sessions : r.id = s.id /\ r.data # s.data
  THEN [db |-> db, answer |-> "conflict"]
  ELSE [db |-> [db EXCEPT !.sessions = Put(@, LAMBDA r : r.id = s.id, s, LAMBDA r : [r EXCEPT !.at = Greater(@, s.at)])],
        answer |-> "ok"]
ListSessions(db, limit) == Newest(db.sessions, limit)
FindSession(db, id) == Row(db.sessions, LAMBDA s : s.id = id)
SessionsForAsset(db, ip, limit) == Newest({s \in db.sessions : ip \in s.ips}, limit)

SaveObservation(db, o) ==
  IF \E r \in db.observations : r.id = o.id /\ r # o
  THEN [db |-> db, answer |-> "conflict"]
  ELSE [db |-> [db EXCEPT !.observations = @ \cup {o}], answer |-> "ok"]
FindObservation(db, id) == Row(db.observations, LAMBDA o : o.id = id)
ListObservations(db, limit) == Newest(db.observations, limit)

----------------------------------------------------------------------------
(* Intelligence about domains, baselines and anomalies.                    *)

SaveMx(db, domain, records) ==
  [db EXCEPT !.mx = {r \in @ : r.domain # domain}
                    \cup {[domain |-> domain, host |-> r.host, priority |-> r.priority] : r \in records}]
GetMx(db, domain) ==
  SetToSortSeq({r \in db.mx : r.domain = domain}, LAMBDA a, b : a.priority < b.priority)

SaveTlsa(db, domain, records) ==
  [db EXCEPT !.tlsa = {r \in @ : r.domain # domain} \cup {[domain |-> domain, host |-> h] : h \in records}]
GetTlsa(db, domain) == {r.host : r \in {q \in db.tlsa : q.domain = domain}}

SaveMtaSts(db, p) == [db EXCEPT !.mtaSts = Put(@, LAMBDA r : r.domain = p.domain, p, LAMBDA r : p)]
GetMtaSts(db, domain) == Row(db.mtaSts, LAMBDA r : r.domain = domain)
SaveTlsRpt(db, p) == [db EXCEPT !.tlsRpt = Put(@, LAMBDA r : r.domain = p.domain, p, LAMBDA r : p)]
GetTlsRpt(db, domain) == Row(db.tlsRpt, LAMBDA r : r.domain = domain)

SaveReport(db, r) == [db EXCEPT !.reports = @ \cup {r}]
ListReports(db, domain, limit) == Newest({r \in db.reports : domain \in {None, r.domain}}, limit)

\* A certificate keeps the names it was first stored with, and the first time it
\* was seen on the network.  Certificates that are no longer listed stay.  This
\* is what the loop over the certificates leaves once each insert succeeded.
SaveCt(db, domain, certs) ==
  [db EXCEPT !.ct =
     {IF \E c \in certs : c.fp = r.fp
      THEN LET c == CHOOSE d \in certs : d.fp = r.fp
           IN [r EXCEPT !.observed = c.observed, !.seen = IF @ = None THEN c.seen ELSE @]
      ELSE r : r \in @}
     \cup {[fp |-> c.fp, domain |-> domain, observed |-> c.observed, seen |-> c.seen] :
              c \in {d \in certs : \A r \in db.ct : r.fp # d.fp}}]
GetCt(db, domain) == {r \in db.ct : r.domain = domain}

SaveCtEvent(db, e) == [db EXCEPT !.ctEvents = @ \cup {e}]
ListCtEvents(db, domain, limit) == Newest({e \in db.ctEvents : domain \in {None, e.domain}}, limit)

SaveRefresh(db, s) == [db EXCEPT !.refresh = Put(@, LAMBDA r : r.domain = s.domain, s, LAMBDA r : s)]
GetRefresh(db, domain) == Row(db.refresh, LAMBDA r : r.domain = domain)
DueRefreshes(db, now) == {r.domain : r \in {s \in db.refresh : s.next # None /\ s.next <= now}}

SaveBaseline(db, b) == [db EXCEPT !.baselines = Put(@, LAMBDA r : r.asset = b.asset, b, LAMBDA r : b)]
GetBaseline(db, asset) == Row(db.baselines, LAMBDA r : r.asset = asset)
SaveAnomaly(db, a) == [db EXCEPT !.anomalies = @ \cup {a}]
ListAnomalies(db, asset, limit) == Newest({a \in db.anomalies : asset \in {None, a.asset}}, limit)

----------------------------------------------------------------------------
(* Investigations, decisions, probe runs, training records, remediations   *)
(* and posture.                                                            *)

\* Enumerations are stored by name, and a name that is not known is read as the
\* weakest.
Columns ==
  [severity |-> [Critical |-> "critical", High |-> "high", Medium |-> "medium", Low |-> "low"],
   category |-> [ProtocolDowngrade |-> "protocol_downgrade", TlsConfiguration |-> "tls_configuration",
                 Certificate |-> "certificate", AuthenticationExposed |-> "authentication_exposed",
                 PolicyViolation |-> "policy_violation"],
   dnssec |-> [Secure |-> "secure", Insecure |-> "insecure", Bogus |-> "bogus", Indeterminate |-> "indeterminate"],
   mode |-> [Enforce |-> "enforce", Testing |-> "testing", None |-> "none"],
   status |-> [Open |-> "open", UnderReview |-> "under_review", Resolved |-> "resolved"],
   risk |-> [Low |-> "low", Medium |-> "medium", High |-> "high", Critical |-> "critical"],
   priority |-> [Low |-> "low", Normal |-> "normal", High |-> "high", Immediate |-> "immediate"]]
Unreadable ==
  [severity |-> "Low", category |-> "PolicyViolation", dnssec |-> "Indeterminate", mode |-> "None",
   status |-> "Open", risk |-> "Low", priority |-> "Low"]
Shown(kind, value) == Columns[kind][value]
Parsed(kind, text) ==
  IF \E v \in DOMAIN Columns[kind] : Columns[kind][v] = text
  THEN CHOOSE v \in DOMAIN Columns[kind] : Columns[kind][v] = text ELSE Unreadable[kind]

AttachProbe(db, run) ==
  [db EXCEPT !.investigations = Set(@, LAMBDA r : r.id = run.case /\ r.asset = run.asset,
                                    LAMBDA r : [r EXCEPT !.probes = Insert(@, run.id, run.outcome)])]

\* Mutant of SaveInvestigation: the status is one of the columns updated.
SaveInvestigationWhole(db, i) ==
  [db EXCEPT !.investigations = Put(@, LAMBDA r : r.id = i.id,
     [i EXCEPT !.status = Shown("status", @), !.risk = Shown("risk", @)],
     LAMBDA r : [r EXCEPT !.risk = Shown("risk", i.risk), !.status = Shown("status", i.status),
                          !.findings = @ \cup i.findings, !.drifts = @ \cup i.drifts,
                          !.probes = Override(@, i.probes), !.first = Lesser(@, i.first), !.at = Greater(@, i.at)])]
\* The analyst's status, the evidence gathered so far and the probes survive.
SaveInvestigation(db, i) ==
  [db EXCEPT !.investigations = Put(@, LAMBDA r : r.id = i.id,
     [i EXCEPT !.status = Shown("status", @), !.risk = Shown("risk", @)],
     LAMBDA r : [r EXCEPT !.risk = Shown("risk", i.risk), !.findings = @ \cup i.findings,
                          !.drifts = @ \cup i.drifts, !.probes = Override(@, i.probes),
                          !.first = Lesser(@, i.first), !.at = Greater(@, i.at)])]

AsInvestigation(r) == [r EXCEPT !.status = Parsed("status", @), !.risk = Parsed("risk", @)]
FindInvestigation(db, id) ==
  LET r == Row(db.investigations, LAMBDA q : q.id = id) IN IF r = None THEN None ELSE AsInvestigation(r)
ListInvestigations(db, limit) == Newest({AsInvestigation(r) : r \in db.investigations}, limit)
InvestigationsForAsset(db, asset) ==
  LET mine == {AsInvestigation(r) : r \in {q \in db.investigations : q.asset = asset}}
  IN Newest(mine, Cardinality(mine))
UpdateInvestigation(db, id, status, now) ==
  [db EXCEPT !.investigations = Set(@, LAMBDA r : r.id = id,
                                    LAMBDA r : [r EXCEPT !.status = Shown("status", status), !.at = now])]

SaveDecision(db, d) == [db EXCEPT !.decisions = @ \cup {d}]
ListDecisions(db, limit) == Newest(db.decisions, limit)

\* Why a probe runs and how it ended are stored by name as well.
ProbeColumns ==
  [trigger |-> [ManualAnalyst |-> "manual_analyst", CertificateChange |-> "certificate_change",
                InternalExternalInconsistency |-> "internal_external_inconsistency",
                StartTlsRegression |-> "starttls_regression", Scheduled |-> "scheduled",
                DriftTriggered |-> "drift_triggered", RemediationVerification |-> "remediation_verification"],
   outcome |-> [Success |-> "success", Timeout |-> "timeout", ConnectionRefused |-> "connection_refused",
                HandshakeError |-> "handshake_error", ScopeRejected |-> "scope_rejected",
                InternalError |-> "internal_error"]]
ProbeParsed(kind, text) ==
  LET names == ProbeColumns[kind]
      known == DOMAIN names \ {"Scheduled", "InternalError"}
  IN IF \E v \in known : names[v] = text THEN CHOOSE v \in known : names[v] = text
     ELSE IF kind = "trigger" THEN "Scheduled" ELSE "InternalError"
AsRun(r) == [r EXCEPT !.outcome = ProbeParsed("outcome", @), !.trigger = ProbeParsed("trigger", @)]
Runs(rows) == [i \in DOMAIN rows |-> AsRun(rows[i])]

\* An advisory lock on the target makes the check and the insert one step.
SaveProbe(db, run) ==
  LET outcome == ProbeColumns["outcome"][run.outcome]
  IN [db EXCEPT !.probes = Put(@, LAMBDA r : r.id = run.id,
        [run EXCEPT !.outcome = outcome, !.trigger = ProbeColumns["trigger"][@]],
        LAMBDA r : [r EXCEPT !.finished = run.finished, !.outcome = outcome])]
Reserve(db, run, cooldown) ==
  IF \E r \in db.probes : r.target = run.target /\ (r.finished = None \/ r.finished + cooldown > run.at)
  THEN [db |-> db, answer |-> FALSE]
  ELSE [db |-> SaveProbe(db, run), answer |-> TRUE]
UpdateProbe(db, run) == SaveProbe(db, run)
Unfinished(db) == {AsRun(r) : r \in {q \in db.probes : q.finished = None}}
FindProbe(db, id) ==
  LET r == Row(db.probes, LAMBDA q : q.id = id) IN IF r = None THEN None ELSE AsRun(r)
ProbesForAsset(db, asset, limit) == Runs(Newest({r \in db.probes : r.asset = asset}, limit))
ListProbes(db, limit) == Runs(Newest(db.probes, limit))
LatestForTarget(db, asset, target) ==
  LET runs == Newest({r \in db.probes : r.asset = asset /\ r.target = target}, 1)
  IN IF runs = <<>> THEN None ELSE AsRun(runs[1])

\* Of the outcomes of one request the first one stays.
AttachOutcome(db, id, request, outcome) ==
  [db |-> [db EXCEPT !.training = Set(@, LAMBDA r : r.id = id /\ request \notin DOMAIN r.outcomes,
                                      LAMBDA r : [r EXCEPT !.outcomes = Insert(@, request, outcome)])],
   answer |-> "ok"]
SaveTraining(db, t) ==
  IF \E r \in db.training : r.id = t.id
  THEN [db |-> db, answer |-> IF \E r \in db.training : r.id = t.id /\ r.features # t.features THEN "conflict" ELSE "ok"]
  ELSE [db |-> [db EXCEPT !.training = @ \cup {t}], answer |-> "ok"]
ListTraining(db, case, asset, limit) ==
  Newest({r \in db.training : case \in {None, r.case} /\ asset \in {None, r.asset}}, limit)
ListUnlabeled(db, limit) == Newest({r \in db.training : r.label = None}, limit)
FindTraining(db, id) == Row(db.training, LAMBDA r : r.id = id)
AttachAnalystLabel(db, id, label) ==
  [db |-> [db EXCEPT !.training = Set(@, LAMBDA r : r.id = id, LAMBDA r : [r EXCEPT !.label = label])],
   answer |-> IF \E r \in db.training : r.id = id THEN "ok" ELSE "missing"]

CreateRemediation(db, m) ==
  LET stored == Put(db.remediations, LAMBDA r : r.id = m.id, m, LAMBDA r : r)
  IN [db |-> [db EXCEPT !.remediations = stored], answer |-> Row(stored, LAMBDA r : r.id = m.id)]
FindRemediation(db, id) == Row(db.remediations, LAMBDA r : r.id = id)
RemediationsForAsset(db, asset) == {r \in db.remediations : r.asset = asset}
ListVerifying(db) == {r \in db.remediations : r.state = "verifying"}
UpdateRemediation(db, m, expected) ==
  [db |-> [db EXCEPT !.remediations = Set(@, LAMBDA r : r.id = m.id /\ r.revision = expected, LAMBDA r : m)],
   answer |-> \E r \in db.remediations : r.id = m.id /\ r.revision = expected]

SavePosture(db, p) ==
  [db EXCEPT !.postures = Put(@, LAMBDA r : r.id = p.id, p, LAMBDA r : [r EXCEPT !.score = p.score, !.at = p.at])]
PosturesForAsset(db, asset, limit) == Newest({p \in db.postures : p.asset = asset}, limit)
LatestPosture(db, asset) ==
  LET list == PosturesForAsset(db, asset, 1) IN IF list = <<>> THEN None ELSE list[1]

----------------------------------------------------------------------------
(* Integrations, archived reports, assessments and organizations.          *)

SaveIntegration(db, c) ==
  [db EXCEPT !.integrations = Put(@, LAMBDA r : r.id = c.id, c, LAMBDA r : [c EXCEPT !.at = r.at])]
ListIntegrations(db) == Newest(db.integrations, Cardinality(db.integrations))
FindIntegration(db, id) == Row(db.integrations, LAMBDA r : r.id = id)
DeleteIntegration(db, id) ==
  [db |-> [db EXCEPT !.integrations = {r \in @ : r.id # id}], answer |-> FindIntegration(db, id) # None]
UpdateIntegration(db, id, outcome, now) ==
  [db EXCEPT !.integrations = Set(@, LAMBDA r : r.id = id, LAMBDA r : [r EXCEPT !.outcome = outcome, !.changed = now])]

\* An archived report is never replaced: its title and notes are.
Archive(db, p) ==
  [db EXCEPT !.archive = Put(@, LAMBDA r : r.id = p.id, p, LAMBDA r : [r EXCEPT !.notes = p.notes])]
Summary(p) == [id |-> p.id, subject |-> p.subject, at |-> p.at, notes |-> p.notes]
ListArchive(db, limit) == Newest({Summary(p) : p \in db.archive}, limit)
ArchiveForSubject(db, subject) ==
  LET mine == {Summary(p) : p \in {q \in db.archive : q.subject = subject}} IN Newest(mine, Cardinality(mine))
FindArchived(db, id) == Row(db.archive, LAMBDA r : r.id = id)

\* The last synchronisation of each device of the organization: synced is None for
\* an assessment nobody synchronised.
LatestSyncs(db, org) ==
  LET mine == {a \in db.assessments : a.org = org /\ a.device # None /\ a.synced # None}
  IN [d \in {a.device : a \in mine} |-> Max({a.synced : a \in {b \in mine : b.device = d}})]
\* What a capture was, and when the assessment was made, does not change.
SaveAssessment(db, a) ==
  [db EXCEPT !.assessments = Put(@, LAMBDA r : r.id = a.id, a,
                                 LAMBDA r : [a EXCEPT !.capture = r.capture, !.at = r.at])]
FindAssessment(db, id) == Row(db.assessments, LAMBDA r : r.id = id)
FindAssessmentScoped(db, id, org) ==
  LET a == FindAssessment(db, id) IN IF a # None /\ a.org = org THEN a ELSE None
Line(a) == [id |-> a.id, org |-> a.org, at |-> a.at, kind |-> a.kind, findings |-> Cardinality(a.findings)]
ListAssessments(db) == Newest({Line(a) : a \in db.assessments}, Cardinality(db.assessments))
AssessmentsForOrg(db, org) ==
  LET mine == {Line(a) : a \in {b \in db.assessments : b.org = org}} IN Newest(mine, Cardinality(mine))

FindOrganization(db, id) == Row(db.organizations, LAMBDA r : r.id = id)
FindBySlug(db, slug) == Row(db.organizations, LAMBDA r : r.slug = slug)
SaveOrganization(db, o) == [db EXCEPT !.organizations = Put(@, LAMBDA r : r.id = o.id, o, LAMBDA r : o)]
AddMember(db, m) ==
  [db EXCEPT !.members = Put(@, LAMBDA r : r.org = m.org /\ r.user = m.user, m,
                             LAMBDA r : [r EXCEPT !.role = m.role])]
GetMember(db, org, user) == Row(db.members, LAMBDA r : r.org = org /\ r.user = user)
\* Who belongs to no organization is shown the default one.
ListForUser(db, user) ==
  LET mine == {o \in db.organizations : GetMember(db, o.id, user) # None}
  IN IF mine # {} THEN mine ELSE {FindOrganization(db, DefaultOrganization)} \ {None}

----------------------------------------------------------------------------
(* Devices, challenges and tokens.                                         *)

FindDevice(db, id) == Row(db.devices, LAMBDA d : d.id = id)
ReportInstallation(db, id, version, caps, now) ==
  [db EXCEPT !.devices = Set(@, LAMBDA d : d.id = id /\ d.revoked = None,
                             LAMBDA d : [d EXCEPT !.version = version, !.caps = caps, !.seen = now])]
SaveDevice(db, d) ==
  [db EXCEPT !.devices = Put(@, LAMBDA r : r.id = d.id, d, LAMBDA r : [d EXCEPT !.org = r.org, !.at = r.at])]
DevicesForOrg(db, org) ==
  LET mine == {d \in db.devices : d.org = org} IN Newest(mine, Cardinality(mine))
RevokeDevice(db, id, now) ==
  [db EXCEPT !.devices = Set(@, LAMBDA d : d.id = id, LAMBDA d : [d EXCEPT !.revoked = now])]

CreateChallenge(db, c) == [db EXCEPT !.challenges = Put(@, LAMBDA r : r.code = c.code, c, LAMBDA r : c)]
GetChallenge(db, code) == Row(db.challenges, LAMBDA r : r.code = code)
ApproveChallenge(db, code, user, org, token, device) ==
  [db EXCEPT !.challenges = Set(@, LAMBDA r : r.code = code,
      LAMBDA r : [r EXCEPT !.user = user, !.org = org, !.token = token, !.device = device])]

SaveDeviceToken(db, hash, device, org, now) ==
  [db EXCEPT !.tokens = Put(@, LAMBDA r : r.hash = hash,
      [hash |-> hash, device |-> device, org |-> org, used |-> now], LAMBDA r : [r EXCEPT !.used = now])]
\* A valid token leaves a trace on itself and on its device; the device answered is
\* the one read before.
ValidateDeviceToken(db, hash, now) ==
  LET t == Row(db.tokens, LAMBDA r : r.hash = hash)
      d == IF t = None THEN None ELSE FindDevice(db, t.device)
  IN IF d = None \/ (d # None /\ d.revoked # None)
     THEN [db |-> db, answer |-> None]
     ELSE [db |-> [db EXCEPT !.tokens = Set(@, LAMBDA r : r.hash = hash, LAMBDA r : [r EXCEPT !.used = now]),
                             !.devices = Set(@, LAMBDA r : r.id = d.id, LAMBDA r : [r EXCEPT !.seen = now])],
           answer |-> [device |-> d, org |-> t.org]]
RevokeDeviceToken(db, hash, now) ==
  [db EXCEPT !.devices = Set(@, LAMBDA d : \E t \in db.tokens : t.hash = hash /\ t.device = d.id,
                             LAMBDA d : [d EXCEPT !.revoked = now]),
             !.tokens = {t \in @ : t.hash # hash}]
Heartbeat(db, id, version, caps, status, now) ==
  [db EXCEPT !.devices = Set(@, LAMBDA d : d.id = id /\ d.revoked = None,
      LAMBDA d : [d EXCEPT !.seen = now, !.version = IF version = None THEN @ ELSE version,
                           !.caps = IF caps = {} THEN @ ELSE caps, !.enabled = TRUE, !.status = status])]
UpdateAgentStatus(db, id, status, job, increment) ==
  [db EXCEPT !.devices = Set(@, LAMBDA d : d.id = id,
      LAMBDA d : [d EXCEPT !.status = IF status = None THEN @ ELSE status, !.job = job,
                           !.done = IF increment THEN @ + 1 ELSE @])]

----------------------------------------------------------------------------
(* Jobs and monitors.                                                      *)

Active == {"pending", "leased", "running"}
Expired(j, now) == j.state \in {"leased", "running"} /\ j.lease # None /\ j.lease < now
CancelActive(db, org, device, now) ==
  LET Mine(j) == j.org = org /\ j.target = device /\ j.state \in Active
  IN [db |-> [db EXCEPT !.jobs = Set(@, Mine, LAMBDA j : [j EXCEPT !.state = "canceled", !.lease = None])],
      answer |-> Cardinality({j \in db.jobs : Mine(j)})]
\* What is to be done, for whom and how often is fixed when the job is made.
CreateJob(db, j) ==
  [db EXCEPT !.jobs = Put(@, LAMBDA r : r.id = j.id, j,
      LAMBDA r : [r EXCEPT !.state = j.state, !.lease = j.lease, !.attempt = j.attempt, !.result = j.result])]
UpdateJob(db, j) == CreateJob(db, j)
FindJob(db, id) == Row(db.jobs, LAMBDA r : r.id = id)
FindByIdempotencyKey(db, org, key) == Row(db.jobs, LAMBDA r : r.org = org /\ r.key = key)
Oldest(T) == CHOOSE j \in T : \A k \in T : j.at <= k.at
Leased(db, T, now, lease) ==
  IF T = {} THEN [db |-> db, answer |-> None]
  ELSE LET j == [Oldest(T) EXCEPT !.state = "leased", !.lease = now + lease, !.attempt = @ + 1]
       IN [db |-> [db EXCEPT !.jobs = Set(@, LAMBDA r : r.id = j.id, LAMBDA r : j)], answer |-> j]
Takeable(db, now) == {j \in db.jobs : j.state = "pending" \/ Expired(j, now)}
LeaseNextJob(db, agent, org, now, lease) ==
  Leased(db, {j \in Takeable(db, now) : j.org = org /\ (j.target = agent \/ (j.target = None /\ j.kind = "agent"))},
         now, lease)
\* The cloud worker is also given the jobs of any agent.
LeaseNextCloudJob(db, now, lease) ==
  Leased(db, {j \in Takeable(db, now) : j.kind = "cloud" \/ j.target = None}, now, lease)
RecoverExpiredLeases(db, now) ==
  [db |-> [db EXCEPT !.jobs = Set(@, LAMBDA j : Expired(j, now),
       LAMBDA j : [j EXCEPT !.state = IF j.attempt >= j.max THEN "failed" ELSE "pending", !.lease = None])],
   answer |-> Cardinality({j \in db.jobs : Expired(j, now)})]
JobsForOrg(db, org, limit) == Newest({j \in db.jobs : j.org = org}, limit)
CountActiveForOrg(db, org) == Cardinality({j \in db.jobs : j.org = org /\ j.state \in Active})
CountActiveForAgent(db, agent) ==
  Cardinality({j \in db.jobs : j.target = agent /\ j.state \in Active \ {"pending"}})

SaveMonitor(db, m) ==
  [db EXCEPT !.monitors = Put(@, LAMBDA r : r.org = m.org /\ r.domain = m.domain, m,
      LAMBDA r : [r EXCEPT !.enabled = m.enabled, !.next = m.next])]
FindMonitor(db, id) == Row(db.monitors, LAMBDA r : r.id = id)
\* Domains are compared without regard to case: `name' is the domain in lower case.
FindByDomain(db, org, domain) == Row(db.monitors, LAMBDA r : r.org = org /\ r.domain.name = domain.name)
MonitorsForOrg(db, org) == {m \in db.monitors : m.org = org}
DueMonitors(db, now, limit) ==
  Take(SetToSortSeq({m \in db.monitors : m.enabled /\ m.next <= now}, LAMBDA a, b : a.next < b.next), limit)
DeleteMonitor(db, id, org) ==
  [db |-> [db EXCEPT !.monitors = {m \in @ : ~(m.id = id /\ m.org = org)}],
   answer |-> \E m \in db.monitors : m.id = id /\ m.org = org]
====
