---- MODULE MemoryStore ----
(***************************************************************************)
(* The repositories of InMemoryStorage, which guests and tests use, one    *)
(* operator per method and under the names of PostgresStore.  A store `db' *)
(* is a record of vectors and maps; every method takes one lock, so it is  *)
(* one step.  Rows have the fields they have in PostgresStore.             *)
(***************************************************************************)
EXTENDS StoreTables

DefaultOrganization == "acme"

NoMap == [k \in {} |-> None]

Empty ==
  [assets |-> <<>>, drifts |-> <<>>, certificates |-> <<>>, sensors |-> <<>>, findings |-> <<>>,
   findingAssets |-> NoMap, sessions |-> <<>>, observations |-> <<>>, evidence |-> NoMap,
   mx |-> NoMap, tlsa |-> NoMap, mtaSts |-> NoMap, tlsRpt |-> NoMap, reports |-> <<>>,
   ct |-> NoMap, ctEvents |-> <<>>, refresh |-> NoMap, baselines |-> NoMap, anomalies |-> <<>>,
   investigations |-> <<>>, decisions |-> <<>>, probes |-> <<>>, training |-> <<>>,
   remediations |-> <<>>, postures |-> <<>>, integrations |-> <<>>, archive |-> <<>>,
   assessments |-> <<>>, organizations |-> <<[id |-> DefaultOrganization, slug |-> DefaultOrganization]>>,
   members |-> <<>>, devices |-> <<>>, challenges |-> <<>>, tokens |-> <<>>, jobs |-> <<>>, monitors |-> <<>>]

Reset(db) == Empty

\* Vec::retain then push
Repush(v, Same(_), new) == Append(SelectSeq(v, LAMBDA r : ~Same(r)), new)
ById(v, id) == Find(v, LAMBDA r : r.id = id)
\* The first element with this id, changed
Amend(v, id, Changed(_)) == IF ById(v, id) = None THEN v ELSE Place(v, LAMBDA r : r.id = id, None, Changed)

----------------------------------------------------------------------------
(* Assets, certificates, sensors, findings, sessions, observations.        *)

FindAsset(db, id) == ById(db.assets, id)
AssetsKnownAs(db, key) ==
  {Find(db.assets, LAMBDA a : key \in a.addrs \cup a.idents)} \ {None}
\* The whole asset is replaced.
UpsertAsset(db, a) == [db EXCEPT !.assets = Place(@, LAMBDA r : r.id = a.id, a, LAMBDA r : a)]
ListAssets(db) == RowsOf(db.assets)
SaveDrift(db, e) == [db |-> [db EXCEPT !.drifts = Append(@, e)], answer |-> "ok"]
ListDrifts(db, asset, limit) ==
  Backwards(SelectSeq(db.drifts, LAMBDA e : asset \in {None, e.asset}), limit)

SaveCertificate(db, c) ==
  [db EXCEPT !.certificates = Place(@, LAMBDA r : r.fp = c.fp, c,
      LAMBDA r : [r EXCEPT !.at = c.at, !.assets = @ \cup c.assets])]
FindCertificate(db, fp) == Find(db.certificates, LAMBDA r : r.fp = fp)
ListCertificates(db) == RowsOf(db.certificates)
CertificatesForAsset(db, asset) == {c \in RowsOf(db.certificates) : asset \in c.assets}

RecordHeartbeat(db, h, now) ==
  [db EXCEPT !.sensors = Place(@, LAMBDA r : r.id = h.id,
      [id |-> h.id, mode |-> h.mode, at |-> now, registered |-> now],
      LAMBDA r : [r EXCEPT !.mode = h.mode, !.at = now])]
SensorStatus(age) == CASE age > 120 -> "offline" [] age \in 31..120 -> "stale" [] OTHER -> "online"
ListSensors(db, now, seconds) ==
  {[id |-> s.id, mode |-> s.mode, at |-> s.at, registered |-> s.registered,
    status |-> SensorStatus((now - s.at) * seconds)] : s \in RowsOf(db.sensors)}
GetSensor(db, id, now, seconds) == Row(ListSensors(db, now, seconds), LAMBDA s : s.id = id)

\* A finding may be linked before it is stored.
LinkAsset(db, finding, asset) ==
  IF Get(db.findingAssets, finding, asset) # asset
  THEN [db |-> db, answer |-> "conflict"]
  ELSE [db |-> [db EXCEPT !.findingAssets = Insert(@, finding, asset)], answer |-> "ok"]
SaveFinding(db, f) ==
  LET old == ById(db.findings, f.id)
      Fresh(r) == {e \in f.evidence : \A k \in r.evidence : k.session # e.session}
  IN IF old # None /\ old.rule # f.rule
     THEN [db |-> db, answer |-> "conflict"]
     ELSE [db |-> [db EXCEPT !.findings = Place(@, LAMBDA r : r.id = f.id, f,
                     LAMBDA r : [r EXCEPT !.at = f.at, !.count = f.count, !.evidence = @ \cup Fresh(r)])],
           answer |-> "ok"]
ListFindings(db) == RowsOf(db.findings)
FindFinding(db, id) == ById(db.findings, id)
FindingsForSession(db, s) == {f \in ListFindings(db) : \E e \in f.evidence : e.session = s}
FindingsForAsset(db, a) == {f \in ListFindings(db) : Get(db.findingAssets, f.id, None) = a}

\* A second delivery decides when the session was last seen, also an older one.
SaveSession(db, s) ==
  LET old == ById(db.sessions, s.id)
  IN IF old # None /\ old.data # s.data
     THEN [db |-> db, answer |-> "conflict"]
     ELSE [db |-> [db EXCEPT !.sessions = Place(@, LAMBDA r : r.id = s.id, s, LAMBDA r : [r EXCEPT !.at = s.at])],
           answer |-> "ok"]
ListSessions(db, limit) == Backwards(db.sessions, limit)
FindSession(db, id) == ById(db.sessions, id)
SessionsForAsset(db, ip, limit) == Backwards(SelectSeq(db.sessions, LAMBDA s : ip \in s.ips), limit)

\* Mutant of SaveObservation: a second delivery is not compared.
SaveObservationUnseen(db, o) ==
  [db |-> IF ById(db.observations, o.id) = None THEN [db EXCEPT !.observations = Append(@, o)] ELSE db, answer |-> "ok"]
\* Only the protocol and the flow are compared.
SaveObservation(db, o) ==
  LET old == ById(db.observations, o.id)
  IN IF old = None THEN [db |-> [db EXCEPT !.observations = Append(@, o)], answer |-> "ok"]
     ELSE [db |-> db, answer |-> IF old.flow = o.flow THEN "ok" ELSE "conflict"]
FindObservation(db, id) == ById(db.observations, id)
ListObservations(db, limit) == Backwards(db.observations, limit)

PutEvidence(db, key, data) == [db EXCEPT !.evidence = Insert(@, key, data)]
GetEvidence(db, key) == Get(db.evidence, key, None)

----------------------------------------------------------------------------
(* Intelligence, baselines and anomalies.                                  *)

SaveMx(db, domain, records) == [db EXCEPT !.mx = Insert(@, domain, records)]
GetMx(db, domain) == Get(db.mx, domain, {})
SaveTlsa(db, domain, records) == [db EXCEPT !.tlsa = Insert(@, domain, records)]
GetTlsa(db, domain) == Get(db.tlsa, domain, {})
SaveMtaSts(db, p) == [db EXCEPT !.mtaSts = Insert(@, p.domain, p)]
GetMtaSts(db, domain) == Get(db.mtaSts, domain, None)
SaveTlsRpt(db, p) == [db EXCEPT !.tlsRpt = Insert(@, p.domain, p)]
GetTlsRpt(db, domain) == Get(db.tlsRpt, domain, None)
SaveReport(db, r) == [db EXCEPT !.reports = Append(@, r)]
ListReports(db, domain, limit) ==
  Sorted(SelectSeq(db.reports, LAMBDA r : domain \in {None, r.domain}), limit)
\* The certificates of a domain are the last ones fetched.
SaveCt(db, domain, certs) == [db EXCEPT !.ct = Insert(@, domain, certs)]
GetCt(db, domain) == Get(db.ct, domain, {})
SaveCtEvent(db, e) == [db EXCEPT !.ctEvents = Append(@, e)]
ListCtEvents(db, domain, limit) ==
  Sorted(SelectSeq(db.ctEvents, LAMBDA e : domain \in {None, e.domain}), limit)
SaveRefresh(db, s) == [db EXCEPT !.refresh = Insert(@, s.domain, s)]
GetRefresh(db, domain) == Get(db.refresh, domain, None)
DueRefreshes(db, now) ==
  {d \in DOMAIN db.refresh : db.refresh[d].next # None /\ db.refresh[d].next <= now}

SaveBaseline(db, b) == [db EXCEPT !.baselines = Insert(@, b.asset, b)]
GetBaseline(db, asset) == Get(db.baselines, asset, None)
SaveAnomaly(db, a) == [db EXCEPT !.anomalies = Append(@, a)]
ListAnomalies(db, asset, limit) ==
  Sorted(SelectSeq(db.anomalies, LAMBDA a : asset \in {None, a.asset}), limit)

----------------------------------------------------------------------------
(* Investigations, decisions, probe runs, training, remediations, posture. *)

AttachProbe(db, run) ==
  [db EXCEPT !.investigations = Amend(@, run.case, LAMBDA r : [r EXCEPT !.probes = Insert(@, run.id, run.outcome)])]
SaveInvestigation(db, i) ==
  [db EXCEPT !.investigations = Place(@, LAMBDA r : r.id = i.id, i,
     LAMBDA r : [i EXCEPT !.status = r.status, !.first = Lesser(r.first, @), !.at = Greater(r.at, @),
                          !.findings = @ \cup r.findings, !.drifts = @ \cup r.drifts,
                          !.probes = Override(r.probes, @)])]
FindInvestigation(db, id) == ById(db.investigations, id)
ListInvestigations(db, limit) == Sorted(db.investigations, limit)
InvestigationsForAsset(db, asset) ==
  LET mine == SelectSeq(db.investigations, LAMBDA r : r.asset = asset) IN Sorted(mine, Len(mine))
UpdateInvestigation(db, id, status, now) ==
  [db EXCEPT !.investigations = Amend(@, id, LAMBDA r : [r EXCEPT !.status = status, !.at = now])]

SaveDecision(db, d) == [db EXCEPT !.decisions = Append(@, d)]
ListDecisions(db, limit) == Sorted(db.decisions, limit)

Reserve(db, run, cooldown) ==
  IF \E i \in DOMAIN db.probes :
        /\ db.probes[i].target = run.target
        /\ db.probes[i].finished = None \/ db.probes[i].finished > run.at - cooldown
  THEN [db |-> db, answer |-> FALSE]
  ELSE [db |-> [db EXCEPT !.probes = Append(@, run)], answer |-> TRUE]
SaveProbe(db, run) == [db EXCEPT !.probes = Place(@, LAMBDA r : r.id = run.id, run, LAMBDA r : run)]
UpdateProbe(db, run) == [db EXCEPT !.probes = Amend(@, run.id, LAMBDA r : run)]
Unfinished(db) == {r \in RowsOf(db.probes) : r.finished = None}
FindProbe(db, id) == ById(db.probes, id)
ProbesForAsset(db, asset, limit) == Sorted(SelectSeq(db.probes, LAMBDA r : r.asset = asset), limit)
ListProbes(db, limit) == Sorted(db.probes, limit)
LatestForTarget(db, asset, target) ==
  LET runs == {r \in RowsOf(db.probes) : r.asset = asset /\ r.target = target}
  IN Row(runs, LAMBDA r : \A q \in runs : q.at <= r.at)

AttachOutcome(db, id, request, outcome) ==
  IF ById(db.training, id) = None
  THEN [db |-> db, answer |-> "missing"]
  ELSE [db |-> [db EXCEPT !.training = Amend(@, id,
                  LAMBDA r : [r EXCEPT !.outcomes = Insert(@, request, Get(@, request, outcome))])],
        answer |-> "ok"]
SaveTraining(db, t) ==
  LET old == ById(db.training, t.id)
  IN IF old = None THEN [db |-> [db EXCEPT !.training = Append(@, t)], answer |-> "ok"]
     ELSE [db |-> db, answer |-> IF old.features = t.features THEN "ok" ELSE "conflict"]
ListTraining(db, case, asset, limit) ==
  Sorted(SelectSeq(db.training, LAMBDA r : case \in {None, r.case} /\ asset \in {None, r.asset}), limit)
ListUnlabeled(db, limit) == Sorted(SelectSeq(db.training, LAMBDA r : r.label = None), limit)
FindTraining(db, id) == ById(db.training, id)
AttachAnalystLabel(db, id, label) ==
  [db |-> [db EXCEPT !.training = Amend(@, id, LAMBDA r : [r EXCEPT !.label = label])],
   answer |-> IF ById(db.training, id) = None THEN "missing" ELSE "ok"]

CreateRemediation(db, m) ==
  LET old == ById(db.remediations, m.id)
  IN IF old # None THEN [db |-> db, answer |-> old]
     ELSE [db |-> [db EXCEPT !.remediations = Append(@, m)], answer |-> m]
FindRemediation(db, id) == ById(db.remediations, id)
RemediationsForAsset(db, asset) == {r \in RowsOf(db.remediations) : r.asset = asset}
ListVerifying(db) == {r \in RowsOf(db.remediations) : r.state = "verifying"}
UpdateRemediation(db, m, expected) ==
  LET Current(r) == r.id = m.id /\ r.revision = expected
  IN IF Find(db.remediations, Current) = None
     THEN [db |-> db, answer |-> FALSE]
     ELSE [db |-> [db EXCEPT !.remediations = Place(@, Current, m, LAMBDA r : m)], answer |-> TRUE]

SavePosture(db, p) == [db EXCEPT !.postures = Repush(@, LAMBDA r : r.id = p.id, p)]
PosturesForAsset(db, asset, limit) == Sorted(SelectSeq(db.postures, LAMBDA p : p.asset = asset), limit)
LatestPosture(db, asset) ==
  LET list == PosturesForAsset(db, asset, 1) IN IF list = <<>> THEN None ELSE list[1]

----------------------------------------------------------------------------
(* Integrations, archived reports, assessments and organizations.          *)

SaveIntegration(db, c) == [db EXCEPT !.integrations = Repush(@, LAMBDA r : r.id = c.id, c)]
ListIntegrations(db) == Sorted(db.integrations, Len(db.integrations))
FindIntegration(db, id) == ById(db.integrations, id)
DeleteIntegration(db, id) ==
  LET kept == SelectSeq(db.integrations, LAMBDA r : r.id # id)
  IN [db |-> [db EXCEPT !.integrations = kept], answer |-> Len(kept) < Len(db.integrations)]
UpdateIntegration(db, id, outcome, now) ==
  [db EXCEPT !.integrations = Amend(@, id, LAMBDA r : [r EXCEPT !.outcome = outcome, !.changed = now])]

Archive(db, p) == [db EXCEPT !.archive = Repush(@, LAMBDA r : r.id = p.id, p)]
Summary(p) == [id |-> p.id, subject |-> p.subject, at |-> p.at, notes |-> p.notes]
Summaries(v) == [i \in DOMAIN v |-> Summary(v[i])]
ListArchive(db, limit) == Sorted(Summaries(db.archive), limit)
ArchiveForSubject(db, subject) ==
  LET mine == Summaries(SelectSeq(db.archive, LAMBDA r : r.subject = subject)) IN Sorted(mine, Len(mine))
FindArchived(db, id) == ById(db.archive, id)

LatestSyncs(db, org) ==
  LET mine == {a \in RowsOf(db.assessments) : a.org = org /\ None \notin {a.device, a.synced}}
  IN [d \in {a.device : a \in mine} |-> Max({a.synced : a \in {b \in mine : b.device = d}})]
SaveAssessment(db, a) == [db EXCEPT !.assessments = Place(@, LAMBDA r : r.id = a.id, a, LAMBDA r : a)]
FindAssessment(db, id) == ById(db.assessments, id)
FindAssessmentScoped(db, id, org) == Find(db.assessments, LAMBDA a : a.id = id /\ a.org = org)
Line(a) == [id |-> a.id, org |-> a.org, at |-> a.at, kind |-> a.kind, findings |-> Cardinality(a.findings)]
Lines(v) == [i \in DOMAIN v |-> Line(v[i])]
ListAssessments(db) == Sorted(Lines(db.assessments), Len(db.assessments))
AssessmentsForOrg(db, org) ==
  LET mine == Lines(SelectSeq(db.assessments, LAMBDA a : a.org = org)) IN Sorted(mine, Len(mine))

FindOrganization(db, id) == ById(db.organizations, id)
FindBySlug(db, slug) == Find(db.organizations, LAMBDA r : r.slug = slug)
SaveOrganization(db, o) == [db EXCEPT !.organizations = Place(@, LAMBDA r : r.id = o.id, o, LAMBDA r : o)]
AddMember(db, m) == [db EXCEPT !.members = Place(@, LAMBDA r : r.org = m.org /\ r.user = m.user, m, LAMBDA r : m)]
GetMember(db, org, user) == Find(db.members, LAMBDA r : r.org = org /\ r.user = user)
\* Who belongs to no organization is shown every one.
ListForUser(db, user) ==
  LET ids == {m.org : m \in {n \in RowsOf(db.members) : n.user = user}}
  IN IF ids = {} THEN RowsOf(db.organizations) ELSE {o \in RowsOf(db.organizations) : o.id \in ids}

----------------------------------------------------------------------------
(* Devices, challenges and tokens.                                         *)

FindDevice(db, id) == ById(db.devices, id)
ActiveDevice(db, id) == Find(db.devices, LAMBDA d : d.id = id /\ d.revoked = None)
ReportInstallation(db, id, version, caps, now) ==
  [db EXCEPT !.devices = IF ActiveDevice(db, id) = None THEN @
     ELSE Amend(@, id, LAMBDA d : [d EXCEPT !.version = version, !.caps = caps, !.seen = now])]
SaveDevice(db, d) == [db EXCEPT !.devices = Place(@, LAMBDA r : r.id = d.id, d, LAMBDA r : d)]
DevicesForOrg(db, org) == SelectSeq(db.devices, LAMBDA d : d.org = org)
RevokeDevice(db, id, now) == [db EXCEPT !.devices = Amend(@, id, LAMBDA d : [d EXCEPT !.revoked = now])]

CreateChallenge(db, c) == [db EXCEPT !.challenges = Repush(@, LAMBDA r : r.code = c.code, c)]
GetChallenge(db, code) == Find(db.challenges, LAMBDA r : r.code = code)
ApproveChallenge(db, code, user, org, token, device) ==
  [db EXCEPT !.challenges = Alter(@, LAMBDA r : r.code = code,
      LAMBDA r : [r EXCEPT !.user = user, !.org = org, !.token = token, !.device = device])]

SaveDeviceToken(db, hash, device, org, now) ==
  [db EXCEPT !.tokens = Repush(@, LAMBDA t : t.hash = hash, [hash |-> hash, device |-> device, org |-> org, used |-> now])]
\* Validation leaves no trace here.
ValidateDeviceToken(db, hash, now) ==
  LET t == Find(db.tokens, LAMBDA r : r.hash = hash)
      d == IF t = None THEN None ELSE ActiveDevice(db, t.device)
  IN [db |-> db, answer |-> IF d = None THEN None ELSE [device |-> d, org |-> t.org]]
RevokeDeviceToken(db, hash, now) ==
  LET t == Find(db.tokens, LAMBDA r : r.hash = hash)
  IN [db EXCEPT !.devices = IF t = None THEN @ ELSE Amend(@, t.device, LAMBDA d : [d EXCEPT !.revoked = now]),
                !.tokens = SelectSeq(@, LAMBDA r : r.hash # hash)]
Heartbeat(db, id, version, caps, status, now) ==
  [db EXCEPT !.devices = IF ActiveDevice(db, id) = None THEN @
     ELSE Amend(@, id, LAMBDA d : [d EXCEPT !.seen = now, !.version = IF version = None THEN @ ELSE version,
                  !.caps = IF caps = {} THEN @ ELSE caps, !.enabled = TRUE, !.status = status])]
UpdateAgentStatus(db, id, status, job, increment) ==
  [db EXCEPT !.devices = Amend(@, id,
      LAMBDA d : [d EXCEPT !.status = IF status = None THEN @ ELSE status, !.job = job,
                           !.done = IF increment THEN @ + 1 ELSE @])]

----------------------------------------------------------------------------
(* Jobs and monitors.                                                      *)

Active == {"pending", "leased", "running"}
Expired(j, now) == j.state \in Active \ {"pending"} /\ j.lease # None /\ now > j.lease
CancelActive(db, org, device, now) ==
  LET Mine(j) == j.org = org /\ j.target = device /\ j.state \in Active
  IN [db |-> [db EXCEPT !.jobs = Alter(@, Mine, LAMBDA j : [j EXCEPT !.state = "canceled", !.lease = None])],
      answer |-> Len(SelectSeq(db.jobs, Mine))]
CreateJob(db, j) == [db EXCEPT !.jobs = Repush(@, LAMBDA r : r.id = j.id, j)]
UpdateJob(db, j) == [db EXCEPT !.jobs = Place(@, LAMBDA r : r.id = j.id, j, LAMBDA r : j)]
FindJob(db, id) == ById(db.jobs, id)
FindByIdempotencyKey(db, org, key) == Find(db.jobs, LAMBDA r : r.org = org /\ r.key = key)
\* The first job in the list that fits
Leased(db, Fits(_), now, lease) ==
  LET j == Find(db.jobs, LAMBDA r : (r.state = "pending" \/ Expired(r, now)) /\ Fits(r))
      taken == [j EXCEPT !.state = "leased", !.lease = now + lease, !.attempt = @ + 1]
  IN IF j = None THEN [db |-> db, answer |-> None]
     ELSE [db |-> [db EXCEPT !.jobs = Amend(@, j.id, LAMBDA r : taken)], answer |-> taken]
LeaseNextJob(db, agent, org, now, lease) ==
  Leased(db, LAMBDA r : r.org = org /\ (r.target = agent \/ (r.target = None /\ r.kind = "agent")), now, lease)
LeaseNextCloudJob(db, now, lease) == Leased(db, LAMBDA r : r.kind = "cloud", now, lease)
\* A job given up keeps the lease it had.
RecoverExpiredLeases(db, now) ==
  [db |-> [db EXCEPT !.jobs = Alter(@, LAMBDA j : Expired(j, now),
      LAMBDA j : IF j.attempt >= j.max THEN [j EXCEPT !.state = "failed"]
                 ELSE [j EXCEPT !.state = "pending", !.lease = None])],
   answer |-> Len(SelectSeq(db.jobs, LAMBDA j : Expired(j, now)))]
JobsForOrg(db, org, limit) == Take(SelectSeq(db.jobs, LAMBDA j : j.org = org), limit)
CountActiveForOrg(db, org) == Len(SelectSeq(db.jobs, LAMBDA j : j.org = org /\ j.state \in Active))
CountActiveForAgent(db, agent) ==
  Len(SelectSeq(db.jobs, LAMBDA j : j.target = agent /\ j.state \in Active \ {"pending"}))

SaveMonitor(db, m) == [db EXCEPT !.monitors = Place(@, LAMBDA r : r.id = m.id, m, LAMBDA r : m)]
FindMonitor(db, id) == ById(db.monitors, id)
FindByDomain(db, org, domain) == Find(db.monitors, LAMBDA r : r.org = org /\ r.domain.name = domain.name)
MonitorsForOrg(db, org) == {m \in RowsOf(db.monitors) : m.org = org}
DueMonitors(db, now, limit) == Take(SelectSeq(db.monitors, LAMBDA m : m.enabled /\ m.next <= now), limit)
DeleteMonitor(db, id, org) ==
  LET kept == SelectSeq(db.monitors, LAMBDA m : ~(m.id = id /\ m.org = org))
  IN [db |-> [db EXCEPT !.monitors = kept], answer |-> Len(kept) < Len(db.monitors)]
====
