---------------------------- MODULE InfraReports ----------------------------
(***************************************************************************)
(* Checks of one mail domain, as they reach Core: synchronised by the CLI  *)
(* (api/assessments.rs) or reported by a device for a job (api/agent.rs).  *)
(*                                                                         *)
(* Core compares each with an earlier check of the domain, keeps what      *)
(* changed, and files what got worse in an investigation.  A handler is a  *)
(* sequence of storage calls; requests interleave between them, die, and   *)
(* are sent again, and analysts resolve investigations meanwhile.  Of the  *)
(* errors of those calls many are dropped: the handler goes on and answers *)
(* as if nothing had happened.  A request remembers here what it ignored.  *)
(***************************************************************************)
EXTENDS Integers, FiniteSets, Sequences

CONSTANTS
    Requests,       \* requests served
    Scans,          \* ids of checks
    Content,        \* scan -> [created, endpoints, rules, score, hosts]
    Severity,       \* rule -> "low", "high" or "critical"
    ForeignKeys,    \* TRUE: drift and investigations need a row in assets, as in Postgres
    MaxFaults       \* bound on requests that die and on errors of the storage

ASSUME InfraAssumption == ForeignKeys \in BOOLEAN /\ MaxFaults \in Nat

VARIABLES
    assets,         \* ids of stored assets
    assessments,    \* stored checks: scan -> [via, findings, assets], or None
    findings,       \* ids of stored findings: <<via, scan, rule>>
    drifts,         \* stored drift events
    cases,          \* stored investigations of the domain, in order of creation
    request,        \* request -> where its handler is and what it holds
    faults

vars == <<assets, assessments, findings, drifts, cases, request, faults>>

None == [via |-> "none", findings |-> {}, assets |-> {}]

\* The id derived from the domain's name; no asset is stored under it.
DomainAsset == "domain"

-----------------------------------------------------------------------------
(* compare_assessments.                                                    *)

\* The kind of drift when a rule starts to fail, and when it stops.
Introduced(rule) ==
    CASE rule = "STARTTLS_MISSING" -> "StartTlsLost"
      [] rule = "TLS_LEGACY_VERSION" -> "LegacyTlsEnabled"
      [] rule = "NO_FORWARD_SECRECY" -> "ForwardSecrecyLost"
      [] rule = "CERTIFICATE_EXPIRED" -> "CertificateExpired"
      [] rule = "CERT_UNTRUSTED" -> "CertificateTrustChanged"
      [] rule = "MTA_STS_POLICY_MISSING" -> "MtaStsChanged"
      [] rule = "DANE_TLSA_RECORD_MISMATCH" -> "DaneChanged"
      [] OTHER -> "FindingIntroduced"
Resolved(rule) ==
    CASE rule = "STARTTLS_MISSING" -> "StartTlsRestored"
      [] rule = "TLS_LEGACY_VERSION" -> "LegacyTlsDisabled"
      [] rule = "NO_FORWARD_SECRECY" -> "ForwardSecrecyRestored"
      [] rule = "CERTIFICATE_EXPIRED" -> "CertificateRenewed"
      [] OTHER -> "FindingResolved"

Change(kind, from, to) == [kind |-> kind, from |-> from, to |-> to]
MxHosts(endpoints) == {e.host : e \in {f \in endpoints : f.service = "smtp"}}
Addresses(endpoints) == {<<e.host, e.port>> : e \in endpoints}

EndpointChanges(old, new) ==
    {Change("EndpointAdded", "", a[1]) : a \in Addresses(new) \ Addresses(old)}
    \cup {Change("EndpointRemoved", a[1], "") : a \in Addresses(old) \ Addresses(new)}
    \cup {Change("MxAdded", "", h) : h \in MxHosts(new) \ MxHosts(old)}
    \cup {Change("MxRemoved", h, "") : h \in MxHosts(old) \ MxHosts(new)}

RuleChanges(old, new) ==
    {Change(Introduced(r), "", r) : r \in new \ old} \cup {Change(Resolved(r), r, "") : r \in old \ new}

\* Scores are whole here; a change of less than one point is none.
ScoreChanges(old, new) == IF old = new THEN {} ELSE {Change("PostureChanged", old, new)}

Compare(old, new, oldRules, newRules) ==
    EndpointChanges(old.endpoints, new.endpoints)
    \cup RuleChanges(oldRules, newRules) \cup ScoreChanges(old.score, new.score)

\* extract_security_regressions.  A score below 40 counts whether it fell or rose.
IsSecurityRegression(kind) ==
    kind \in {"StartTlsLost", "LegacyTlsEnabled", "ForwardSecrecyLost",
              "CertificateExpired", "CertificateTrustChanged"}
IsRegression(c) ==
    \/ IsSecurityRegression(c.kind)
    \/ c.kind \in {"MtaStsChanged", "DaneChanged"}
    \/ c.kind = "PostureChanged" /\ (c.to <= c.from - 15 \/ c.to < 40)
    \/ c.kind = "FindingIntroduced" /\ Severity[c.to] # "low"
Regressions(events) == {d \in events : IsRegression(d.change)}

-----------------------------------------------------------------------------
(* Requests.                                                               *)

Idle == [pc |-> "idle", via |-> "none", scan |-> CHOOSE s \in Scans : TRUE, assets |-> {},
         prior |-> CHOOSE s \in Scans : TRUE, priorVia |-> "none", events |-> {}, case |-> 0, risk |-> "High",
         unread |-> {}, lost |-> {}, unfiled |-> FALSE]

Init ==
    /\ assets = {}
    /\ assessments = [s \in Scans |-> None]
    /\ findings = {}
    /\ drifts = {}
    /\ cases = <<>>
    /\ request = [q \in Requests |-> Idle]
    /\ faults = 0

At(q, pc) == request[q].pc = pc
Goto(q, pc) == request' = [request EXCEPT ![q].pc = pc]
Scan(q) == Content[request[q].scan]
FindingIds(q) == {<<request[q].via, request[q].scan, r>> : r \in Scan(q).rules}

\* A call to the storage fails, or does not.
Fault(fails) ==
    /\ fails => faults < MaxFaults
    /\ faults' = IF fails THEN faults + 1 ELSE faults

\* What follows when the comparison is over.
Compared(q) == IF request[q].via = "sync" THEN "review" ELSE "answered"

\* The CLI synchronises; a check it synchronised before is acknowledged.  Its
\* sessions go through the observation pipeline, which stores their assets.
SyncAssessment(q) ==
    /\ At(q, "idle")
    /\ \E s \in Scans :
        IF assessments[s] # None
        THEN /\ request' = [request EXCEPT ![q] = [Idle EXCEPT !.pc = "answered", !.via = "sync", !.scan = s]]
             /\ UNCHANGED assets
        ELSE /\ request' = [request EXCEPT ![q] = [Idle EXCEPT !.pc = "findings", !.via = "sync",
                                                    !.scan = s, !.assets = Content[s].hosts]]
             /\ assets' = assets \cup Content[s].hosts
    /\ UNCHANGED <<assessments, findings, drifts, cases, faults>>

\* A device reports the check of a job; its one asset is the domain's id.
CompleteJob(q) ==
    /\ At(q, "idle")
    /\ \E s \in Scans :
        request' = [request EXCEPT ![q] = [Idle EXCEPT !.pc = "review", !.via = "job", !.scan = s,
                                                        !.assets = {DomainAsset}]]
    /\ UNCHANGED <<assets, assessments, findings, drifts, cases, faults>>

\* review_synced_assessment stores a decision and changes only the check in memory.
Review(q) ==
    /\ At(q, "review")
    /\ Goto(q, "save")
    /\ UNCHANGED <<assets, assessments, findings, drifts, cases, faults>>

\* A synchronised check is saved last, a reported one first.
SaveAssessment(q) ==
    /\ At(q, "save")
    /\ assessments' = [assessments EXCEPT ![request[q].scan] =
            [via |-> request[q].via, findings |-> FindingIds(q), assets |-> request[q].assets]]
    /\ Goto(q, IF request[q].via = "sync" THEN "answered" ELSE "findings")
    /\ UNCHANGED <<assets, findings, drifts, cases, faults>>

\* Mutant of SaveFindings: leaves out what is not serious.
SaveSeriousFindings(q) ==
    /\ At(q, "findings")
    /\ findings' = findings \cup {id \in FindingIds(q) : Severity[id[3]] # "low"}
    /\ Goto(q, "prior")
    /\ UNCHANGED <<assets, assessments, drifts, cases, faults>>

\* One call each; requests that die between them leave some.
SaveFindings(q) ==
    /\ At(q, "findings")
    /\ \/ /\ findings' = findings \cup FindingIds(q)
          /\ Goto(q, "prior")
       \/ \E id \in FindingIds(q) \ findings :
            findings' = findings \cup {id} /\ UNCHANGED request
    /\ UNCHANGED <<assets, assessments, drifts, cases, faults>>

\* The stored checks a request compares with: older ones when it synchronises,
\* all others when it reports a job.
Priors(q) ==
    {s \in Scans \ {request[q].scan} : /\ assessments[s] # None
                                       /\ request[q].via = "sync" => Content[s].created < Scan(q).created}

\* The asset the events are filed under, and the one of the investigation.
First(ids) == CHOOSE a \in ids : TRUE
DriftAsset(q) == IF request[q].assets = {} THEN request[q].scan ELSE First(request[q].assets)
CaseAsset(q) == IF request[q].assets = {} THEN DomainAsset ELSE First(request[q].assets)

Newest(ids) == {s \in ids : \A t \in ids : Content[t].created <= Content[s].created}

\* The newest of them, with those of its findings that are stored.  A job leaves
\* out a finding it fails to read; a synchronisation fails (Die).
ComparePrior(q) ==
    /\ At(q, "prior")
    /\ IF Priors(q) = {} THEN Goto(q, Compared(q)) /\ Fault(FALSE)
       ELSE \E s \in Newest(Priors(q)) :
        LET failing == {id[3] : id \in assessments[s].findings \cap findings}
        IN \E unread \in SUBSET failing :
            LET changes == Compare(Content[s], Scan(q), failing \ unread, Scan(q).rules)
            IN /\ unread # {} => request[q].via = "job"
               /\ Fault(unread # {})
               /\ request' = [request EXCEPT ![q].pc = "drifts", ![q].prior = s,
                    ![q].priorVia = assessments[s].via, ![q].unread = unread,
                    ![q].events = {[by |-> q, change |-> c, asset |-> DriftAsset(q)] : c \in changes}]
    /\ UNCHANGED <<assets, assessments, findings, drifts, cases>>

\* A job that cannot read the earlier checks compares with none.
MissPrior(q) ==
    /\ At(q, "prior") /\ request[q].via = "job"
    /\ Fault(TRUE)
    /\ Goto(q, "answered")
    /\ UNCHANGED <<assets, assessments, findings, drifts, cases>>

\* The asset a row of a table may refer to.
Referable(a) == ForeignKeys => a \in assets

\* What follows when the events were stored, or not.
Stored(q) == IF Regressions(request[q].events) = {} THEN Compared(q) ELSE "look"

\* Mutant of SaveDrifts: only what got worse is worth keeping.
SaveRegressions(q) ==
    /\ At(q, "drifts")
    /\ drifts' = drifts \cup {d \in Regressions(request[q].events) : Referable(d.asset)}
    /\ request' = [request EXCEPT ![q].pc = Stored(q),
            ![q].lost = {d \in Regressions(request[q].events) : ~Referable(d.asset)}]
    /\ UNCHANGED <<assets, assessments, findings, cases, faults>>

\* One call each.  Events whose asset is not stored are refused, other calls
\* fail, and neither is noticed.
SaveDrifts(q) ==
    /\ At(q, "drifts")
    /\ LET refused == {d \in request[q].events : ~Referable(d.asset)}
       IN \E failed \in SUBSET (request[q].events \ refused) :
            /\ Fault(failed # {})
            /\ drifts' = drifts \cup (request[q].events \ (refused \cup failed))
            /\ request' = [request EXCEPT ![q].pc = Stored(q), ![q].lost = refused \cup failed]
    /\ UNCHANGED <<assets, assessments, findings, cases>>

Open(asset) == {i \in 1..Len(cases) : cases[i].asset = asset /\ cases[i].status # "Resolved"}

\* The unresolved investigation to enrich; 0 is none, as it is when the
\* investigations cannot be read.
FindCase(q) ==
    /\ At(q, "look")
    /\ \E i \in Open(CaseAsset(q)) \cup {0} :
        /\ Fault(i = 0 /\ Open(CaseAsset(q)) # {})
        /\ request' = [request EXCEPT ![q].pc = "case", ![q].case = i,
                                      ![q].risk = IF i = 0 THEN "High" ELSE cases[i].risk]
    /\ UNCHANGED <<assets, assessments, findings, drifts, cases>>

\* correlate_or_enrich_investigation: critical changes and critical findings
\* raise the risk the request read; a new investigation starts high.
Critical(events, rules) ==
    \/ \E d \in events : d.change.kind \in {"StartTlsLost", "CertificateExpired", "CertificateTrustChanged"}
    \/ \E r \in rules : Severity[r] = "critical"
Serious(rules) == {r \in rules : Severity[r] # "low"}

\* Mutant of Case: files every change, not only what got worse.
CaseOfAll(q) ==
    [asset |-> CaseAsset(q), status |-> "Open", drifts |-> request[q].events,
     rules |-> Serious(Scan(q).rules), risk |-> request[q].risk]

Case(q) ==
    LET worse == Regressions(request[q].events)
        rules == Scan(q).rules
        known == request[q].case # 0
    IN [asset |-> CaseAsset(q), status |-> "Open", drifts |-> worse,
        rules |-> IF known \/ Serious(rules) # {} THEN Serious(rules) ELSE rules,
        risk |-> IF Critical(worse, rules) THEN "Critical" ELSE request[q].risk]

\* Mutant of Kept: the row is replaced.
KeptLatest(old, new) == new
\* Saving a known investigation unites the evidence and keeps the status.
Kept(old, new) == [old EXCEPT !.drifts = @ \cup new.drifts, !.rules = @ \cup new.rules, !.risk = new.risk]

\* An error, as a missing asset is one, fails the synchronisation (a passing
\* one as Die); a job ignores it.
SaveCase(q) ==
    /\ At(q, "case")
    /\ \/ /\ Referable(CaseAsset(q))
          /\ cases' = IF request[q].case = 0 THEN Append(cases, Case(q))
                      ELSE [cases EXCEPT ![request[q].case] = Kept(@, Case(q))]
          /\ Goto(q, Compared(q))
          /\ Fault(FALSE)
       \/ /\ Referable(CaseAsset(q)) => request[q].via = "job"
          /\ Fault(Referable(CaseAsset(q)))
          /\ request' = [request EXCEPT ![q].unfiled = TRUE,
                ![q].pc = IF request[q].via = "sync" THEN "failed" ELSE "answered"]
          /\ UNCHANGED cases
    /\ UNCHANGED <<assets, assessments, findings, drifts>>

Die(q) ==
    /\ request[q].pc \notin {"idle", "answered", "failed"} /\ faults < MaxFaults
    /\ faults' = faults + 1
    /\ Goto(q, "failed")
    /\ UNCHANGED <<assets, assessments, findings, drifts, cases>>

\* An analyst closes an investigation or opens it again.
UpdateStatus(i) ==
    /\ \E status \in {"Open", "Resolved"} \ {cases[i].status} :
        cases' = [cases EXCEPT ![i].status = status]
    /\ UNCHANGED <<assets, assessments, findings, drifts, request, faults>>

Next ==
    \/ \E q \in Requests :
        \/ SyncAssessment(q) \/ CompleteJob(q) \/ Review(q) \/ SaveAssessment(q) \/ SaveFindings(q)
        \/ ComparePrior(q) \/ MissPrior(q) \/ SaveDrifts(q) \/ FindCase(q) \/ SaveCase(q) \/ Die(q)
    \/ \E i \in 1..Len(cases) : UpdateStatus(i)

Spec == Init /\ [][Next]_vars

-----------------------------------------------------------------------------
(* Properties.                                                             *)

Pcs == {"idle", "findings", "prior", "drifts", "look", "case", "review", "save", "answered", "failed"}

\* Types; every event, finding and investigation is of a check that exists.
TypeOK ==
    /\ \A s \in Scans : assessments[s].via \in {"none", "sync", "job"}
    /\ \A id \in findings : id[1] \in {"sync", "job"} /\ id[3] \in Content[id[2]].rules
    /\ \A d \in drifts : d.by \in Requests /\ d \in request[d.by].events
    /\ \A i \in 1..Len(cases) :
        /\ cases[i].drifts # {} /\ cases[i].risk \in {"High", "Critical"}
        /\ cases[i].status \in {"Open", "Resolved"} /\ cases[i].drifts \subseteq Regressions(cases[i].drifts)
    /\ \A q \in Requests : request[q].pc \in Pcs /\ request[q].case \in 0..Len(cases)
    /\ faults \in 0..MaxFaults

\* Once a request was answered, each change it found is kept as history unless
\* the store failed that event itself: what else goes wrong loses nothing more.
DriftsStored ==
    \A q \in Requests : At(q, "answered") => request[q].events \ request[q].lost \subseteq drifts

\* api/agent.rs:473, "Persist all drift events to asset storage": every change
\* an answered request found is kept as history.
EveryChangeIsHistory ==
    \A q \in Requests : At(q, "answered") => request[q].events \subseteq drifts

\* api/agent.rs:450: what got worse is filed, all of it in one investigation of
\* the domain, whoever else enriches or resolves it and whether or not the open
\* ones could be read, unless the store failed that investigation itself.
RegressionFiled ==
    \A q \in Requests :
        At(q, "answered") /\ Regressions(request[q].events) # {} /\ ~request[q].unfiled =>
            \E i \in 1..Len(cases) : /\ cases[i].asset = CaseAsset(q)
                                     /\ Regressions(request[q].events) \subseteq cases[i].drifts

\* A rule reported as newly failing did not fail in the check compared with, if
\* that one was synchronised (it is stored after all its findings, whatever
\* dies), unless this very finding could not be read.
NoFalseAlarm ==
    \A q \in Requests : \A e \in request[q].events :
        /\ request[q].priorVia = "sync"
        /\ e.change.kind \in {Introduced(r) : r \in DOMAIN Severity}
        => e.change.to \notin Content[request[q].prior].rules \ request[q].unread
=============================================================================
