------------------------- MODULE InfraReportsProofs -------------------------
(***************************************************************************)
(* What holds of the checks of a domain for any contents, any number of    *)
(* requests, checks and rules, and any requests that die or fail.          *)
(***************************************************************************)
EXTENDS InfraReports, SequenceTheorems, TLAPS

-----------------------------------------------------------------------------
(* What the tables and the requests hold.                                  *)

NoScan == CHOOSE s \in Scans : TRUE
Ids == (UNION {Content[s].hosts : s \in Scans}) \cup {DomainAsset} \cup Scans
Rules == UNION {Content[s].rules : s \in Scans}
FindingRows == {id \in {"sync", "job"} \X Scans \X Rules : id[3] \in Content[id[2]].rules}
Changes ==
  UNION {Compare(Content[s], Content[t], rules, Content[t].rules) : s, t \in Scans, rules \in SUBSET Rules}
Events == [by : Requests, change : Changes, asset : Ids]

AssessmentRow == [via : {"none", "sync", "job"}, findings : SUBSET FindingRows, assets : SUBSET Ids]

CaseRow ==
  [asset : Ids, status : {"Open", "Resolved"}, drifts : SUBSET Events, rules : SUBSET Rules,
   risk : {"High", "Critical"}]

RequestState ==
  [pc : Pcs, via : {"none", "sync", "job"}, scan : Scans \cup {NoScan}, assets : SUBSET Ids,
   prior : Scans \cup {NoScan}, priorVia : {"none", "sync", "job"}, events : SUBSET Events,
   case : Nat, risk : {"High", "Critical"}, unread : SUBSET Rules, lost : SUBSET Events, unfiled : BOOLEAN]

Shape ==
  /\ assessments \in [Scans -> AssessmentRow]
  /\ findings \in SUBSET FindingRows
  /\ cases \in Seq(CaseRow)
  /\ request \in [Requests -> RequestState]
  /\ faults \in 0 .. MaxFaults

-----------------------------------------------------------------------------
(* The invariant.                                                          *)

\* The request has not compared yet, or it has and filed what it found.
Before(q) ==
  \/ request[q].pc \in {"idle", "findings", "prior"}
  \/ request[q].via = "job" /\ request[q].pc \in {"review", "save"}
After(q) ==
  \/ request[q].pc = "answered"
  \/ request[q].via = "sync" /\ request[q].pc \in {"review", "save"}

\* A synchronised check was stored after all its findings.
CheckSafe(s) ==
  assessments[s].via = "sync" =>
    \A r \in Content[s].rules : <<"sync", s, r>> \in assessments[s].findings \cap findings

\* An investigation exists because of something that got worse, and holds nothing else.
CaseSafe(i) == cases[i].drifts # {} /\ \A d \in cases[i].drifts : IsRegression(d.change)

Filed(q) ==
  \E i \in 1 .. Len(cases) : /\ cases[i].asset = CaseAsset(q)
                             /\ Regressions(request[q].events) \subseteq cases[i].drifts

\* A request holds events of its own comparison; they are stored and filed in turn.
Holds(q) ==
  /\ request[q].pc # "idle" => request[q].via # "none" /\ request[q].scan \in Scans
  /\ Before(q) => request[q].events = {}
  /\ \A d \in request[q].events : d.by = q
  /\ request[q].pc \in {"look", "case"} => Regressions(request[q].events) # {}
  /\ request[q].case <= Len(cases)
  /\ request[q].pc = "case" /\ request[q].case # 0 => cases[request[q].case].asset = CaseAsset(q)

\* A synchronised check is saved when its findings are.
Gathers(q) ==
  request[q].via = "sync" /\ request[q].pc \in {"prior", "drifts", "look", "case", "review", "save"}
    => FindingIds(q) \subseteq findings

\* What a request found and the store did not fail is kept, and filed.
Stores(q) ==
  /\ request[q].pc \in {"look", "case"} \/ After(q) => request[q].events \ request[q].lost \subseteq drifts
  /\ After(q) /\ Regressions(request[q].events) # {} /\ ~request[q].unfiled => Filed(q)

Alarms(q) ==
  \A e \in request[q].events :
    /\ request[q].priorVia = "sync"
    /\ e.change.kind \in {Introduced(r) : r \in DOMAIN Severity}
    => e.change.to \notin Content[request[q].prior].rules \ request[q].unread

RequestSafe(q) == Holds(q) /\ Gathers(q) /\ Stores(q) /\ Alarms(q)

IInv ==
  /\ Shape
  /\ \A s \in Scans : CheckSafe(s)
  /\ \A i \in 1 .. Len(cases) : CaseSafe(i)
  /\ \A d \in drifts : d.by \in Requests /\ d \in request[d.by].events
  /\ \A q \in Requests : RequestSafe(q)

-----------------------------------------------------------------------------
(* What a comparison finds.                                                *)

LEMMA IntroducedKinds ==
  ASSUME NEW r
  PROVE  Introduced(r) \in {"StartTlsLost", "LegacyTlsEnabled", "ForwardSecrecyLost", "CertificateExpired",
                            "CertificateTrustChanged", "MtaStsChanged", "DaneChanged", "FindingIntroduced"}
BY DEF Introduced

LEMMA ResolvedKinds ==
  ASSUME NEW r
  PROVE  Resolved(r) \in {"StartTlsRestored", "LegacyTlsDisabled", "ForwardSecrecyRestored",
                          "CertificateRenewed", "FindingResolved"}
BY DEF Resolved

\* A change of a kind that only new failures have is of a rule that did not fail.
LEMMA AlarmIsNew ==
  ASSUME NEW old, NEW new, NEW oldRules, NEW newRules, NEW c \in Compare(old, new, oldRules, newRules),
         c.kind \in {Introduced(r) : r \in DOMAIN Severity}
  PROVE  c.to \notin oldRules
<1>1. c.kind \in {"StartTlsLost", "LegacyTlsEnabled", "ForwardSecrecyLost", "CertificateExpired",
                  "CertificateTrustChanged", "MtaStsChanged", "DaneChanged", "FindingIntroduced"}
  BY IntroducedKinds
<1>2. ASSUME c \in EndpointChanges(old.endpoints, new.endpoints) PROVE FALSE
  <2>1. \E from, to : \E kind \in {"EndpointAdded", "EndpointRemoved", "MxAdded", "MxRemoved"} :
          c = Change(kind, from, to)
    BY <1>2, Zenon DEF EndpointChanges
  <2>2. c.kind \in {"EndpointAdded", "EndpointRemoved", "MxAdded", "MxRemoved"}
    BY <2>1 DEF Change
  <2> QED
    BY <1>1, <2>2
<1>3. ASSUME c \in ScoreChanges(old.score, new.score) PROVE FALSE
  <2>1. c = Change("PostureChanged", old.score, new.score)
    BY <1>3 DEF ScoreChanges
  <2> QED
    BY <1>1, <2>1 DEF Change
<1>4. ASSUME NEW r \in oldRules \ newRules, c = Change(Resolved(r), r, "") PROVE FALSE
  <2>1. c.kind = Resolved(r)
    BY <1>4 DEF Change
  <2> QED
    BY <1>1, <2>1, ResolvedKinds
<1>5. PICK r \in newRules \ oldRules : c = Change(Introduced(r), "", r)
  <2>1. c \in RuleChanges(oldRules, newRules)
    BY <1>2, <1>3 DEF Compare
  <2>2. CASE \E r \in oldRules \ newRules : c = Change(Resolved(r), r, "")
    BY <1>4, <2>2
  <2> QED
    BY <2>1, <2>2, Zenon DEF RuleChanges
<1> QED
  BY <1>5 DEF Change

-----------------------------------------------------------------------------
(* What a step leaves as it was.                                           *)

CasesGrow ==
  /\ Len(cases) <= Len(cases')
  /\ \A i \in 1 .. Len(cases) : /\ cases'[i].asset = cases[i].asset
                                /\ cases[i].drifts \subseteq cases'[i].drifts

Grows == findings \subseteq findings' /\ drifts \subseteq drifts' /\ CasesGrow

LEMMA NothingGrows == ASSUME UNCHANGED <<findings, drifts, cases>> PROVE Grows
<1>1. Len(cases) <= Len(cases')
  BY DEF Shape
<1> QED
  BY <1>1 DEF Grows, CasesGrow

\* A request that does not move is safe after a step of another one.
LEMMA StillSafe ==
  ASSUME IInv, NEW q \in Requests, request'[q] = request[q], Grows
  PROVE  RequestSafe(q)'
<1>1. /\ Holds(q) /\ Gathers(q) /\ Stores(q) /\ Alarms(q) /\ request[q] \in RequestState
      /\ cases \in Seq(CaseRow)
  BY DEF IInv, RequestSafe, Shape
<1>2. Holds(q)'
  <2>1. request[q].case # 0 => request[q].case \in 1 .. Len(cases)
    BY <1>1 DEF Holds, RequestState
  <2>2. CaseAsset(q)' = CaseAsset(q) /\ (Before(q)' <=> Before(q))
    BY DEF CaseAsset, Before
  <2>3. request[q].case <= Len(cases')
    BY <1>1 DEF Holds, RequestState, Grows, CasesGrow
  <2> QED
    BY <1>1, <2>1, <2>2, <2>3 DEF Holds, Grows, CasesGrow
<1>3. Gathers(q)'
  BY <1>1 DEF Gathers, FindingIds, Scan, Grows
<1>4. Stores(q)'
  <2>1. CaseAsset(q)' = CaseAsset(q) /\ (After(q)' <=> After(q))
    BY DEF CaseAsset, After
  <2>2. Filed(q) => Filed(q)'
    BY <1>1, <2>1 DEF Filed, Grows, CasesGrow
  <2> QED
    BY <1>1, <2>1, <2>2 DEF Stores, Grows
<1>5. Alarms(q)'
  BY <1>1 DEF Alarms
<1> QED
  BY <1>2, <1>3, <1>4, <1>5 DEF RequestSafe

\* Steps in which no request moves.
LEMMA TablesMove ==
  ASSUME IInv, UNCHANGED <<request, drifts>>, Shape', Grows,
         \A s \in Scans : CheckSafe(s)', \A i \in 1 .. Len(cases') : CaseSafe(i)'
  PROVE  IInv'
BY StillSafe DEF IInv

\* Steps in which one request becomes x.
LEMMA RequestMoves ==
  ASSUME IInv, NEW q \in Requests, NEW x \in RequestState, request' = [request EXCEPT ![q] = x],
         request[q].events \subseteq x.events, Grows,
         assessments' \in [Scans -> AssessmentRow], findings' \in SUBSET FindingRows,
         cases' \in Seq(CaseRow), faults' \in 0 .. MaxFaults,
         \A d \in drifts' : d \in drifts \/ d \in request[q].events,
         \A s \in Scans : CheckSafe(s)', \A i \in 1 .. Len(cases') : CaseSafe(i)',
         RequestSafe(q)'
  PROVE  IInv'
<1>1. /\ request \in [Requests -> RequestState] /\ request' \in [Requests -> RequestState]
      /\ request'[q] = x /\ \A p \in Requests \ {q} : request'[p] = request[p]
  BY DEF IInv, Shape
<1>2. Shape'
  BY <1>1 DEF Shape
<1>3. \A p \in Requests : RequestSafe(p)'
  BY <1>1, StillSafe
<1>4. \A d \in drifts' : d.by \in Requests /\ d \in request'[d.by].events
  <2>1. \A d \in request[q].events : d.by = q
    BY DEF IInv, RequestSafe, Holds
  <2> QED
    BY <1>1, <2>1 DEF IInv
<1> QED
  BY <1>2, <1>3, <1>4 DEF IInv

\* A request that goes on keeps what it holds.
Went(q, pc) ==
  /\ request'[q].pc = pc /\ request'[q].via = request[q].via /\ request'[q].scan = request[q].scan
  /\ request'[q].assets = request[q].assets /\ request'[q].prior = request[q].prior
  /\ request'[q].priorVia = request[q].priorVia /\ request'[q].events = request[q].events
  /\ request'[q].case = request[q].case /\ request'[q].unread = request[q].unread

\* ... and what the store failed of it.
SameLosses(q) == request'[q].lost = request[q].lost /\ request'[q].unfiled = request[q].unfiled

LEMMA GotoRow ==
  ASSUME Shape, NEW q \in Requests, NEW pc \in Pcs, Goto(q, pc)
  PROVE  /\ [request[q] EXCEPT !.pc = pc] \in RequestState
         /\ request' = [request EXCEPT ![q] = [request[q] EXCEPT !.pc = pc]]
         /\ Went(q, pc) /\ SameLosses(q)
<1> DEFINE x == [request[q] EXCEPT !.pc = pc]
<1>1. request[q] \in RequestState /\ request' = [request EXCEPT ![q] = x]
  BY DEF Shape, Goto
<1>2. /\ x \in RequestState /\ x.pc = pc /\ x.via = request[q].via /\ x.scan = request[q].scan
      /\ x.assets = request[q].assets /\ x.prior = request[q].prior
      /\ x.priorVia = request[q].priorVia /\ x.events = request[q].events /\ x.case = request[q].case
      /\ x.unread = request[q].unread /\ x.lost = request[q].lost /\ x.unfiled = request[q].unfiled
  BY <1>1 DEF RequestState
<1> HIDE DEF x
<1>3. request'[q] = x
  BY <1>1, <1>2 DEF Shape
<1>4. Went(q, pc) /\ SameLosses(q)
  BY <1>2, <1>3 DEF Went, SameLosses
<1> QED
  BY <1>1, <1>2, <1>4 DEF x

\* Steps in which one request goes on, or dies, and may lose something.
LEMMA MovesOn ==
  ASSUME IInv, NEW q \in Requests, NEW pc \in Pcs \ {"idle", "drifts", "case"}, request[q].pc # "idle",
         NEW x \in RequestState, request' = [request EXCEPT ![q] = x], Went(q, pc), Grows,
         assessments' \in [Scans -> AssessmentRow], findings' \in SUBSET FindingRows,
         cases' \in Seq(CaseRow), faults' \in 0 .. MaxFaults,
         \A d \in drifts' : d \in drifts \/ d \in request[q].events,
         \A s \in Scans : CheckSafe(s)', \A i \in 1 .. Len(cases') : CaseSafe(i)',
         Before(q)' => request[q].events = {},
         pc = "look" => Regressions(request[q].events) # {},
         Gathers(q)', Stores(q)'
  PROVE  IInv'
<1>1. Holds(q) /\ Alarms(q) /\ request[q].case \in Nat /\ cases \in Seq(CaseRow)
  BY DEF IInv, RequestSafe, Shape, RequestState
<1>2. Holds(q)'
  <2>1. request[q].case <= Len(cases')
    BY <1>1 DEF Holds, Grows, CasesGrow
  <2> QED
    BY <1>1, <2>1 DEF Holds, Went
<1>3. Alarms(q)'
  BY <1>1 DEF Alarms, Went
<1>4. RequestSafe(q)'
  BY <1>2, <1>3 DEF RequestSafe
<1>5. request[q].events \subseteq x.events
  BY DEF IInv, Shape, Went
<1> QED
  BY <1>4, <1>5, RequestMoves

\* The same when it loses nothing.
LEMMA GoesOn ==
  ASSUME IInv, NEW q \in Requests, NEW pc \in Pcs \ {"idle", "drifts", "case"}, request[q].pc # "idle",
         Goto(q, pc), Grows,
         assessments' \in [Scans -> AssessmentRow], findings' \in SUBSET FindingRows,
         cases' \in Seq(CaseRow), faults' \in 0 .. MaxFaults,
         \A d \in drifts' : d \in drifts \/ d \in request[q].events,
         \A s \in Scans : CheckSafe(s)', \A i \in 1 .. Len(cases') : CaseSafe(i)',
         Before(q)' => request[q].events = {},
         pc = "look" => Regressions(request[q].events) # {},
         Gathers(q)', Stores(q)'
  PROVE  IInv'
<1> DEFINE x == [request[q] EXCEPT !.pc = pc]
<1>1. x \in RequestState /\ request' = [request EXCEPT ![q] = x] /\ Went(q, pc)
  BY GotoRow DEF IInv
<1> HIDE DEF x
<1> QED
  BY <1>1, MovesOn

\* The same when the tables stay as they are.
LEMMA OnlyGoesOn ==
  ASSUME IInv, NEW q \in Requests, NEW pc \in Pcs \ {"idle", "drifts", "case"}, request[q].pc # "idle",
         Goto(q, pc), UNCHANGED <<assessments, findings, drifts, cases>>, faults' \in 0 .. MaxFaults,
         Before(q)' => request[q].events = {},
         pc = "look" => Regressions(request[q].events) # {},
         Gathers(q)', Stores(q)'
  PROVE  IInv'
<1>1. Grows
  BY NothingGrows
<1>2. /\ assessments' \in [Scans -> AssessmentRow] /\ findings' \in SUBSET FindingRows
      /\ cases' \in Seq(CaseRow)
      /\ (\A s \in Scans : CheckSafe(s)') /\ \A i \in 1 .. Len(cases') : CaseSafe(i)'
  BY DEF IInv, Shape, CheckSafe, CaseSafe
<1> QED
  BY <1>1, <1>2, GoesOn

\* What a request that is in progress has.
LEMMA InProgress ==
  ASSUME IInv, NEW q \in Requests, request[q].pc # "idle"
  PROVE  /\ request[q] \in RequestState /\ request[q].scan \in Scans /\ request[q].via \in {"sync", "job"}
         /\ FindingIds(q) \in SUBSET FindingRows /\ Holds(q) /\ Gathers(q) /\ Stores(q) /\ Alarms(q)
<1>1. request[q] \in RequestState /\ Holds(q) /\ Gathers(q) /\ Stores(q) /\ Alarms(q)
  BY DEF IInv, RequestSafe, Shape
<1>2. request[q].scan \in Scans /\ request[q].via \in {"sync", "job"}
  BY <1>1 DEF Holds, RequestState
<1>3. ASSUME NEW r \in Content[request[q].scan].rules
      PROVE  <<request[q].via, request[q].scan, r>> \in FindingRows
  <2>1. r \in Rules
    BY <1>2 DEF Rules
  <2> QED
    BY <1>2, <2>1 DEF FindingRows
<1>4. FindingIds(q) \in SUBSET FindingRows
  BY <1>3 DEF FindingIds, Scan
<1> QED
  BY <1>1, <1>2, <1>4

-----------------------------------------------------------------------------
(* Requests begin.                                                         *)

LEMMA IdsHold == DomainAsset \in Ids /\ Scans \subseteq Ids
BY DEF Ids

LEMMA IdleType == Idle \in RequestState
BY DEF Idle, RequestState, Pcs, NoScan

\* An idle request takes a check on, or is acknowledged.
LEMMA Begins ==
  ASSUME IInv, NEW q \in Requests, request[q].pc = "idle",
         NEW x \in RequestState, request' = [request EXCEPT ![q] = x],
         x.pc \in {"answered", "findings", "review"}, x.via \in {"sync", "job"}, x.scan \in Scans,
         x.pc = "review" => x.via = "job", x.events = {}, x.case = 0,
         UNCHANGED <<assessments, findings, drifts, cases, faults>>
  PROVE  IInv'
<1>1. request'[q] = x /\ Holds(q) /\ Shape /\ Len(cases) \in Nat
  BY DEF IInv, RequestSafe, Shape
<1>2. request[q].events = {} /\ Regressions({}) = {}
  BY <1>1 DEF Holds, Before, Regressions
<1>3. Holds(q)'
  BY <1>1 DEF Holds
<1>4. Gathers(q)' /\ Stores(q)' /\ Alarms(q)'
  BY <1>1, <1>2 DEF Gathers, Stores, Alarms
<1>5. RequestSafe(q)' /\ Grows
  BY <1>3, <1>4, NothingGrows DEF RequestSafe
<1>6. /\ assessments' \in [Scans -> AssessmentRow] /\ findings' \in SUBSET FindingRows
      /\ cases' \in Seq(CaseRow) /\ faults' \in 0 .. MaxFaults
      /\ (\A s \in Scans : CheckSafe(s)') /\ \A i \in 1 .. Len(cases') : CaseSafe(i)'
  BY DEF IInv, Shape, CheckSafe, CaseSafe
<1> QED
  BY <1>2, <1>5, <1>6, RequestMoves

LEMMA SyncAssessmentSafe == ASSUME IInv, NEW q \in Requests, SyncAssessment(q) PROVE IInv'
<1> USE IdleType DEF SyncAssessment
<1>1. PICK s \in Scans :
        IF assessments[s] # None
        THEN request' = [request EXCEPT ![q] = [Idle EXCEPT !.pc = "answered", !.via = "sync", !.scan = s]]
        ELSE request' = [request EXCEPT ![q] = [Idle EXCEPT !.pc = "findings", !.via = "sync",
                                                 !.scan = s, !.assets = Content[s].hosts]]
  OBVIOUS
<1>2. request[q].pc = "idle" /\ UNCHANGED <<assessments, findings, drifts, cases, faults>>
  BY DEF At
<1>3. CASE assessments[s] # None
  <2> DEFINE x == [Idle EXCEPT !.pc = "answered", !.via = "sync", !.scan = s]
  <2>1. x \in RequestState /\ x.pc = "answered" /\ x.via = "sync" /\ x.scan = s /\ x.events = {} /\ x.case = 0
    BY DEF RequestState, Idle, Pcs
  <2>2. request' = [request EXCEPT ![q] = x]
    BY <1>1, <1>3
  <2> HIDE DEF x
  <2> QED
    BY <1>2, <2>1, <2>2, Begins
<1>4. CASE assessments[s] = None
  <2> DEFINE x == [Idle EXCEPT !.pc = "findings", !.via = "sync", !.scan = s, !.assets = Content[s].hosts]
  <2>1. Content[s].hosts \subseteq Ids
    BY DEF Ids
  <2>2. x \in RequestState /\ x.pc = "findings" /\ x.via = "sync" /\ x.scan = s /\ x.events = {} /\ x.case = 0
    BY <2>1 DEF RequestState, Idle, Pcs
  <2>3. request' = [request EXCEPT ![q] = x]
    BY <1>1, <1>4
  <2> HIDE DEF x
  <2> QED
    BY <1>2, <2>2, <2>3, Begins
<1> QED
  BY <1>3, <1>4

LEMMA CompleteJobSafe == ASSUME IInv, NEW q \in Requests, CompleteJob(q) PROVE IInv'
<1>1. PICK s \in Scans :
        request' = [request EXCEPT ![q] = [Idle EXCEPT !.pc = "review", !.via = "job", !.scan = s,
                                                        !.assets = {DomainAsset}]]
  BY DEF CompleteJob
<1>2. request[q].pc = "idle" /\ UNCHANGED <<assessments, findings, drifts, cases, faults>>
  BY DEF CompleteJob, At
<1> DEFINE ids == {DomainAsset}
           x == [Idle EXCEPT !.pc = "review", !.via = "job", !.scan = s, !.assets = ids]
<1>3. ids \subseteq Ids /\ request' = [request EXCEPT ![q] = x]
  BY <1>1, IdsHold
<1> HIDE DEF ids
<1>4. x \in RequestState /\ x.pc = "review" /\ x.via = "job" /\ x.scan = s /\ x.events = {} /\ x.case = 0
  BY <1>3, IdleType DEF RequestState, Idle, Pcs
<1> HIDE DEF x
<1> QED
  BY <1>2, <1>3, <1>4, Begins

-----------------------------------------------------------------------------
(* Requests go on.                                                         *)

LEMMA ReviewSafe == ASSUME IInv, NEW q \in Requests, Review(q) PROVE IInv'
<1>1. /\ request[q].pc = "review" /\ UNCHANGED <<assessments, findings, drifts, cases, faults>>
      /\ Goto(q, "save") /\ "save" \in Pcs \ {"idle", "drifts", "case"} /\ faults' \in 0 .. MaxFaults
  BY DEF Review, At, Pcs, IInv, Shape
<1>2. Went(q, "save") /\ SameLosses(q) /\ Holds(q) /\ Gathers(q) /\ Stores(q)
  BY <1>1, GotoRow, InProgress DEF IInv
<1>3. Before(q)' => request[q].events = {}
  BY <1>1, <1>2 DEF Before, Went, Holds
<1>4. Gathers(q)'
  BY <1>1, <1>2 DEF Gathers, FindingIds, Scan, Went
<1>5. Stores(q)'
  <2>1. Filed(q)' <=> Filed(q)
    BY <1>1, <1>2 DEF Filed, CaseAsset, Went
  <2> QED
    BY <1>1, <1>2, <2>1 DEF Stores, After, Went, SameLosses
<1> QED
  BY <1>1, <1>3, <1>4, <1>5, OnlyGoesOn

LEMMA DieSafe == ASSUME IInv, NEW q \in Requests, Die(q) PROVE IInv'
<1>1. /\ request[q].pc # "idle" /\ UNCHANGED <<assessments, findings, drifts, cases>>
      /\ Goto(q, "failed") /\ "failed" \in Pcs \ {"idle", "drifts", "case"}
  BY DEF Die, Pcs
<1>2. faults' \in 0 .. MaxFaults
  BY InfraAssumption DEF Die, IInv, Shape
<1>3. Went(q, "failed")
  BY <1>1, GotoRow DEF IInv
<1>4. ~Before(q)' /\ Gathers(q)' /\ Stores(q)'
  BY <1>3 DEF Before, Gathers, Stores, After, Went
<1> QED
  BY <1>1, <1>2, <1>4, OnlyGoesOn

LEMMA SaveAssessmentSafe == ASSUME IInv, NEW q \in Requests, SaveAssessment(q) PROVE IInv'
<1> DEFINE s == request[q].scan
           row == [via |-> request[q].via, findings |-> FindingIds(q), assets |-> request[q].assets]
           pc == IF request[q].via = "sync" THEN "answered" ELSE "findings"
<1>1. /\ request[q].pc = "save" /\ UNCHANGED <<assets, findings, drifts, cases, faults>> /\ Goto(q, pc)
      /\ assessments' = [assessments EXCEPT ![s] = row] /\ pc \in Pcs \ {"idle", "drifts", "case"}
  BY DEF SaveAssessment, At, Pcs
<1>2. /\ Holds(q) /\ Gathers(q) /\ Stores(q) /\ Shape /\ Went(q, pc) /\ SameLosses(q)
      /\ request[q] \in RequestState /\ s \in Scans /\ request[q].via \in {"sync", "job"}
      /\ FindingIds(q) \in SUBSET FindingRows
  BY <1>1, GotoRow, InProgress DEF IInv
<1>3. row \in AssessmentRow
  BY <1>2 DEF AssessmentRow, RequestState
<1>4. /\ assessments' \in [Scans -> AssessmentRow] /\ assessments'[s] = row
      /\ \A t \in Scans \ {s} : assessments'[t] = assessments[t]
  BY <1>1, <1>2, <1>3 DEF Shape
<1>5. row.via = "sync" => \A r \in Content[s].rules : <<"sync", s, r>> \in row.findings \cap findings
  BY <1>1, <1>2 DEF Gathers, FindingIds, Scan
<1> HIDE DEF row
<1>6. \A t \in Scans : CheckSafe(t)'
  BY <1>1, <1>4, <1>5 DEF IInv, CheckSafe
<1>7. /\ findings' \in SUBSET FindingRows /\ cases' \in Seq(CaseRow) /\ faults' \in 0 .. MaxFaults
      /\ (\A i \in 1 .. Len(cases') : CaseSafe(i)') /\ Grows
  BY <1>1, NothingGrows DEF IInv, Shape, CaseSafe
<1>8. Before(q)' => request[q].events = {}
  BY <1>1, <1>2 DEF Before, Went, Holds
<1>9. Gathers(q)'
  BY <1>2 DEF Gathers, Went
<1>10. Stores(q)'
  <2>1. Filed(q)' <=> Filed(q)
    BY <1>1, <1>2 DEF Filed, CaseAsset, Went
  <2> QED
    BY <1>1, <1>2, <2>1 DEF Stores, After, Went, SameLosses
<1>11. pc # "look" /\ request[q].pc # "idle"
  BY <1>1
<1> HIDE DEF pc
<1> QED
  BY <1>1, <1>4, <1>6, <1>7, <1>8, <1>9, <1>10, <1>11, GoesOn

LEMMA SaveFindingsSafe == ASSUME IInv, NEW q \in Requests, SaveFindings(q) PROVE IInv'
<1>1. /\ request[q].pc = "findings" /\ UNCHANGED <<assessments, drifts, cases, faults>>
      /\ Holds(q) /\ Shape /\ FindingIds(q) \in SUBSET FindingRows
  BY InProgress DEF SaveFindings, At, IInv
<1>2. findings \subseteq findings' /\ findings' \subseteq findings \cup FindingIds(q)
  BY DEF SaveFindings
<1>3. /\ findings' \in SUBSET FindingRows /\ Grows
      /\ assessments' \in [Scans -> AssessmentRow] /\ cases' \in Seq(CaseRow) /\ faults' \in 0 .. MaxFaults
      /\ \A i \in 1 .. Len(cases') : CaseSafe(i)'
  <2>1. Len(cases) <= Len(cases')
    BY <1>1 DEF Shape
  <2> QED
    BY <1>1, <1>2, <2>1 DEF IInv, Shape, Grows, CasesGrow, CaseSafe
<1>4. \A s \in Scans : CheckSafe(s)'
  BY <1>1, <1>2 DEF IInv, CheckSafe
<1>5. CASE UNCHANGED request
  BY <1>1, <1>3, <1>4, <1>5, TablesMove DEF Shape
<1>6. CASE findings' = findings \cup FindingIds(q) /\ Goto(q, "prior")
  <2>1. Went(q, "prior") /\ "prior" \in Pcs \ {"idle", "drifts", "case"}
    BY <1>1, <1>6, GotoRow DEF Pcs
  <2>2. request[q].events = {}
    BY <1>1 DEF Holds, Before
  <2>3. Gathers(q)'
    BY <1>6, <2>1 DEF Gathers, FindingIds, Scan, Went
  <2>4. Stores(q)'
    BY <2>1 DEF Stores, After, Went
  <2> QED
    BY <1>1, <1>3, <1>4, <1>6, <2>1, <2>2, <2>3, <2>4, GoesOn
<1> QED
  BY <1>5, <1>6 DEF SaveFindings

\* An event is of the request and of a kind a comparison finds.
LEMMA EventsOf ==
  ASSUME IInv, NEW q \in Requests, request[q].pc # "idle", NEW s \in Scans, NEW rules \in SUBSET Rules
  PROVE  {[by |-> q, change |-> c, asset |-> DriftAsset(q)] :
            c \in Compare(Content[s], Scan(q), rules, Scan(q).rules)} \in SUBSET Events
<1>1. request[q].scan \in Scans /\ request[q].assets \in SUBSET Ids
  BY InProgress DEF RequestState
<1>2. DriftAsset(q) \in Ids
  <2>1. CASE request[q].assets = {}
    BY <1>1, <2>1, IdsHold DEF DriftAsset
  <2>2. CASE request[q].assets # {}
    BY <1>1, <2>2 DEF DriftAsset, First
  <2> QED
    BY <2>1, <2>2
<1>3. Compare(Content[s], Scan(q), rules, Scan(q).rules) \subseteq Changes
  <2> DEFINE found(u, t, R) == Compare(Content[u], Content[t], R, Content[t].rules)
  <2>1. found(s, request[q].scan, rules) \in {found(u, t, R) : u, t \in Scans, R \in SUBSET Rules}
    BY <1>1
  <2> QED
    BY <2>1 DEF Changes, Scan
<1> QED
  BY <1>2, <1>3 DEF Events

\* A request that compared with nothing goes on with nothing to store.
LEMMA NotCompared ==
  ASSUME IInv, NEW q \in Requests, request[q].pc = "prior", NEW pc \in {Compared(q), "answered"},
         pc = "answered" => request[q].via = "job", Goto(q, pc),
         UNCHANGED <<assessments, findings, drifts, cases>>, faults' \in 0 .. MaxFaults
  PROVE  IInv'
<1>1. /\ Holds(q) /\ Gathers(q) /\ request[q].events = {} /\ request[q].via \in {"sync", "job"} /\ Shape
      /\ request[q].pc # "idle"
  BY InProgress DEF IInv, Holds, Before
<1>2. /\ pc \in Pcs \ {"idle", "drifts", "case"} /\ pc \in {"review", "answered"}
      /\ pc = "review" => request[q].via = "sync"
  BY <1>1 DEF Pcs, Compared
<1>3. Went(q, pc)
  BY <1>1, <1>2, GotoRow
<1>4. Gathers(q)'
  BY <1>1, <1>3 DEF Gathers, FindingIds, Scan, Went
<1>5. Stores(q)'
  BY <1>1, <1>3 DEF Stores, Went, Regressions
<1> QED
  BY <1>1, <1>2, <1>4, <1>5, OnlyGoesOn

LEMMA MissPriorSafe == ASSUME IInv, NEW q \in Requests, MissPrior(q) PROVE IInv'
<1>1. faults' \in 0 .. MaxFaults
  BY InfraAssumption DEF MissPrior, Fault, IInv, Shape
<1>2. request[q].pc = "prior" /\ request[q].via = "job" /\ Goto(q, "answered")
  BY DEF MissPrior, At
<1> QED
  BY <1>1, <1>2, NotCompared DEF MissPrior

\* A request compares with the check s, some of whose findings it cannot read.
LEMMA Compares ==
  ASSUME IInv, NEW q \in Requests, request[q].pc = "prior", NEW s \in Scans,
         NEW failing, failing = {id[3] : id \in assessments[s].findings \cap findings},
         NEW unread \in SUBSET failing, NEW events,
         events = {[by |-> q, change |-> c, asset |-> DriftAsset(q)] :
                     c \in Compare(Content[s], Scan(q), failing \ unread, Scan(q).rules)},
         request' = [request EXCEPT ![q].pc = "drifts", ![q].prior = s, ![q].priorVia = assessments[s].via,
                                    ![q].unread = unread, ![q].events = events],
         UNCHANGED <<assessments, findings, drifts, cases>>, faults' \in 0 .. MaxFaults
  PROVE  IInv'
<1> DEFINE rules == failing \ unread
           changes == Compare(Content[s], Scan(q), rules, Scan(q).rules)
           x == [request[q] EXCEPT !.pc = "drifts", !.prior = s, !.priorVia = assessments[s].via,
                                   !.unread = unread, !.events = events]
<1>1. /\ Shape /\ Holds(q) /\ Gathers(q) /\ request[q].events = {} /\ request[q].pc # "idle"
      /\ request[q] \in RequestState /\ request[q].via \in {"sync", "job"} /\ request[q].scan \in Scans
  BY InProgress DEF IInv, Holds, Before
<1>2. /\ assessments' \in [Scans -> AssessmentRow] /\ findings' \in SUBSET FindingRows
      /\ cases' \in Seq(CaseRow) /\ Grows
      /\ (\A t \in Scans : CheckSafe(t)') /\ \A i \in 1 .. Len(cases') : CaseSafe(i)'
  BY <1>1, NothingGrows DEF IInv, Shape, CheckSafe, CaseSafe
<1>3. assessments[s] \in AssessmentRow /\ assessments[s].via \in {"none", "sync", "job"}
  BY <1>1 DEF Shape, AssessmentRow
<1>4. failing \in SUBSET Rules /\ rules \in SUBSET Rules /\ unread \in SUBSET Rules
  <2>1. failing \in SUBSET Rules
    BY <1>1 DEF Shape, FindingRows
  <2> QED
    BY <2>1
<1>5. events \in SUBSET Events
  BY <1>1, <1>4, EventsOf
<1>6. \A d \in events : d.by = q /\ d.change \in changes
  OBVIOUS
<1>7. assessments[s].via = "sync" => Content[s].rules \subseteq failing
  <2> SUFFICES ASSUME assessments[s].via = "sync", NEW r \in Content[s].rules PROVE r \in failing
    OBVIOUS
  <2>1. <<"sync", s, r>> \in assessments[s].findings \cap findings /\ <<"sync", s, r>>[3] = r
    BY DEF IInv, CheckSafe
  <2> QED
    BY <2>1
<1>8. \A d \in events : d.change.kind \in {Introduced(r) : r \in DOMAIN Severity} => d.change.to \notin rules
  BY <1>6, AlarmIsNew
<1>9. request' = [request EXCEPT ![q] = x]
  BY <1>1 DEF Shape
<1>10. \A r : r \in failing /\ r \notin unread => r \in rules
  OBVIOUS
<1> HIDE DEF rules, changes
<1>11. /\ x \in RequestState /\ x.pc = "drifts" /\ x.prior = s /\ x.priorVia = assessments[s].via
       /\ x.events = events /\ x.via = request[q].via /\ x.scan = request[q].scan /\ x.case = request[q].case
       /\ x.unread = unread
  BY <1>1, <1>3, <1>4, <1>5 DEF RequestState, Pcs
<1> HIDE DEF x
<1>12. request'[q] = x
  BY <1>1, <1>9 DEF Shape
<1>13. Holds(q)'
  BY <1>1, <1>6, <1>11, <1>12 DEF Holds, Before
<1>14. Gathers(q)'
  BY <1>1, <1>11, <1>12 DEF Gathers, FindingIds, Scan
<1>15. Stores(q)'
  BY <1>11, <1>12 DEF Stores, After
<1>16. Alarms(q)'
  BY <1>7, <1>8, <1>10, <1>11, <1>12 DEF Alarms
<1>17. RequestSafe(q)'
  BY <1>13, <1>14, <1>15, <1>16 DEF RequestSafe
<1> QED
  BY <1>1, <1>2, <1>9, <1>11, <1>17, RequestMoves

LEMMA ComparePriorSafe == ASSUME IInv, NEW q \in Requests, ComparePrior(q) PROVE IInv'
<1>1. /\ request[q].pc = "prior" /\ UNCHANGED <<assessments, findings, drifts, cases>> /\ request[q].pc # "idle"
      /\ request[q].via \in {"sync", "job"}
  BY InProgress DEF ComparePrior, At
<1>2. faults' \in 0 .. MaxFaults
  <2>1. ASSUME NEW fails \in BOOLEAN, Fault(fails) PROVE faults' \in 0 .. MaxFaults
    BY <2>1, InfraAssumption DEF Fault, IInv, Shape
  <2>2. \E fails \in BOOLEAN : Fault(fails)
    BY Zenon DEF ComparePrior
  <2> QED
    BY <2>1, <2>2
<1>3. CASE Priors(q) = {}
  <2>1. Goto(q, Compared(q)) /\ (Compared(q) = "answered" => request[q].via = "job")
    BY <1>1, <1>3 DEF ComparePrior, Compared
  <2> QED
    BY <1>1, <1>2, <2>1, NotCompared
<1>4. CASE Priors(q) # {}
  <2>1. PICK s \in Newest(Priors(q)) :
          LET failing == {id[3] : id \in assessments[s].findings \cap findings}
          IN \E unread \in SUBSET failing :
              LET changes == Compare(Content[s], Scan(q), failing \ unread, Scan(q).rules)
              IN /\ unread # {} => request[q].via = "job"
                 /\ Fault(unread # {})
                 /\ request' = [request EXCEPT ![q].pc = "drifts", ![q].prior = s,
                      ![q].priorVia = assessments[s].via, ![q].unread = unread,
                      ![q].events = {[by |-> q, change |-> c, asset |-> DriftAsset(q)] : c \in changes}]
    BY <1>4 DEF ComparePrior
  <2> DEFINE failing == {id[3] : id \in assessments[s].findings \cap findings}
  <2>2. PICK unread \in SUBSET failing :
          request' = [request EXCEPT ![q].pc = "drifts", ![q].prior = s,
            ![q].priorVia = assessments[s].via, ![q].unread = unread,
            ![q].events = {[by |-> q, change |-> c, asset |-> DriftAsset(q)] :
                             c \in Compare(Content[s], Scan(q), failing \ unread, Scan(q).rules)}]
    BY <2>1
  <2>3. s \in Scans
    BY DEF Newest, Priors
  <2> DEFINE events == {[by |-> q, change |-> c, asset |-> DriftAsset(q)] :
                          c \in Compare(Content[s], Scan(q), failing \ unread, Scan(q).rules)}
  <2>4. request' = [request EXCEPT ![q].pc = "drifts", ![q].prior = s, ![q].priorVia = assessments[s].via,
                                   ![q].unread = unread, ![q].events = events]
    BY <2>2
  <2> QED
    BY <1>1, <1>2, <2>3, <2>4, Compares
<1> QED
  BY <1>3, <1>4

-----------------------------------------------------------------------------
(* What changed is stored, and what got worse is filed.                    *)

LEMMA SaveDriftsSafe == ASSUME IInv, NEW q \in Requests, SaveDrifts(q) PROVE IInv'
<1>1. /\ request[q].pc = "drifts" /\ UNCHANGED <<assessments, findings, cases>> /\ request[q].pc # "idle"
      /\ Shape /\ Holds(q) /\ Gathers(q) /\ request[q].via \in {"sync", "job"} /\ request[q] \in RequestState
  BY InProgress DEF SaveDrifts, At, IInv
<1>2. PICK lost \in SUBSET request[q].events :
        /\ drifts' = drifts \cup (request[q].events \ lost)
        /\ request' = [request EXCEPT ![q].pc = Stored(q), ![q].lost = lost]
  <2> DEFINE refused == {d \in request[q].events : ~Referable(d.asset)}
  <2>1. PICK failed \in SUBSET (request[q].events \ refused) :
          /\ drifts' = drifts \cup (request[q].events \ (refused \cup failed))
          /\ request' = [request EXCEPT ![q].pc = Stored(q), ![q].lost = refused \cup failed]
    BY DEF SaveDrifts
  <2>2. refused \cup failed \in SUBSET request[q].events
    OBVIOUS
  <2> QED
    BY <2>1, <2>2
<1> DEFINE pc == Stored(q)
           x == [request[q] EXCEPT !.pc = pc, !.lost = lost]
<1>3. /\ pc \in Pcs \ {"idle", "drifts", "case"} /\ pc \in {"look", "review", "answered"}
      /\ pc = "look" <=> Regressions(request[q].events) # {}
      /\ pc = "review" => request[q].via = "sync"
  BY DEF Stored, Compared, Pcs
<1>4. request' = [request EXCEPT ![q] = x]
  BY <1>1, <1>2 DEF Shape
<1> HIDE DEF pc
<1>5. /\ x \in RequestState /\ x.pc = pc /\ x.via = request[q].via /\ x.scan = request[q].scan
      /\ x.assets = request[q].assets /\ x.prior = request[q].prior /\ x.priorVia = request[q].priorVia
      /\ x.events = request[q].events /\ x.case = request[q].case /\ x.unread = request[q].unread
      /\ x.lost = lost
  BY <1>1, <1>2, <1>3 DEF RequestState
<1> HIDE DEF x
<1>6. request'[q] = x
  BY <1>1, <1>4 DEF Shape
<1>7. Went(q, pc)
  BY <1>5, <1>6 DEF Went
<1>8. /\ assessments' \in [Scans -> AssessmentRow] /\ findings' \in SUBSET FindingRows
      /\ cases' \in Seq(CaseRow)
      /\ (\A s \in Scans : CheckSafe(s)') /\ \A i \in 1 .. Len(cases') : CaseSafe(i)'
  BY <1>1 DEF IInv, Shape, CheckSafe, CaseSafe
<1>9. faults' \in 0 .. MaxFaults
  BY InfraAssumption DEF SaveDrifts, Fault, IInv, Shape
<1>10. Grows
  BY <1>1, <1>2 DEF Shape, Grows, CasesGrow
<1>11. ~Before(q)'
  BY <1>3, <1>7 DEF Before, Went
<1>12. Gathers(q)'
  BY <1>1, <1>3, <1>7 DEF Gathers, FindingIds, Scan, Went
<1>13. Stores(q)'
  <2>1. request'[q].events \ request'[q].lost \subseteq drifts'
    BY <1>2, <1>5, <1>6
  <2> QED
    BY <1>1, <1>3, <1>7, <2>1 DEF Stores, After, Went
<1>14. \A d \in drifts' : d \in drifts \/ d \in request[q].events
  BY <1>2
<1> QED
  BY <1>1, <1>3, <1>4, <1>5, <1>7, <1>8, <1>9, <1>10, <1>11, <1>12, <1>13, <1>14, MovesOn

LEMMA FindCaseSafe == ASSUME IInv, NEW q \in Requests, FindCase(q) PROVE IInv'
<1>1. /\ request[q].pc = "look" /\ UNCHANGED <<assessments, findings, drifts, cases>>
      /\ Shape /\ Holds(q) /\ Gathers(q) /\ Stores(q) /\ Alarms(q) /\ request[q] \in RequestState
  BY InProgress DEF FindCase, At, IInv
<1>2. PICK i \in Open(CaseAsset(q)) \cup {0} :
        request' = [request EXCEPT ![q].pc = "case", ![q].case = i,
                                   ![q].risk = IF i = 0 THEN "High" ELSE cases[i].risk]
  BY DEF FindCase
<1> DEFINE risk == IF i = 0 THEN "High" ELSE cases[i].risk
           x == [request[q] EXCEPT !.pc = "case", !.case = i, !.risk = risk]
<1>3. i \in Nat /\ i <= Len(cases) /\ (i # 0 => i \in 1 .. Len(cases) /\ cases[i].asset = CaseAsset(q))
  BY <1>1 DEF Open, Shape
<1>4. risk \in {"High", "Critical"}
  <2>1. i # 0 => cases[i] \in CaseRow
    BY <1>1, <1>3 DEF Shape
  <2> QED
    BY <2>1 DEF CaseRow
<1>5. request' = [request EXCEPT ![q] = x]
  BY <1>1, <1>2 DEF Shape
<1> HIDE DEF risk
<1>6. /\ x \in RequestState /\ x.pc = "case" /\ x.case = i /\ x.events = request[q].events
      /\ x.via = request[q].via /\ x.scan = request[q].scan /\ x.assets = request[q].assets
      /\ x.prior = request[q].prior /\ x.priorVia = request[q].priorVia
      /\ x.unread = request[q].unread /\ x.lost = request[q].lost /\ x.unfiled = request[q].unfiled
  BY <1>1, <1>3, <1>4 DEF RequestState, Pcs
<1> HIDE DEF x
<1>7. request'[q] = x
  BY <1>1, <1>5 DEF Shape
<1>8. Holds(q)'
  <2>1. CaseAsset(q)' = CaseAsset(q)
    BY <1>6, <1>7 DEF CaseAsset
  <2> QED
    BY <1>1, <1>3, <1>6, <1>7, <2>1 DEF Holds, Before
<1>9. Gathers(q)'
  BY <1>1, <1>6, <1>7 DEF Gathers, FindingIds, Scan
<1>10. Stores(q)' /\ Alarms(q)'
  BY <1>1, <1>6, <1>7 DEF Stores, After, Alarms
<1>11. RequestSafe(q)'
  BY <1>8, <1>9, <1>10 DEF RequestSafe
<1>12. /\ assessments' \in [Scans -> AssessmentRow] /\ findings' \in SUBSET FindingRows
       /\ cases' \in Seq(CaseRow) /\ Grows
       /\ (\A s \in Scans : CheckSafe(s)') /\ \A j \in 1 .. Len(cases') : CaseSafe(j)'
  BY <1>1, NothingGrows DEF IInv, Shape, CheckSafe, CaseSafe
<1>13. faults' \in 0 .. MaxFaults
  BY InfraAssumption DEF FindCase, Fault, IInv, Shape
<1> QED
  BY <1>1, <1>5, <1>6, <1>11, <1>12, <1>13, RequestMoves

\* The investigation as it is filed, and as it is after it was enriched.
LEMMA CaseType ==
  ASSUME IInv, NEW q \in Requests, request[q].pc = "case"
  PROVE  /\ Case(q) \in CaseRow /\ Case(q).asset = CaseAsset(q)
         /\ Case(q).drifts = Regressions(request[q].events)
<1> DEFINE worse == Regressions(request[q].events)
           rules == Scan(q).rules
           filed == IF request[q].case # 0 \/ Serious(rules) # {} THEN Serious(rules) ELSE rules
           risk == IF Critical(worse, rules) THEN "Critical" ELSE request[q].risk
           asset == CaseAsset(q)
<1>1. Case(q) = [asset |-> asset, status |-> "Open", drifts |-> worse, rules |-> filed, risk |-> risk]
  BY DEF Case
<1>2. request[q] \in RequestState /\ request[q].scan \in Scans
  BY InProgress
<1>3. asset \in Ids
  <2>1. CASE request[q].assets = {}
    BY <2>1, IdsHold DEF CaseAsset
  <2>2. CASE request[q].assets # {}
    BY <1>2, <2>2 DEF CaseAsset, First, RequestState
  <2> QED
    BY <2>1, <2>2
<1>4. worse \in SUBSET Events
  BY <1>2 DEF RequestState, Regressions
<1>5. filed \in SUBSET Rules
  BY <1>2 DEF Rules, Scan, Serious
<1>6. risk \in {"High", "Critical"}
  BY <1>2 DEF RequestState
<1> HIDE DEF worse, rules, filed, risk, asset
<1>7. Case(q) \in CaseRow /\ Case(q).asset = asset /\ Case(q).drifts = worse
  BY <1>1, <1>3, <1>4, <1>5, <1>6 DEF CaseRow
<1> QED
  BY <1>7 DEF asset, worse

LEMMA KeptRow ==
  ASSUME NEW old \in CaseRow, NEW new \in CaseRow
  PROVE  /\ Kept(old, new) \in CaseRow /\ Kept(old, new).asset = old.asset
         /\ Kept(old, new).drifts = old.drifts \cup new.drifts
BY DEF CaseRow, Kept

LEMMA SaveCaseSafe == ASSUME IInv, NEW q \in Requests, SaveCase(q) PROVE IInv'
<1> DEFINE i == request[q].case
           worse == Regressions(request[q].events)
<1>1. /\ request[q].pc = "case" /\ UNCHANGED <<assessments, findings, drifts>> /\ request[q].pc # "idle"
      /\ Shape /\ Holds(q) /\ Gathers(q) /\ Stores(q) /\ i \in Nat /\ request[q].via \in {"sync", "job"}
      /\ Case(q) \in CaseRow /\ Case(q).asset = CaseAsset(q) /\ Case(q).drifts = worse
      /\ cases \in Seq(CaseRow) /\ worse # {} /\ \A d \in worse : IsRegression(d.change)
      /\ \A j \in 1 .. Len(cases) : cases[j] \in CaseRow /\ CaseSafe(j)
  BY InProgress, CaseType DEF SaveCase, At, IInv, Shape, Holds, RequestState, Regressions
<1>2. /\ assessments' \in [Scans -> AssessmentRow] /\ findings' \in SUBSET FindingRows
      /\ \A s \in Scans : CheckSafe(s)'
  BY <1>1 DEF IInv, Shape, CheckSafe
<1>0. faults' \in 0 .. MaxFaults
  BY InfraAssumption DEF SaveCase, Fault, IInv, Shape
<1>3. ASSUME Goto(q, Compared(q)), cases' \in Seq(CaseRow), CasesGrow, \A j \in 1 .. Len(cases') : CaseSafe(j)',
             \E j \in 1 .. Len(cases') : cases'[j].asset = CaseAsset(q) /\ worse \subseteq cases'[j].drifts
      PROVE  IInv'
  <2> DEFINE pc == Compared(q)
  <2>1. /\ pc \in Pcs \ {"idle", "drifts", "case"} /\ pc # "look"
        /\ pc \in {"review", "answered"} /\ (pc = "review" => request[q].via = "sync")
    BY DEF Pcs, Compared
  <2> HIDE DEF pc
  <2>2. Goto(q, pc)
    BY <1>3 DEF pc
  <2>3. Went(q, pc) /\ SameLosses(q)
    BY <1>1, <2>1, <2>2, GotoRow
  <2>4. ~Before(q)'
    BY <2>1, <2>3 DEF Before, Went
  <2>5. Gathers(q)'
    BY <1>1, <2>3 DEF Gathers, FindingIds, Scan, Went
  <2>6. Stores(q)'
    <3>1. CaseAsset(q)' = CaseAsset(q)
      BY <2>3 DEF CaseAsset, Went
    <3>2. Filed(q)'
      BY <1>3, <2>3, <3>1 DEF Filed, Went
    <3> QED
      BY <1>1, <2>1, <2>3, <3>2 DEF Stores, After, Went, SameLosses
  <2>7. Grows
    BY <1>1, <1>3 DEF Grows
  <2> QED
    BY <1>0, <1>1, <1>2, <1>3, <2>1, <2>2, <2>4, <2>5, <2>6, <2>7, GoesOn
<1>4. ASSUME request' = [request EXCEPT ![q].unfiled = TRUE,
               ![q].pc = IF request[q].via = "sync" THEN "failed" ELSE "answered"], cases' = cases
      PROVE  IInv'
  <2> DEFINE pc == IF request[q].via = "sync" THEN "failed" ELSE "answered"
             x == [request[q] EXCEPT !.unfiled = TRUE, !.pc = pc]
  <2>1. request' = [request EXCEPT ![q] = x] /\ request[q] \in RequestState
    BY <1>1, <1>4 DEF Shape
  <2>2. pc \in Pcs \ {"idle", "drifts", "case"} /\ pc \in {"failed", "answered"}
    BY DEF Pcs
  <2> HIDE DEF pc
  <2>3. /\ x \in RequestState /\ x.pc = pc /\ x.via = request[q].via /\ x.scan = request[q].scan
        /\ x.assets = request[q].assets /\ x.prior = request[q].prior /\ x.priorVia = request[q].priorVia
        /\ x.events = request[q].events /\ x.case = request[q].case /\ x.unread = request[q].unread
        /\ x.lost = request[q].lost /\ x.unfiled = TRUE
    BY <2>1, <2>2 DEF RequestState
  <2> HIDE DEF x
  <2>4. request'[q] = x
    BY <1>1, <2>1 DEF Shape
  <2>5. Went(q, pc) /\ request'[q].lost = request[q].lost /\ request'[q].unfiled = TRUE
    BY <2>3, <2>4 DEF Went
  <2>6. ~Before(q)'
    BY <2>2, <2>5 DEF Before, Went
  <2>7. Gathers(q)'
    BY <1>1, <2>5 DEF Gathers, FindingIds, Scan, Went
  <2>8. Stores(q)'
    BY <1>1, <2>5 DEF Stores, After, Went
  <2>9. /\ Grows /\ cases' \in Seq(CaseRow) /\ \A j \in 1 .. Len(cases') : CaseSafe(j)'
    BY <1>1, <1>4, NothingGrows DEF CaseSafe
  <2> QED
    BY <1>0, <1>1, <1>2, <2>1, <2>2, <2>3, <2>5, <2>6, <2>7, <2>8, <2>9, MovesOn
<1>5. CASE /\ Referable(CaseAsset(q)) /\ i = 0 /\ cases' = Append(cases, Case(q)) /\ Goto(q, Compared(q))
  <2>1. /\ cases' \in Seq(CaseRow) /\ Len(cases') = Len(cases) + 1 /\ cases'[Len(cases) + 1] = Case(q)
        /\ \A j \in 1 .. Len(cases) : cases'[j] = cases[j]
    BY <1>1, <1>5, AppendProperties
  <2>2. CasesGrow /\ \A j \in 1 .. Len(cases') : CaseSafe(j)'
    BY <1>1, <2>1 DEF CasesGrow, CaseSafe
  <2>3. \E j \in 1 .. Len(cases') : cases'[j].asset = CaseAsset(q) /\ worse \subseteq cases'[j].drifts
    BY <1>1, <2>1
  <2> QED
    BY <1>3, <1>5, <2>1, <2>2, <2>3
<1>6. CASE /\ Referable(CaseAsset(q)) /\ i # 0 /\ cases' = [cases EXCEPT ![i] = Kept(@, Case(q))]
           /\ Goto(q, Compared(q))
  <2>1. i \in 1 .. Len(cases) /\ cases[i].asset = CaseAsset(q)
    BY <1>1, <1>6 DEF Holds
  <2> DEFINE row == Kept(cases[i], Case(q))
  <2>2. /\ row \in CaseRow /\ row.asset = cases[i].asset /\ row.drifts = cases[i].drifts \cup worse
    BY <1>1, <2>1, KeptRow
  <2>3. cases' = [cases EXCEPT ![i] = row]
    BY <1>6
  <2> HIDE DEF row
  <2>4. /\ cases' \in Seq(CaseRow) /\ Len(cases') = Len(cases) /\ cases'[i] = row
        /\ \A j \in 1 .. Len(cases) : j # i => cases'[j] = cases[j]
    BY <1>1, <2>1, <2>2, <2>3, ExceptSeq
  <2>5. CasesGrow
    BY <1>1, <2>1, <2>2, <2>4 DEF CasesGrow
  <2>6. \A j \in 1 .. Len(cases') : CaseSafe(j)'
    BY <1>1, <2>1, <2>2, <2>4 DEF CaseSafe
  <2>7. \E j \in 1 .. Len(cases') : cases'[j].asset = CaseAsset(q) /\ worse \subseteq cases'[j].drifts
    BY <1>1, <2>1, <2>2, <2>4
  <2> QED
    BY <1>3, <1>6, <2>4, <2>5, <2>6, <2>7
<1> QED
  BY <1>4, <1>5, <1>6 DEF SaveCase

LEMMA UpdateStatusSafe == ASSUME IInv, NEW i \in 1 .. Len(cases), UpdateStatus(i) PROVE IInv'
<1>1. PICK status \in {"Open", "Resolved"} : cases' = [cases EXCEPT ![i].status = status]
  BY DEF UpdateStatus
<1>2. /\ UNCHANGED <<assessments, findings, drifts, request, faults>> /\ Shape
      /\ cases \in Seq(CaseRow) /\ cases[i] \in CaseRow /\ \A j \in 1 .. Len(cases) : CaseSafe(j)
  BY DEF UpdateStatus, IInv, Shape
<1> DEFINE row == [cases[i] EXCEPT !.status = status]
<1>3. row \in CaseRow /\ row.asset = cases[i].asset /\ row.drifts = cases[i].drifts
  BY <1>2 DEF CaseRow
<1>4. cases' = [cases EXCEPT ![i] = row]
  BY <1>1
<1> HIDE DEF row
<1>5. /\ cases' \in Seq(CaseRow) /\ Len(cases') = Len(cases) /\ cases'[i] = row
      /\ \A j \in 1 .. Len(cases) : j # i => cases'[j] = cases[j]
  BY <1>2, <1>3, <1>4, ExceptSeq
<1>6. Grows
  BY <1>2, <1>3, <1>5 DEF Grows, CasesGrow
<1>7. \A j \in 1 .. Len(cases') : CaseSafe(j)'
  BY <1>2, <1>3, <1>5 DEF CaseSafe
<1>8. Shape' /\ \A s \in Scans : CheckSafe(s)'
  BY <1>2, <1>5 DEF IInv, Shape, CheckSafe
<1> QED
  BY <1>2, <1>6, <1>7, <1>8, TablesMove

-----------------------------------------------------------------------------
(* The invariant.                                                          *)

LEMMA InitInv == Init => IInv
<1> SUFFICES ASSUME Init PROVE IInv
  OBVIOUS
<1> USE DEF Init
<1>1. None \in AssessmentRow /\ None.via = "none"
  BY DEF None, AssessmentRow
<1>2. Shape
  BY <1>1, IdleType, InfraAssumption DEF Shape
<1>3. \A s \in Scans : CheckSafe(s)
  BY <1>1 DEF CheckSafe
<1>4. ASSUME NEW q \in Requests PROVE RequestSafe(q)
  <2>1. request[q].pc = "idle" /\ request[q].events = {} /\ request[q].case = 0
    BY DEF Idle
  <2> QED
    BY <2>1 DEF RequestSafe, Holds, Gathers, Stores, Alarms, Before, After
<1>5. (\A i \in 1 .. Len(cases) : CaseSafe(i)) /\ \A d \in drifts : d.by \in Requests /\ d \in request[d.by].events
  OBVIOUS
<1> QED
  BY <1>2, <1>3, <1>4, <1>5 DEF IInv

LEMMA NextInv == IInv /\ [Next]_vars => IInv'
<1> SUFFICES ASSUME IInv, [Next]_vars PROVE IInv'
  OBVIOUS
<1>1. ASSUME NEW q \in Requests,
             \/ SyncAssessment(q) \/ CompleteJob(q) \/ Review(q) \/ SaveAssessment(q) \/ SaveFindings(q)
             \/ ComparePrior(q) \/ MissPrior(q) \/ SaveDrifts(q) \/ FindCase(q) \/ SaveCase(q) \/ Die(q)
      PROVE  IInv'
  BY <1>1, SyncAssessmentSafe, CompleteJobSafe, ReviewSafe, SaveAssessmentSafe, SaveFindingsSafe,
     ComparePriorSafe, MissPriorSafe, SaveDriftsSafe, FindCaseSafe, SaveCaseSafe, DieSafe
<1>2. ASSUME NEW i \in 1 .. Len(cases), UpdateStatus(i) PROVE IInv'
  BY <1>2, UpdateStatusSafe
<1>3. CASE UNCHANGED vars
  <2>1. Shape' /\ (\A s \in Scans : CheckSafe(s)') /\ \A i \in 1 .. Len(cases') : CaseSafe(i)'
    BY <1>3 DEF vars, IInv, Shape, CheckSafe, CaseSafe
  <2> QED
    BY <1>3, <2>1, NothingGrows, TablesMove DEF vars
<1> QED
  BY <1>1, <1>2, <1>3 DEF Next

LEMMA IInvAlways == Spec => []IInv
BY InitInv, NextInv, PTL DEF Spec

(* Checks, findings, events and investigations are of checks and requests  *)
(* that exist, and an investigation holds only what got worse.             *)
THEOREM TypeCorrect == Spec => []TypeOK
<1>1. ASSUME IInv PROVE TypeOK
  <2> USE <1>1
  <2>1. \A s \in Scans : assessments[s].via \in {"none", "sync", "job"}
    BY DEF IInv, Shape, AssessmentRow
  <2>2. \A id \in findings : id[1] \in {"sync", "job"} /\ id[3] \in Content[id[2]].rules
    BY DEF IInv, Shape, FindingRows
  <2>3. ASSUME NEW i \in 1 .. Len(cases)
        PROVE  /\ cases[i].drifts # {} /\ cases[i].risk \in {"High", "Critical"}
               /\ cases[i].status \in {"Open", "Resolved"} /\ cases[i].drifts \subseteq Regressions(cases[i].drifts)
    <3>1. cases[i] \in CaseRow /\ CaseSafe(i)
      BY DEF IInv, Shape
    <3> QED
      BY <3>1 DEF CaseRow, CaseSafe, Regressions
  <2>4. \A q \in Requests : request[q].pc \in Pcs /\ request[q].case \in 0 .. Len(cases)
    BY DEF IInv, Shape, RequestState, RequestSafe, Holds
  <2> QED
    BY <2>1, <2>2, <2>3, <2>4 DEF TypeOK, IInv, Shape
<1> QED
  BY <1>1, IInvAlways, PTL

(* On either store, with foreign keys or without: every change between two *)
(* checks that an answered request found is history, but for the events    *)
(* whose own call the store failed, however many requests of the domain    *)
(* run at once and die and whatever else fails.                            *)
THEOREM DriftsKept == Spec => []DriftsStored
<1>1. IInv => DriftsStored
  BY DEF IInv, RequestSafe, Stores, After, DriftsStored, At
<1> QED
  BY <1>1, IInvAlways, PTL

(* On either store: everything that got worse is together in one           *)
(* investigation of the domain once the request was answered, unless the   *)
(* call that files it failed, whoever else enriches, opens or resolves     *)
(* investigations meanwhile and whether or not they could be read.         *)
THEOREM RegressionsFiled == Spec => []RegressionFiled
<1>1. IInv => RegressionFiled
  BY DEF IInv, RequestSafe, Stores, After, Filed, RegressionFiled, At
<1> QED
  BY <1>1, IInvAlways, PTL

(* On either store: a rule reported as newly failing did not fail in the   *)
(* check compared with, if that one was synchronised, because it was       *)
(* stored after its last finding, unless that finding could not be read.   *)
THEOREM AlarmsTrue == Spec => []NoFalseAlarm
<1>1. IInv => NoFalseAlarm
  BY DEF IInv, RequestSafe, Alarms, NoFalseAlarm
<1> QED
  BY <1>1, IInvAlways, PTL
=============================================================================
