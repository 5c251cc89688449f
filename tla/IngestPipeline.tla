--------------------------- MODULE IngestPipeline ---------------------------
(***************************************************************************)
(* process_observation: Core stores an observation, finds or discovers the *)
(* asset it is about, reports what changed, saves the asset, links the     *)
(* finding to it and updates the asset's investigation.  Every storage     *)
(* call is a step; requests run concurrently, clients repeat them, and a   *)
(* request may end between any two calls (a storage error or a disconnect).*)
(*                                                                         *)
(* An observation has one address, the names of its certificate, and the   *)
(* facts an asset collects: TLS versions, cipher suites and certificate    *)
(* fingerprints; one fact stands for all the events raised with it.  (End- *)
(* point rows, which are only ever added, are left out.)  A session that   *)
(* negotiates no forward secrecy with an asset that has shown it is        *)
(* reported too, and that is no fact of the asset.  An observation that    *)
(* violates a policy rule yields a finding, whose id follows from the      *)
(* observation; several findings are handled one after the other like this *)
(* one.  What is derived from the asset afterwards (certificate, baseline, *)
(* anomalies, posture, training) is left out.                              *)
(***************************************************************************)
EXTENDS Integers, FiniteSets

CONSTANTS
  Handlers,        \* requests served at once
  Observations,    \* ids of observations
  Assets,          \* ids of assets
  Addresses, Names, Facts, Rules,
  AddressOf, NamesOf, FactsOf,   \* what an observation holds
  RuleOf,          \* the policy rule it violates, or NoRule
  Weak,            \* observations that negotiated no forward secrecy
  Forward,         \* facts that show it: the DHE and ECDHE cipher suites
  ForwardSecrecyLost,  \* the report of its loss
  NoAsset, NoObservation, NoRule,
  MaxRequests,     \* bound: requests sent, repetitions included
  MaxFaults        \* bound: requests that end early

ASSUME IngestAssumption ==
  /\ AddressOf \in [Observations -> Addresses]
  /\ NamesOf \in [Observations -> SUBSET Names]
  /\ FactsOf \in [Observations -> SUBSET Facts]
  /\ RuleOf \in [Observations -> Rules \cup {NoRule}]
  /\ Weak \subseteq Observations /\ Forward \subseteq Facts
  /\ ForwardSecrecyLost \notin Facts
  /\ NoAsset \notin Assets
  /\ NoObservation \notin Observations
  /\ NoRule \notin Rules
  /\ MaxRequests \in Nat /\ MaxFaults \in Nat

VARIABLES
  stored,          \* observations and sessions saved
  assets,          \* the assets table; a row without address is absent
  drift,           \* how many drift events report a change of an asset
  findings,        \* findings saved, by observation
  owner,           \* the asset a finding is linked to
  investigations,  \* the rules and changes in the investigation of an asset
  handlers,
  discovered,      \* history: the facts an asset was discovered with
  answered,        \* history: observations acknowledged to a client
  refused,         \* history: observations answered with a conflict
  overlapped,      \* history: whether two requests were ever served at once
  requests, faults

vars == <<stored, assets, drift, findings, owner, investigations, handlers,
          discovered, answered, refused, overlapped, requests, faults>>

Row == [addresses: SUBSET Addresses, names: SUBSET Names, facts: SUBSET Facts]
\* What a drift event reports.
Reports == Facts \cup {ForwardSecrecyLost}

AbsentRow == [addresses |-> {}, names |-> {}, facts |-> {}]

HandlerState ==
  [pc: {"free", "save", "address", "name", "drift", "asset", "finding", "link", "review"},
   observation: Observations \cup {NoObservation},
   names: SUBSET Names,             \* still to be looked up
   asset: Assets \cup {NoAsset},
   row: Row,                        \* the asset as it will be saved
   changes: SUBSET Reports,         \* the drift found
   unsaved: SUBSET Reports]         \* drift events still to be saved

Free == [pc |-> "free", observation |-> NoObservation, names |-> {}, asset |-> NoAsset,
         row |-> AbsentRow, changes |-> {}, unsaved |-> {}]

Init ==
  /\ stored = {}
  /\ assets = [a \in Assets |-> AbsentRow]
  /\ drift = [a \in Assets |-> [f \in Reports |-> 0]]
  /\ findings = {}
  /\ owner = [o \in Observations |-> NoAsset]
  /\ investigations = [a \in Assets |-> [rules |-> {}, changes |-> {}]]
  /\ handlers = [h \in Handlers |-> Free]
  /\ discovered = [a \in Assets |-> {}]
  /\ answered = {} /\ refused = {}
  /\ overlapped = FALSE
  /\ requests = 0 /\ faults = 0

At(h, pc)        == handlers[h].pc = pc
Become(h, state) == handlers' = [handlers EXCEPT ![h] = state]
Goto(h, pc)      == Become(h, [handlers[h] EXCEPT !.pc = pc])
Seen(h)          == handlers[h].observation

Flagged          == {o \in Observations : RuleOf[o] # NoRule}

tables    == <<assets, drift, findings, owner, investigations>>
histories == <<discovered, answered, refused, overlapped, requests, faults>>

-----------------------------------------------------------------------------
(* Receiving and storing.                                                  *)

Receive(h, o) ==
  /\ At(h, "free")
  /\ requests < MaxRequests
  /\ requests' = requests + 1
  /\ overlapped' = (overlapped \/ \E k \in Handlers : ~At(k, "free"))
  /\ Become(h, [Free EXCEPT !.pc = "save", !.observation = o])
  /\ UNCHANGED <<stored, tables, discovered, answered, refused, faults>>

\* A row that is already there is left as it is.
SaveObservation(h) ==
  /\ At(h, "save")
  /\ stored' = stored \cup {Seen(h)}
  /\ Become(h, [handlers[h] EXCEPT !.pc = "address", !.names = NamesOf[Seen(h)]])
  /\ UNCHANGED <<tables, histories>>

-----------------------------------------------------------------------------
(* The asset: found by address, else by a name, else discovered.           *)

Exists(a) == assets[a].addresses # {}

\* Mutant of WithAddress: an asset with further addresses is not found.
WithOnlyAddress(x) == {a \in Assets : assets[a].addresses = {x}}
WithAddress(x)     == {a \in Assets : x \in assets[a].addresses}
WithName(n)        == {a \in Assets : n \in assets[a].names}

\* Reported of every such session, a session seen before included.
Losses(o, row) == IF o \in Weak /\ (row.facts \cup FactsOf[o]) \cap Forward # {}
                  THEN {ForwardSecrecyLost}
                  ELSE {}

\* Mutant of Changes: the first facts of an asset are not reported.
ChangesAfterFirst(o, row) ==
  (IF row.facts = {} THEN {} ELSE FactsOf[o] \ row.facts) \cup Losses(o, row)
Changes(o, row) == (FactsOf[o] \ row.facts) \cup Losses(o, row)

\* Mutant of Merged: the facts are reported but not kept.
MergedWithoutFacts(o, row) ==
  [row EXCEPT !.addresses = @ \cup {AddressOf[o]}, !.names = @ \cup NamesOf[o]]
Merged(o, row) ==
  [addresses |-> row.addresses \cup {AddressOf[o]},
   names     |-> row.names \cup NamesOf[o],
   facts     |-> row.facts \cup FactsOf[o]]

\* Drift is computed against the row as it was read.
Found(h, a) ==
  LET o == Seen(h)  new == Changes(o, assets[a]) IN
  Become(h, [handlers[h] EXCEPT
    !.pc = IF new = {} THEN "asset" ELSE "drift",
    !.asset = a, !.row = Merged(o, assets[a]), !.changes = new, !.unsaved = new])

FindByAddress(h) ==
  LET matches == WithAddress(AddressOf[Seen(h)]) IN
  /\ At(h, "address")
  /\ IF matches = {} THEN Goto(h, "name") ELSE \E a \in matches : Found(h, a)
  /\ UNCHANGED <<stored, tables, histories>>

FindByName(h, n) ==
  /\ At(h, "name")
  /\ n \in handlers[h].names
  /\ IF WithName(n) = {}
     THEN Become(h, [handlers[h] EXCEPT !.names = @ \ {n}])
     ELSE \E a \in WithName(n) : Found(h, a)
  /\ UNCHANGED <<stored, tables, histories>>

\* A new id is nobody else's.
NewAssets == {a \in Assets : ~Exists(a) /\ \A k \in Handlers : handlers[k].asset # a}

\* Mutant of NewRow: the address the asset was seen at is not recorded.
NewRowUnaddressed(o) == [addresses |-> {}, names |-> NamesOf[o], facts |-> FactsOf[o]]
NewRow(o) == [addresses |-> {AddressOf[o]}, names |-> NamesOf[o], facts |-> FactsOf[o]]

Discover(h, a) ==
  LET o == Seen(h) IN
  /\ At(h, "name")
  /\ handlers[h].names = {}
  /\ a \in NewAssets
  /\ discovered' = [discovered EXCEPT ![a] = FactsOf[o]]
  /\ Become(h, [handlers[h] EXCEPT !.pc = "asset", !.asset = a, !.row = NewRow(o)])
  /\ UNCHANGED <<stored, tables, answered, refused, overlapped, requests, faults>>

-----------------------------------------------------------------------------
(* Drift events, then the asset, then its finding.                         *)

SaveDrift(h, f) ==
  /\ At(h, "drift")
  /\ f \in handlers[h].unsaved
  /\ drift' = [drift EXCEPT ![handlers[h].asset][f] = @ + 1]
  /\ Become(h, [handlers[h] EXCEPT
       !.pc = IF handlers[h].unsaved = {f} THEN "asset" ELSE "drift",
       !.unsaved = @ \ {f}])
  /\ UNCHANGED <<stored, assets, findings, owner, investigations, histories>>

\* The whole row is replaced by the handler's copy.
SaveAsset(h) ==
  /\ At(h, "asset")
  /\ assets' = [assets EXCEPT ![handlers[h].asset] = handlers[h].row]
  /\ Goto(h, IF Seen(h) \in Flagged THEN "finding" ELSE "review")
  /\ UNCHANGED <<stored, drift, findings, owner, investigations, histories>>

SaveFinding(h) ==
  /\ At(h, "finding")
  /\ findings' = findings \cup {Seen(h)}
  /\ Goto(h, "link")
  /\ UNCHANGED <<stored, assets, drift, owner, investigations, histories>>

MayLink(o, a)     == owner[o] \in {NoAsset, a}

LinkAsset(h) ==
  LET o == Seen(h)  a == handlers[h].asset IN
  /\ At(h, "link")
  /\ IF MayLink(o, a)
     THEN /\ owner' = [owner EXCEPT ![o] = a]
          /\ Goto(h, "review")
          /\ UNCHANGED refused
     ELSE /\ refused' = refused \cup {o}
          /\ Become(h, Free)
          /\ UNCHANGED owner
  /\ UNCHANGED <<stored, assets, drift, findings, investigations,
                 discovered, answered, overlapped, requests, faults>>

-----------------------------------------------------------------------------
(* The investigation of the asset, and the answer.                         *)

\* Mutant of Reviewed: the investigation is replaced.
ReviewedAnew(old, new) == new
Reviewed(old, new) == [rules   |-> old.rules \cup new.rules,
                       changes |-> old.changes \cup new.changes]

\* The investigation's id follows from the asset; saving it merges.
Review(h) ==
  LET new == [rules |-> {RuleOf[Seen(h)]} \cap Rules, changes |-> handlers[h].changes] IN
  /\ At(h, "review")
  /\ investigations' = IF new.rules \cup new.changes = {}
                       THEN investigations
                       ELSE [investigations EXCEPT ![handlers[h].asset] = Reviewed(@, new)]
  /\ answered' = answered \cup {Seen(h)}
  /\ Become(h, Free)
  /\ UNCHANGED <<stored, assets, drift, findings, owner,
                 discovered, refused, overlapped, requests, faults>>

\* A storage call fails, or the client or the server goes away.
Abort(h) ==
  /\ ~At(h, "free")
  /\ faults < MaxFaults
  /\ faults' = faults + 1
  /\ Become(h, Free)
  /\ UNCHANGED <<stored, tables, discovered, answered, refused, overlapped, requests>>

HandlerStep(h) ==
  \/ SaveObservation(h)
  \/ FindByAddress(h)
  \/ \E n \in Names : FindByName(h, n)
  \/ \E a \in Assets : Discover(h, a)
  \/ \E f \in Reports : SaveDrift(h, f)
  \/ SaveAsset(h)
  \/ SaveFinding(h)
  \/ LinkAsset(h)
  \/ Review(h)

Next ==
  \E h \in Handlers : HandlerStep(h) \/ Abort(h) \/ \E o \in Observations : Receive(h, o)

Spec == Init /\ [][Next]_vars

-----------------------------------------------------------------------------
(* Tables and handlers keep their shape, and a handler about to save an    *)
(* asset has an address for it.                                            *)
TypeOK ==
  /\ stored \subseteq Observations
  /\ assets \in [Assets -> Row]
  /\ drift \in [Assets -> [Reports -> Nat]]
  /\ findings \subseteq Observations
  /\ owner \in [Observations -> Assets \cup {NoAsset}]
  /\ investigations \in [Assets -> [rules: SUBSET Rules, changes: SUBSET Reports]]
  /\ handlers \in [Handlers -> HandlerState]
  /\ \A h \in Handlers :
       handlers[h].pc \in {"drift", "asset"} => handlers[h].row.addresses # {}
  /\ discovered \in [Assets -> SUBSET Facts]
  /\ answered \subseteq Observations /\ refused \subseteq Observations
  /\ overlapped \in BOOLEAN
  /\ requests \in Nat /\ faults \in Nat

(* An asset never changes silently: what it shows beyond the facts it was  *)
(* discovered with was reported as drift, although rows are overwritten by *)
(* concurrent requests and requests end between any two calls.             *)
NoSilentChange ==
  \A a \in Assets :
    assets[a].facts \subseteq discovered[a] \cup {f \in Facts : drift[a][f] > 0}

(* An acknowledged violation is in the investigation of the asset its      *)
(* finding is linked to, and that asset is stored.                         *)
AnsweredIsReviewed ==
  \A o \in answered \cap Flagged :
    /\ owner[o] \in Assets
    /\ Exists(owner[o])
    /\ RuleOf[o] \in investigations[owner[o]].rules

(* Replays that do not overlap keep what docs/persistence.md:110 promises, *)
(* even after requests that ended halfway: no address has two assets, and  *)
(* none is refused, as a finding linked to its asset finds that one again, *)
(* however many names joined meanwhile.                                    *)
ReplaysFindTheAsset ==
  ~overlapped =>
    /\ \A a, b \in Assets : a # b => assets[a].addresses \cap assets[b].addresses = {}
    /\ refused = {}

(* Replays that do not overlap and are not cut short report a new version, *)
(* cipher suite or certificate of an asset once.  (The loss of forward     *)
(* secrecy is reported again on every delivery: no fact of the asset keeps *)
(* that it was.)                                                           *)
ChangesReportedOnce ==
  ~overlapped /\ faults = 0 => \A a \in Assets, f \in Facts : drift[a][f] <= 1

(* What was acknowledged stays known: one asset keeps its address, names   *)
(* and facts, as long as requests do not overlap.                          *)
AnsweredIsKnown ==
  ~overlapped =>
    \A o \in answered : \E a \in WithAddress(AddressOf[o]) :
      NamesOf[o] \subseteq assets[a].names /\ FactsOf[o] \subseteq assets[a].facts
=============================================================================
