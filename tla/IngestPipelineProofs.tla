------------------------ MODULE IngestPipelineProofs ------------------------
(***************************************************************************)
(* Proofs about IngestPipeline for any observations, assets and requests.  *)
(***************************************************************************)
EXTENDS IngestPipeline, TLAPS

(* A request under way has its observation, and past the lookup its asset. *)
Busy(h) ==
  /\ handlers[h].pc # "free" => Seen(h) \in Observations
  /\ handlers[h].pc \in {"drift", "asset", "finding", "link", "review"}
       => handlers[h].asset \in Assets

TypeInv == TypeOK /\ \A h \in Handlers : Busy(h)

LEMMA AbsentRowType == AbsentRow \in Row
BY DEF AbsentRow, Row

LEMMA FreeType == Free \in HandlerState
BY AbsentRowType DEF Free, HandlerState

(* What a handler may become. *)
GoodHandler(x) ==
  /\ x \in HandlerState
  /\ x.pc # "free" => x.observation \in Observations
  /\ x.pc \in {"drift", "asset", "finding", "link", "review"} => x.asset \in Assets
  /\ x.pc \in {"drift", "asset"} => x.row.addresses # {}

LEMMA FreeGood == GoodHandler(Free)
BY FreeType DEF GoodHandler, Free

LEMMA BecomeGood ==
  ASSUME TypeInv, NEW h \in Handlers, NEW x, GoodHandler(x), Become(h, x)
  PROVE  /\ handlers' \in [Handlers -> HandlerState]
         /\ \A k \in Handlers :
              handlers'[k].pc \in {"drift", "asset"} => handlers'[k].row.addresses # {}
         /\ \A k \in Handlers : Busy(k)'
<1>1. handlers' \in [Handlers -> HandlerState]
  BY DEF TypeInv, TypeOK, Become, GoodHandler
<1>2. ASSUME NEW k \in Handlers
      PROVE  GoodHandler(handlers'[k])
  BY <1>1 DEF TypeInv, TypeOK, Busy, Seen, Become, GoodHandler
<1> QED
  BY <1>1, <1>2 DEF GoodHandler, Busy, Seen

LEMMA MergedType ==
  ASSUME TypeOK, NEW a \in Assets, NEW o \in Observations
  PROVE  Merged(o, assets[a]) \in Row /\ Merged(o, assets[a]).addresses # {}
<1>1. assets[a] \in Row /\ AddressOf[o] \in Addresses /\ NamesOf[o] \in SUBSET Names
        /\ FactsOf[o] \in SUBSET Facts
  BY IngestAssumption DEF TypeOK
<1> QED
  BY <1>1 DEF Merged, Row

LEMMA FoundGood ==
  ASSUME TypeInv, NEW h \in Handlers, NEW a \in Assets, ~At(h, "free"), Found(h, a)
  PROVE  \E x : GoodHandler(x) /\ Become(h, x)
<1> DEFINE o == Seen(h)
           new == Changes(o, assets[a])
           x == [handlers[h] EXCEPT
                  !.pc = IF new = {} THEN "asset" ELSE "drift",
                  !.asset = a, !.row = Merged(o, assets[a]), !.changes = new, !.unsaved = new]
<1>1. o \in Observations /\ handlers[h] \in HandlerState
  BY DEF TypeInv, TypeOK, Busy, At
<1>2. new \in SUBSET Reports
  BY <1>1, IngestAssumption DEF Changes, Losses, Reports
<1>3. Merged(o, assets[a]) \in Row /\ Merged(o, assets[a]).addresses # {}
  BY <1>1, MergedType DEF TypeInv
<1>4. Become(h, x)
  BY DEF Found
<1> HIDE DEF new
<1>5. GoodHandler(x)
  BY <1>1, <1>2, <1>3 DEF GoodHandler, HandlerState, Seen
<1> QED
  BY <1>4, <1>5

LEMMA NewRowType ==
  ASSUME NEW o \in Observations
  PROVE  NewRow(o) \in Row /\ NewRow(o).addresses # {}
BY IngestAssumption DEF NewRow, Row

LEMMA ReviewedType ==
  ASSUME NEW x \in [rules: SUBSET Rules, changes: SUBSET Reports],
         NEW y \in [rules: SUBSET Rules, changes: SUBSET Reports]
  PROVE  Reviewed(x, y) \in [rules: SUBSET Rules, changes: SUBSET Reports]
BY DEF Reviewed

LEMMA TypeInvInit == Init => TypeInv
<1> SUFFICES ASSUME Init PROVE TypeInv
  OBVIOUS
<1>1. handlers = [h \in Handlers |-> Free]
  BY DEF Init
<1>2. \A h \in Handlers : handlers[h] = Free /\ GoodHandler(handlers[h])
  BY <1>1, FreeGood
<1>3. handlers \in [Handlers -> HandlerState]
  BY <1>1, FreeType
<1>4. \A h \in Handlers : Busy(h)
  BY <1>2 DEF GoodHandler, Busy, Seen
<1>5. assets \in [Assets -> Row]
  BY AbsentRowType DEF Init
<1> QED
  BY <1>2, <1>3, <1>4, <1>5 DEF Init, TypeInv, TypeOK, GoodHandler

(* The type invariant is inductive. *)
LEMMA TypeInvStep == TypeInv /\ [Next]_vars => TypeInv'
<1> SUFFICES ASSUME TypeInv, [Next]_vars PROVE TypeInv'
  OBVIOUS
<1> USE DEF tables, histories
<1>1. ASSUME NEW h \in Handlers, NEW o \in Observations, Receive(h, o)
      PROVE  TypeInv'
  <2> DEFINE x == [Free EXCEPT !.pc = "save", !.observation = o]
  <2>1. GoodHandler(x)
    BY FreeType DEF GoodHandler, Free, HandlerState
  <2>2. Become(h, x)
    BY <1>1 DEF Receive
  <2> HIDE DEF x
  <2>3. overlapped' \in BOOLEAN
    BY <1>1 DEF Receive
  <2>4. requests' \in Nat
    BY <1>1 DEF Receive, TypeInv, TypeOK
  <2> QED
    BY <1>1, <2>1, <2>2, <2>3, <2>4, BecomeGood DEF Receive, TypeInv, TypeOK
<1>2. ASSUME NEW h \in Handlers, SaveObservation(h)
      PROVE  TypeInv'
  <2> DEFINE x == [handlers[h] EXCEPT !.pc = "address", !.names = NamesOf[Seen(h)]]
  <2>1. Seen(h) \in Observations /\ handlers[h] \in HandlerState
    BY <1>2 DEF SaveObservation, At, TypeInv, TypeOK, Busy
  <2>2. NamesOf[Seen(h)] \in SUBSET Names
    BY <2>1, IngestAssumption
  <2>3. GoodHandler(x)
    BY <2>1, <2>2 DEF GoodHandler, HandlerState, Seen
  <2>4. Become(h, x)
    BY <1>2 DEF SaveObservation
  <2> HIDE DEF x
  <2> QED
    BY <1>2, <2>1, <2>3, <2>4, BecomeGood DEF SaveObservation, TypeInv, TypeOK
<1>3. ASSUME NEW h \in Handlers, FindByAddress(h)
      PROVE  TypeInv'
  <2>1. CASE Goto(h, "name")
    <3> DEFINE x == [handlers[h] EXCEPT !.pc = "name"]
    <3>1. GoodHandler(x)
      BY <1>3 DEF FindByAddress, At, GoodHandler, HandlerState, TypeInv, TypeOK, Busy, Seen
    <3>2. Become(h, x)
      BY <2>1 DEF Goto
    <3> HIDE DEF x
    <3> QED
      BY <1>3, <3>1, <3>2, BecomeGood DEF FindByAddress, TypeInv, TypeOK
  <2>2. ASSUME NEW a \in Assets, Found(h, a)
        PROVE  TypeInv'
    <3>1. PICK x : GoodHandler(x) /\ Become(h, x)
      BY <1>3, <2>2, FoundGood DEF FindByAddress, At
    <3> QED
      BY <1>3, <3>1, BecomeGood DEF FindByAddress, TypeInv, TypeOK
  <2> QED
    BY <1>3, <2>1, <2>2 DEF FindByAddress, WithAddress
<1>4. ASSUME NEW h \in Handlers, NEW n \in Names, FindByName(h, n)
      PROVE  TypeInv'
  <2>1. CASE WithName(n) = {}
    <3> DEFINE x == [handlers[h] EXCEPT !.names = @ \ {n}]
    <3>1. GoodHandler(x)
      BY <1>4 DEF FindByName, At, GoodHandler, HandlerState, TypeInv, TypeOK, Busy, Seen
    <3>2. Become(h, x)
      BY <1>4, <2>1 DEF FindByName
    <3> HIDE DEF x
    <3> QED
      BY <1>4, <3>1, <3>2, BecomeGood DEF FindByName, TypeInv, TypeOK
  <2>2. ASSUME NEW a \in Assets, Found(h, a)
        PROVE  TypeInv'
    <3>1. PICK x : GoodHandler(x) /\ Become(h, x)
      BY <1>4, <2>2, FoundGood DEF FindByName, At
    <3> QED
      BY <1>4, <3>1, BecomeGood DEF FindByName, TypeInv, TypeOK
  <2> QED
    BY <1>4, <2>1, <2>2 DEF FindByName, WithName
<1>5. ASSUME NEW h \in Handlers, NEW a \in Assets, Discover(h, a)
      PROVE  TypeInv'
  <2> DEFINE x == [handlers[h] EXCEPT !.pc = "asset", !.asset = a, !.row = NewRow(Seen(h))]
  <2>1. Seen(h) \in Observations /\ handlers[h] \in HandlerState
    BY <1>5 DEF Discover, At, TypeInv, TypeOK, Busy
  <2>2. NewRow(Seen(h)) \in Row /\ NewRow(Seen(h)).addresses # {}
    BY <2>1, NewRowType
  <2>3. GoodHandler(x)
    BY <2>1, <2>2 DEF GoodHandler, HandlerState, Seen
  <2>4. Become(h, x)
    BY <1>5 DEF Discover
  <2> HIDE DEF x
  <2>5. discovered' \in [Assets -> SUBSET Facts]
    BY <1>5, <2>1, IngestAssumption DEF Discover, TypeInv, TypeOK
  <2> QED
    BY <1>5, <2>3, <2>4, <2>5, BecomeGood DEF Discover, TypeInv, TypeOK
<1>6. ASSUME NEW h \in Handlers, NEW f \in Reports, SaveDrift(h, f)
      PROVE  TypeInv'
  <2> DEFINE x == [handlers[h] EXCEPT
                    !.pc = IF handlers[h].unsaved = {f} THEN "asset" ELSE "drift",
                    !.unsaved = @ \ {f}]
  <2>1. handlers[h] \in HandlerState /\ handlers[h].pc = "drift"
    BY <1>6 DEF SaveDrift, At, TypeInv, TypeOK
  <2>2. handlers[h].row.addresses # {} /\ handlers[h].asset \in Assets
          /\ handlers[h].observation \in Observations
    BY <2>1 DEF TypeInv, TypeOK, Busy, Seen
  <2>3. GoodHandler(x)
    BY <2>1, <2>2 DEF GoodHandler, HandlerState
  <2>4. Become(h, x)
    BY <1>6 DEF SaveDrift
  <2> HIDE DEF x
  <2>5. drift' \in [Assets -> [Reports -> Nat]]
    BY <1>6, <2>2 DEF SaveDrift, TypeInv, TypeOK
  <2> QED
    BY <1>6, <2>3, <2>4, <2>5, BecomeGood DEF SaveDrift, TypeInv, TypeOK
<1>7. ASSUME NEW h \in Handlers, SaveAsset(h)
      PROVE  TypeInv'
  <2>1. PICK p \in {"finding", "review"} : Goto(h, p)
    BY <1>7 DEF SaveAsset
  <2> DEFINE x == [handlers[h] EXCEPT !.pc = p]
  <2>2. GoodHandler(x)
    BY <1>7 DEF SaveAsset, At, GoodHandler, HandlerState, TypeInv, TypeOK, Busy, Seen
  <2>3. Become(h, x)
    BY <2>1 DEF Goto
  <2> HIDE DEF x
  <2>4. assets' \in [Assets -> Row]
    BY <1>7 DEF SaveAsset, TypeInv, TypeOK, HandlerState
  <2> QED
    BY <1>7, <2>2, <2>3, <2>4, BecomeGood DEF SaveAsset, TypeInv, TypeOK
<1>8. ASSUME NEW h \in Handlers, SaveFinding(h)
      PROVE  TypeInv'
  <2> DEFINE x == [handlers[h] EXCEPT !.pc = "link"]
  <2>1. GoodHandler(x) /\ Seen(h) \in Observations
    BY <1>8 DEF SaveFinding, At, GoodHandler, HandlerState, TypeInv, TypeOK, Busy, Seen
  <2>2. Become(h, x)
    BY <1>8 DEF SaveFinding, Goto
  <2> HIDE DEF x
  <2> QED
    BY <1>8, <2>1, <2>2, BecomeGood DEF SaveFinding, TypeInv, TypeOK
<1>9. ASSUME NEW h \in Handlers, LinkAsset(h)
      PROVE  TypeInv'
  <2>1. PICK x \in {[handlers[h] EXCEPT !.pc = "review"], Free} : Become(h, x)
    BY <1>9 DEF LinkAsset, Goto
  <2>2. GoodHandler(x)
    BY <1>9, FreeGood DEF LinkAsset, At, GoodHandler, HandlerState, TypeInv, TypeOK, Busy, Seen
  <2>3. Seen(h) \in Observations /\ handlers[h].asset \in Assets
    BY <1>9 DEF LinkAsset, At, TypeInv, Busy
  <2>4. owner' \in [Observations -> Assets \cup {NoAsset}] /\ refused' \subseteq Observations
    BY <1>9, <2>3 DEF LinkAsset, TypeInv, TypeOK
  <2> QED
    BY <1>9, <2>1, <2>2, <2>4, BecomeGood DEF LinkAsset, TypeInv, TypeOK
<1>10. ASSUME NEW h \in Handlers, Review(h)
       PROVE  TypeInv'
  <2> DEFINE new == [rules |-> {RuleOf[Seen(h)]} \cap Rules, changes |-> handlers[h].changes]
  <2>1. Seen(h) \in Observations /\ handlers[h].asset \in Assets
    BY <1>10 DEF Review, At, TypeInv, Busy
  <2>2. new \in [rules: SUBSET Rules, changes: SUBSET Reports]
    BY DEF TypeInv, TypeOK, HandlerState
  <2>3. Reviewed(investigations[handlers[h].asset], new)
          \in [rules: SUBSET Rules, changes: SUBSET Reports]
    BY <2>1, <2>2, ReviewedType DEF TypeInv, TypeOK
  <2>4. \/ investigations' = investigations
        \/ investigations' = [investigations EXCEPT
             ![handlers[h].asset] = Reviewed(investigations[handlers[h].asset], new)]
    BY <1>10 DEF Review
  <2> HIDE DEF new
  <2>5. investigations' \in [Assets -> [rules: SUBSET Rules, changes: SUBSET Reports]]
    BY <2>3, <2>4 DEF TypeInv, TypeOK
  <2>6. Become(h, Free)
    BY <1>10 DEF Review
  <2> QED
    BY <1>10, <2>1, <2>5, <2>6, FreeGood, BecomeGood DEF Review, TypeInv, TypeOK
<1>11. ASSUME NEW h \in Handlers, Abort(h)
       PROVE  TypeInv'
  <2>1. Become(h, Free)
    BY <1>11 DEF Abort
  <2>2. faults' \in Nat
    BY <1>11 DEF Abort, TypeInv, TypeOK
  <2> QED
    BY <1>11, <2>1, <2>2, FreeGood, BecomeGood DEF Abort, TypeInv, TypeOK
<1>12. CASE UNCHANGED vars
  BY <1>12 DEF vars, TypeInv, TypeOK, Busy, Seen
<1> QED
  BY <1>1, <1>2, <1>3, <1>4, <1>5, <1>6, <1>7, <1>8, <1>9, <1>10, <1>11, <1>12
  DEF Next, HandlerStep

(* Tables, handlers and histories keep their shape, and an asset is never   *)
(* saved without an address.                                                *)
THEOREM TypeCorrect == Spec => []TypeOK
<1>1. TypeInv => TypeOK
  BY DEF TypeInv
<1> QED
  BY <1>1, TypeInvInit, TypeInvStep, PTL DEF Spec

-----------------------------------------------------------------------------
(***************************************************************************)
(* The inductive invariant.  An asset shows nothing before it is saved;    *)
(* what a handler is about to save was reported, is about to be, or was    *)
(* there at the discovery; past the save the asset exists, and past the    *)
(* link the finding is linked to it.                                       *)
(***************************************************************************)
Accounted(a) == discovered[a] \cup {f \in Facts : drift[a][f] > 0}

AssetSafe(a) ==
  /\ ~Exists(a) => assets[a].facts = {}
  /\ assets[a].facts \subseteq Accounted(a)

HandlerSafe(h) ==
  LET a == handlers[h].asset  o == Seen(h) IN
  /\ handlers[h].pc \in {"drift", "asset"} =>
       handlers[h].row.facts \subseteq Accounted(a) \cup handlers[h].unsaved
  /\ handlers[h].pc # "drift" => handlers[h].unsaved = {}
  /\ handlers[h].pc \in {"finding", "link", "review"} => Exists(a)
  /\ handlers[h].pc = "review" /\ o \in Flagged => owner[o] = a

IInv ==
  /\ TypeInv
  /\ \A a \in Assets : AssetSafe(a)
  /\ \A h \in Handlers : HandlerSafe(h)
  /\ AnsweredIsReviewed

LEMMA IInvInit == Init => IInv
<1> SUFFICES ASSUME Init PROVE IInv
  OBVIOUS
<1>1. TypeInv
  BY TypeInvInit
<1>2. \A a \in Assets : AssetSafe(a)
  BY DEF Init, AssetSafe, AbsentRow
<1>3. \A h \in Handlers : HandlerSafe(h)
  BY DEF Init, HandlerSafe, Free
<1>4. AnsweredIsReviewed
  BY DEF Init, AnsweredIsReviewed
<1> QED
  BY <1>1, <1>2, <1>3, <1>4 DEF IInv

(* A step that keeps asset a's row, events and discovery keeps it safe.    *)
SameAsset(a) ==
  assets'[a] = assets[a] /\ drift'[a] = drift[a] /\ discovered'[a] = discovered[a]

LEMMA SameAssetSafe ==
  ASSUME NEW a, AssetSafe(a), SameAsset(a)
  PROVE  AssetSafe(a)' /\ Accounted(a)' = Accounted(a) /\ (Exists(a)' <=> Exists(a))
BY DEF AssetSafe, SameAsset, Accounted, Exists

(* What was accounted for stays so unless the asset is discovered anew.    *)
Grows(a) ==
  /\ Accounted(a) \subseteq Accounted(a)'
  /\ Exists(a) => Exists(a)'

(* A handler that does not move stays safe when its asset only grows and   *)
(* links are kept.                                                         *)
LEMMA OthersSafe ==
  ASSUME IInv, NEW h \in Handlers, NEW x, Become(h, x),
         NEW k \in Handlers, k # h,
         handlers[k].asset \in Assets => Grows(handlers[k].asset),
         \A o \in Observations : owner[o] \in Assets => owner'[o] = owner[o]
  PROVE  HandlerSafe(k)'
<1>1. handlers'[k] = handlers[k]
  BY DEF Become, IInv, TypeInv, TypeOK
<1>2. HandlerSafe(k) /\ Busy(k)
  BY DEF IInv, TypeInv
<1> QED
  BY <1>1, <1>2 DEF HandlerSafe, Grows, Busy, Seen, Flagged

(* What is under review stays there when links and rules are kept. *)
LEMMA ReviewedStays ==
  ASSUME IInv, answered' = answered,
         \A a \in Assets : Exists(a) => Exists(a)',
         \A o \in Observations : owner[o] \in Assets => owner'[o] = owner[o],
         investigations' = investigations
  PROVE  AnsweredIsReviewed'
BY DEF IInv, AnsweredIsReviewed, Flagged
(* A step that leaves the tables alone only has to bring its own handler   *)
(* into a safe state.                                                      *)
LEMMA QuietStep ==
  ASSUME IInv, TypeInv', NEW h \in Handlers, NEW x, Become(h, x), HandlerSafe(h)',
         UNCHANGED <<assets, drift, owner, investigations, discovered, answered>>
  PROVE  IInv'
<1>1. \A a \in Assets : AssetSafe(a)'
  BY SameAssetSafe DEF SameAsset, IInv
<1>2. \A a \in Assets : Grows(a)
  BY DEF Grows, Accounted, Exists
<1>3. \A k \in Handlers : HandlerSafe(k)'
  BY <1>2, OthersSafe
<1>4. AnsweredIsReviewed'
  BY ReviewedStays DEF Exists
<1> QED
  BY <1>1, <1>3, <1>4 DEF IInv

LEMMA FreeSafe ==
  ASSUME TypeInv, NEW h \in Handlers, Become(h, Free)
  PROVE  HandlerSafe(h)'
BY DEF TypeInv, TypeOK, Become, Free, HandlerSafe

(* The asset found may be saved with what was observed: the new facts are  *)
(* the drift that is still to be saved.                                    *)
LEMMA FoundSafe ==
  ASSUME IInv, TypeInv', NEW h \in Handlers, NEW a \in Assets, ~At(h, "free"), Found(h, a),
         UNCHANGED <<assets, drift, owner, investigations, discovered, answered>>
  PROVE  IInv'
<1> DEFINE o == Seen(h)
           new == Changes(o, assets[a])
           x == [handlers[h] EXCEPT
                  !.pc = IF new = {} THEN "asset" ELSE "drift",
                  !.asset = a, !.row = Merged(o, assets[a]), !.changes = new, !.unsaved = new]
<1>1. handlers[h] \in HandlerState
  BY DEF IInv, TypeInv, TypeOK
<1>2. Become(h, x)
  BY DEF Found
<1>3. handlers'[h] = x
  BY <1>2 DEF Become, IInv, TypeInv, TypeOK
<1>4. /\ x.pc = IF new = {} THEN "asset" ELSE "drift"
      /\ x.asset = a /\ x.row = Merged(o, assets[a]) /\ x.unsaved = new
  BY <1>1 DEF HandlerState
<1>5. Merged(o, assets[a]).facts \subseteq Accounted(a) \cup new
  BY DEF Merged, Changes, IInv, AssetSafe
<1>6. Accounted(a)' = Accounted(a)
  BY DEF Accounted
<1> HIDE DEF x, new
<1>7. HandlerSafe(h)'
  BY <1>3, <1>4, <1>5, <1>6 DEF HandlerSafe
<1> QED
  BY <1>2, <1>7, QuietStep

LEMMA SaveDriftSafe ==
  ASSUME IInv, TypeInv', NEW h \in Handlers, NEW f \in Reports, SaveDrift(h, f)
  PROVE  IInv'
<1> DEFINE x == [handlers[h] EXCEPT
                  !.pc = IF handlers[h].unsaved = {f} THEN "asset" ELSE "drift",
                  !.unsaved = @ \ {f}]
<1>0. PICK b \in Assets : b = handlers[h].asset
  BY DEF SaveDrift, At, IInv, TypeInv, Busy
<1>1. handlers[h] \in HandlerState /\ handlers[h].pc = "drift"
  BY DEF SaveDrift, At, IInv, TypeInv, TypeOK
<1>2. UNCHANGED <<assets, owner, investigations, discovered, answered>> /\ Become(h, x)
  BY DEF SaveDrift, histories
<1>3. drift' = [drift EXCEPT ![b][f] = @ + 1]
  BY <1>0 DEF SaveDrift
<1>4. \A a \in Assets, g \in Reports : drift[a][g] > 0 => drift'[a][g] > 0
  BY <1>1, <1>3 DEF IInv, TypeInv, TypeOK
<1>5. drift'[b][f] > 0
  BY <1>1, <1>3 DEF IInv, TypeInv, TypeOK
<1>6. \A a \in Assets : Grows(a)
  BY <1>2, <1>4 DEF Grows, Accounted, Exists, Reports
<1>7. \A a \in Assets : AssetSafe(a)'
  BY <1>2, <1>6 DEF IInv, AssetSafe, Grows, Exists
<1>8. HandlerSafe(h)'
  <2>1. handlers'[h] = x
    BY <1>2 DEF Become, IInv, TypeInv, TypeOK
  <2>2. /\ x.pc = IF handlers[h].unsaved = {f} THEN "asset" ELSE "drift"
        /\ x.unsaved = handlers[h].unsaved \ {f}
        /\ x.asset = b /\ x.row = handlers[h].row
    BY <1>0, <1>1 DEF HandlerState
  <2>3. handlers[h].row.facts \subseteq Accounted(b) \cup handlers[h].unsaved
    BY <1>0, <1>1 DEF IInv, HandlerSafe
  <2>4. Accounted(b) \cup ({f} \cap Facts) \subseteq Accounted(b)'
    BY <1>1, <1>5, <1>6 DEF Grows, Accounted
  <2>5. handlers[h].row.facts \subseteq Facts
    BY <1>1 DEF HandlerState, Row
  <2> HIDE DEF x
  <2> QED
    BY <2>1, <2>2, <2>3, <2>4, <2>5 DEF HandlerSafe
<1>9. \A k \in Handlers : HandlerSafe(k)'
  BY <1>2, <1>6, <1>8, OthersSafe
<1>10. AnsweredIsReviewed'
  BY <1>2, ReviewedStays DEF Exists
<1> QED
  BY <1>7, <1>9, <1>10 DEF IInv
(* A new asset shows what it was discovered with, and nobody else holds it. *)
LEMMA DiscoverSafe ==
  ASSUME IInv, TypeInv', NEW h \in Handlers, NEW b \in Assets, Discover(h, b)
  PROVE  IInv'
<1> DEFINE x == [handlers[h] EXCEPT !.pc = "asset", !.asset = b, !.row = NewRow(Seen(h))]
<1>1. handlers[h] \in HandlerState /\ handlers[h].pc = "name"
  BY DEF Discover, At, IInv, TypeInv, TypeOK
<1>2. UNCHANGED <<assets, drift, owner, investigations, answered>> /\ Become(h, x)
  BY DEF Discover, tables
<1>3. discovered' = [discovered EXCEPT ![b] = FactsOf[Seen(h)]]
  BY DEF Discover
<1>4. ~Exists(b) /\ \A k \in Handlers : handlers[k].asset # b
  BY DEF Discover, NewAssets
<1>5. \A a \in Assets : a # b => SameAsset(a)
  BY <1>2, <1>3 DEF SameAsset, IInv, TypeInv, TypeOK
<1>6. \A a \in Assets : AssetSafe(a)'
  <2>1. AssetSafe(b)'
    BY <1>2, <1>4 DEF IInv, AssetSafe, Exists
  <2> QED
    BY <1>5, <2>1, SameAssetSafe DEF IInv
<1>7. \A a \in Assets : a # b => Grows(a)
  BY <1>5, SameAssetSafe DEF IInv, Grows
<1>8. HandlerSafe(h)'
  <2>1. handlers'[h] = x
    BY <1>2 DEF Become, IInv, TypeInv, TypeOK
  <2>2. x.pc = "asset" /\ x.asset = b /\ x.row = NewRow(Seen(h)) /\ x.unsaved = handlers[h].unsaved
    BY <1>1 DEF HandlerState
  <2>3. handlers[h].unsaved = {}
    BY <1>1 DEF IInv, HandlerSafe
  <2>4. NewRow(Seen(h)).facts = FactsOf[Seen(h)]
    BY DEF NewRow
  <2>5. discovered'[b] = FactsOf[Seen(h)]
    BY <1>3 DEF IInv, TypeInv, TypeOK
  <2> HIDE DEF x
  <2> QED
    BY <2>1, <2>2, <2>3, <2>4, <2>5 DEF HandlerSafe, Accounted
<1>9. \A k \in Handlers : HandlerSafe(k)'
  BY <1>2, <1>4, <1>7, <1>8, OthersSafe
<1>10. AnsweredIsReviewed'
  BY <1>2, ReviewedStays DEF Exists
<1> QED
  BY <1>6, <1>9, <1>10 DEF IInv
LEMMA SaveAssetSafe ==
  ASSUME IInv, TypeInv', NEW h \in Handlers, SaveAsset(h)
  PROVE  IInv'
<1>0. PICK b \in Assets : b = handlers[h].asset
  BY DEF SaveAsset, At, IInv, TypeInv, Busy
<1> DEFINE p == IF Seen(h) \in Flagged THEN "finding" ELSE "review"
           x == [handlers[h] EXCEPT !.pc = p]
<1>1. handlers[h] \in HandlerState /\ handlers[h].pc = "asset"
  BY DEF SaveAsset, At, IInv, TypeInv, TypeOK
<1>2. UNCHANGED <<drift, owner, investigations, discovered, answered>> /\ Become(h, x)
  BY DEF SaveAsset, Goto, histories
<1>3. assets' = [assets EXCEPT ![b] = handlers[h].row]
  BY <1>0 DEF SaveAsset
<1>4. handlers[h].row.addresses # {} /\ handlers[h].row.facts \subseteq Accounted(b)
  BY <1>0, <1>1 DEF IInv, TypeInv, TypeOK, HandlerSafe
<1>5. assets'[b] = handlers[h].row /\ \A a \in Assets : a # b => assets'[a] = assets[a]
  BY <1>3 DEF IInv, TypeInv, TypeOK
<1>6. \A a \in Assets : Grows(a)
  BY <1>2, <1>4, <1>5 DEF Grows, Accounted, Exists
<1>7. \A a \in Assets : AssetSafe(a)'
  BY <1>2, <1>4, <1>5 DEF IInv, AssetSafe, Accounted, Exists
<1>8. HandlerSafe(h)'
  <2>1. handlers'[h] = x
    BY <1>2 DEF Become, IInv, TypeInv, TypeOK
  <2>2. /\ x.pc = p /\ x.asset = b /\ x.observation = Seen(h)
        /\ x.unsaved = handlers[h].unsaved
    BY <1>0, <1>1 DEF HandlerState, Seen
  <2>3. handlers[h].unsaved = {}
    BY <1>1 DEF IInv, HandlerSafe
  <2>4. Exists(b)'
    BY <1>4, <1>5 DEF Exists
  <2> HIDE DEF x
  <2> QED
    BY <2>1, <2>2, <2>3, <2>4 DEF HandlerSafe, Seen, Flagged
<1>9. \A k \in Handlers : HandlerSafe(k)'
  BY <1>2, <1>6, <1>8, OthersSafe
<1>10. AnsweredIsReviewed'
  BY <1>2, <1>6, ReviewedStays DEF Grows
<1> QED
  BY <1>7, <1>9, <1>10 DEF IInv

(* A link is set once and never moved. *)
LEMMA LinkAssetSafe ==
  ASSUME IInv, TypeInv', NEW h \in Handlers, LinkAsset(h)
  PROVE  IInv'
<1>0. PICK b \in Assets, o \in Observations : b = handlers[h].asset /\ o = Seen(h)
  BY DEF LinkAsset, At, IInv, TypeInv, Busy
<1>1. handlers[h] \in HandlerState /\ handlers[h].pc = "link"
  BY DEF LinkAsset, At, IInv, TypeInv, TypeOK
<1>2. UNCHANGED <<assets, drift, investigations, discovered, answered>>
  BY DEF LinkAsset
<1>3. CASE ~MayLink(o, b)
  BY <1>0, <1>2, <1>3, FreeSafe, QuietStep DEF LinkAsset, IInv
<1>4. CASE MayLink(o, b)
  <2> DEFINE x == [handlers[h] EXCEPT !.pc = "review"]
  <2>1. owner' = [owner EXCEPT ![o] = b] /\ Become(h, x)
    BY <1>0, <1>4 DEF LinkAsset, Goto
  <2>2. owner'[o] = b
    BY <2>1 DEF IInv, TypeInv, TypeOK
  <2>3. \A q \in Observations : owner[q] \in Assets => owner'[q] = owner[q]
    BY <1>4, <2>1, IngestAssumption DEF MayLink, IInv, TypeInv, TypeOK
  <2>4. \A a \in Assets : AssetSafe(a)' /\ Grows(a)
    BY <1>2 DEF IInv, AssetSafe, Grows, Accounted, Exists
  <2>5. HandlerSafe(h)'
    <3>1. handlers'[h] = x
      BY <2>1 DEF Become, IInv, TypeInv, TypeOK
    <3>2. x.pc = "review" /\ x.asset = b /\ x.observation = o /\ x.unsaved = handlers[h].unsaved
      BY <1>0, <1>1 DEF HandlerState, Seen
    <3>3. handlers[h].unsaved = {} /\ Exists(b)
      BY <1>0, <1>1 DEF IInv, HandlerSafe
    <3>4. Exists(b)'
      BY <1>2, <3>3 DEF Exists
    <3> HIDE DEF x
    <3> QED
      BY <2>2, <3>1, <3>2, <3>3, <3>4 DEF HandlerSafe, Seen
  <2>6. \A k \in Handlers : HandlerSafe(k)'
    BY <2>1, <2>3, <2>4, <2>5, OthersSafe
  <2>7. AnsweredIsReviewed'
    BY <1>2, <2>3, ReviewedStays DEF Exists
  <2> QED
    BY <2>4, <2>6, <2>7 DEF IInv
<1> QED
  BY <1>3, <1>4

(* The answered observation joins those whose rule is under review. *)
LEMMA ReviewSafe ==
  ASSUME IInv, TypeInv', NEW h \in Handlers, Review(h)
  PROVE  IInv'
<1>0. PICK b \in Assets, o \in Observations : b = handlers[h].asset /\ o = Seen(h)
  BY DEF Review, At, IInv, TypeInv, Busy
<1> DEFINE new == [rules |-> {RuleOf[o]} \cap Rules, changes |-> handlers[h].changes]
<1>1. handlers[h].pc = "review" /\ Become(h, Free) /\ answered' = answered \cup {o}
  BY <1>0 DEF Review, At
<1>2. UNCHANGED <<assets, drift, owner, discovered>>
  BY DEF Review
<1>3. investigations' = IF new.rules \cup new.changes = {}
                        THEN investigations
                        ELSE [investigations EXCEPT ![b] = Reviewed(@, new)]
  BY <1>0 DEF Review
<1>4. \A a \in Assets : investigations[a].rules \subseteq investigations'[a].rules
  BY <1>3 DEF Reviewed, IInv, TypeInv, TypeOK
<1>5. o \in Flagged => RuleOf[o] \in investigations'[b].rules
  <2> SUFFICES ASSUME o \in Flagged PROVE RuleOf[o] \in investigations'[b].rules
    OBVIOUS
  <2>1. RuleOf[o] \in new.rules
    BY IngestAssumption DEF Flagged
  <2>2. investigations' = [investigations EXCEPT ![b] = Reviewed(@, new)]
    BY <1>3, <2>1
  <2> QED
    BY <2>1, <2>2 DEF Reviewed, IInv, TypeInv, TypeOK
<1>6. o \in Flagged => owner[o] = b /\ Exists(b)
  BY <1>0, <1>1 DEF IInv, HandlerSafe
<1>7. \A a \in Assets : AssetSafe(a)' /\ Grows(a)
  BY <1>2 DEF IInv, AssetSafe, Grows, Accounted, Exists
<1>8. \A k \in Handlers : HandlerSafe(k)'
  BY <1>1, <1>2, <1>7, FreeSafe, OthersSafe DEF IInv
<1>9. AnsweredIsReviewed'
  <2> SUFFICES ASSUME NEW q \in answered' \cap Flagged
               PROVE  /\ owner[q] \in Assets
                      /\ assets[owner[q]].addresses # {}
                      /\ RuleOf[q] \in investigations'[owner[q]].rules
    BY <1>2 DEF AnsweredIsReviewed, Flagged, Exists
  <2>1. CASE q = o
    BY <1>5, <1>6, <2>1 DEF Exists
  <2>2. CASE q \in answered
    BY <1>4, <2>2 DEF IInv, AnsweredIsReviewed, Exists
  <2> QED
    BY <1>1, <2>1, <2>2
<1> QED
  BY <1>7, <1>8, <1>9 DEF IInv
LEMMA IInvStep == IInv /\ [Next]_vars => IInv'
<1> SUFFICES ASSUME IInv, [Next]_vars PROVE IInv'
  OBVIOUS
<1>0. TypeInv'
  BY TypeInvStep DEF IInv
<1> USE DEF tables, histories
<1>1. ASSUME NEW h \in Handlers, NEW o \in Observations, Receive(h, o)
      PROVE  IInv'
  <2> DEFINE x == [Free EXCEPT !.pc = "save", !.observation = o]
  <2>1. x.pc = "save" /\ x.unsaved = {}
    BY DEF Free
  <2>2. Become(h, x)
    BY <1>1 DEF Receive
  <2> HIDE DEF x
  <2>3. HandlerSafe(h)'
    BY <2>1, <2>2 DEF Become, IInv, TypeInv, TypeOK, HandlerSafe
  <2> QED
    BY <1>0, <1>1, <2>2, <2>3, QuietStep DEF Receive
<1>2. ASSUME NEW h \in Handlers, SaveObservation(h)
      PROVE  IInv'
  <2> DEFINE x == [handlers[h] EXCEPT !.pc = "address", !.names = NamesOf[Seen(h)]]
  <2>1. x.pc = "address" /\ x.unsaved = handlers[h].unsaved
    BY DEF IInv, TypeInv, TypeOK, HandlerState
  <2>2. handlers[h].unsaved = {}
    BY <1>2 DEF SaveObservation, At, IInv, HandlerSafe
  <2>3. Become(h, x)
    BY <1>2 DEF SaveObservation
  <2> HIDE DEF x
  <2>4. HandlerSafe(h)'
    BY <2>1, <2>2, <2>3 DEF Become, IInv, TypeInv, TypeOK, HandlerSafe
  <2> QED
    BY <1>0, <1>2, <2>3, <2>4, QuietStep DEF SaveObservation
<1>3. ASSUME NEW h \in Handlers, FindByAddress(h)
      PROVE  IInv'
  <2>1. CASE Goto(h, "name")
    <3>1. HandlerSafe(h)'
      BY <1>3, <2>1 DEF FindByAddress, At, Goto, Become, IInv, TypeInv, TypeOK, HandlerState, HandlerSafe
    <3> QED
      BY <1>0, <1>3, <2>1, <3>1, QuietStep DEF FindByAddress, Goto
  <2>2. ASSUME NEW a \in Assets, Found(h, a)
        PROVE  IInv'
    BY <1>0, <1>3, <2>2, FoundSafe DEF FindByAddress, At
  <2> QED
    BY <1>3, <2>1, <2>2 DEF FindByAddress, WithAddress
<1>4. ASSUME NEW h \in Handlers, NEW n \in Names, FindByName(h, n)
      PROVE  IInv'
  <2>1. CASE WithName(n) = {}
    <3> DEFINE x == [handlers[h] EXCEPT !.names = @ \ {n}]
    <3>1. x.pc = "name" /\ x.unsaved = {}
      BY <1>4 DEF FindByName, At, IInv, TypeInv, TypeOK, HandlerState, HandlerSafe
    <3>2. Become(h, x)
      BY <1>4, <2>1 DEF FindByName
    <3> HIDE DEF x
    <3>3. HandlerSafe(h)'
      BY <3>1, <3>2 DEF Become, IInv, TypeInv, TypeOK, HandlerSafe
    <3> QED
      BY <1>0, <1>4, <3>2, <3>3, QuietStep DEF FindByName
  <2>2. ASSUME NEW a \in Assets, Found(h, a)
        PROVE  IInv'
    BY <1>0, <1>4, <2>2, FoundSafe DEF FindByName, At
  <2> QED
    BY <1>4, <2>1, <2>2 DEF FindByName, WithName
<1>5. ASSUME NEW h \in Handlers, SaveFinding(h)
      PROVE  IInv'
  <2>1. HandlerSafe(h)'
    BY <1>5 DEF SaveFinding, At, Goto, Become, IInv, TypeInv, TypeOK, HandlerState, HandlerSafe, Exists
  <2> QED
    BY <1>0, <1>5, <2>1, QuietStep DEF SaveFinding, Goto
<1>6. ASSUME NEW h \in Handlers, Abort(h)
      PROVE  IInv'
  BY <1>0, <1>6, FreeSafe, QuietStep DEF Abort, IInv
<1>7. CASE UNCHANGED vars
  BY <1>0, <1>7 DEF vars, IInv, AssetSafe, HandlerSafe, AnsweredIsReviewed, Accounted,
                    Exists, Seen
<1> QED
  BY <1>0, <1>1, <1>2, <1>3, <1>4, <1>5, <1>6, <1>7,
     DiscoverSafe, SaveDriftSafe, SaveAssetSafe, LinkAssetSafe, ReviewSafe
  DEF Next, HandlerStep

LEMMA IInvAlways == Spec => []IInv
BY IInvInit, IInvStep, PTL DEF Spec

-----------------------------------------------------------------------------
(* Whatever requests overlap, repeat or end early: a stored asset shows    *)
(* nothing it was not discovered with and that was not reported as drift.  *)
THEOREM NothingSilent == Spec => []NoSilentChange
<1>1. IInv => NoSilentChange
  BY DEF IInv, AssetSafe, Accounted, NoSilentChange
<1> QED
  BY <1>1, IInvAlways, PTL

(* An acknowledged violation is under review in the asset its finding is   *)
(* linked to, for any number of requests, assets and rules.                *)
THEOREM AnsweredReviewed == Spec => []AnsweredIsReviewed
<1>1. IInv => AnsweredIsReviewed
  BY DEF IInv
<1> QED
  BY <1>1, IInvAlways, PTL

-----------------------------------------------------------------------------
(* Requests that do not overlap.  While one is served alone, the row it    *)
(* will save holds all the asset shows by now, no other asset has its      *)
(* address, and so a finding meets the asset it was linked to before.      *)
Covers(row, o) ==
  /\ AddressOf[o] \in row.addresses
  /\ NamesOf[o] \subseteq row.names
  /\ FactsOf[o] \subseteq row.facts

Within(r, s) ==
  r.addresses \subseteq s.addresses /\ r.names \subseteq s.names /\ r.facts \subseteq s.facts

SoleRequest(x) ==
  LET o == x.observation  a == x.asset IN
  /\ x.pc = "name" => \A b \in Assets : AddressOf[o] \notin assets[b].addresses
  /\ x.pc \in {"drift", "asset"} =>
       /\ Covers(x.row, o)
       /\ Exists(a) => Within(assets[a], x.row)
       /\ x.row.addresses \subseteq assets[a].addresses \cup {AddressOf[o]}
       /\ \A b \in Assets \ {a} : AddressOf[o] \notin assets[b].addresses
  /\ x.pc \in {"finding", "link", "review"} => Covers(assets[a], o)

Alone    == \A h, k \in Handlers : ~At(h, "free") /\ ~At(k, "free") => h = k
Disjoint == \A a, b \in Assets : a # b => assets[a].addresses \cap assets[b].addresses = {}
Linked   == \A o \in Observations : owner[o] \in Assets => AddressOf[o] \in assets[owner[o]].addresses
Known    == \A o \in answered : \E a \in Assets : Covers(assets[a], o)

Replayed ==
  /\ Alone
  /\ Disjoint
  /\ \A h \in Handlers : SoleRequest(handlers[h])
  /\ Linked
  /\ refused = {}
  /\ Known

LEMMA ReplayedInit == Init => Replayed
BY IngestAssumption
DEF Init, Replayed, Alone, Disjoint, SoleRequest, Linked, Known, At, Free, AbsentRow

(* The request that moves is the only one. *)
LEMMA MovesAlone ==
  ASSUME IInv, Replayed, NEW h \in Handlers, ~At(h, "free"), NEW x, Become(h, x)
  PROVE  /\ handlers'[h] = x
         /\ \A k \in Handlers \ {h} : handlers'[k] = handlers[k] /\ handlers'[k].pc = "free"
         /\ Alone'
<1>1. handlers'[h] = x /\ \A k \in Handlers \ {h} : handlers'[k] = handlers[k]
  BY DEF IInv, TypeInv, TypeOK, Become
<1>2. \A k \in Handlers \ {h} : handlers[k].pc = "free"
  BY DEF Replayed, Alone, At
<1> QED
  BY <1>1, <1>2 DEF Alone, At

(* A step that leaves assets, links and answers alone has to bring its own *)
(* request into a good state only.                                         *)
LEMMA GoesOn ==
  ASSUME IInv, Replayed, NEW h \in Handlers, ~At(h, "free"), NEW x, Become(h, x),
         SoleRequest(x), UNCHANGED <<assets, owner, refused, answered>>
  PROVE  Replayed'
<1>1. /\ handlers'[h] = x /\ Alone'
      /\ \A k \in Handlers \ {h} : handlers'[k].pc = "free"
  BY MovesAlone
<1>2. \A k \in Handlers : SoleRequest(handlers'[k])
  BY <1>1 DEF SoleRequest
<1>3. \A k \in Handlers : SoleRequest(handlers[k])'
  BY <1>2 DEF SoleRequest, Exists
<1> QED
  BY <1>1, <1>3 DEF Replayed, Disjoint, Linked, Known

(* The asset found, by address or by name, is the only one with the        *)
(* request's address, or none has it.                                      *)
LEMMA FoundAlone ==
  ASSUME IInv, Replayed, NEW h \in Handlers, ~At(h, "free"), NEW a \in Assets, Found(h, a),
         \A b \in Assets \ {a} : AddressOf[Seen(h)] \notin assets[b].addresses,
         UNCHANGED <<assets, owner, refused, answered>>
  PROVE  Replayed'
<1> DEFINE o == Seen(h)
           new == Changes(o, assets[a])
           x == [handlers[h] EXCEPT
                  !.pc = IF new = {} THEN "asset" ELSE "drift",
                  !.asset = a, !.row = Merged(o, assets[a]), !.changes = new, !.unsaved = new]
<1>1. Become(h, x)
  BY DEF Found
<1>2. handlers[h] \in HandlerState
  BY DEF IInv, TypeInv, TypeOK
<1>3. /\ x.pc \in {"drift", "asset"} /\ x.asset = a /\ x.observation = o
      /\ x.row = Merged(o, assets[a])
  BY <1>2 DEF HandlerState, Seen
<1>4. /\ Covers(Merged(o, assets[a]), o)
      /\ Within(assets[a], Merged(o, assets[a]))
      /\ Merged(o, assets[a]).addresses \subseteq assets[a].addresses \cup {AddressOf[o]}
  BY DEF Merged, Covers, Within
<1> HIDE DEF x
<1>5. SoleRequest(x)
  BY <1>3, <1>4 DEF SoleRequest
<1> QED
  BY <1>1, <1>5, GoesOn

LEMMA SaveAssetAlone ==
  ASSUME IInv, Replayed, NEW h \in Handlers, SaveAsset(h)
  PROVE  Replayed'
<1>0. PICK b \in Assets, o \in Observations : b = handlers[h].asset /\ o = Seen(h)
  BY DEF SaveAsset, At, IInv, TypeInv, Busy
<1> DEFINE row == handlers[h].row
           x == [handlers[h] EXCEPT !.pc = IF o \in Flagged THEN "finding" ELSE "review"]
<1>1. handlers[h] \in HandlerState /\ handlers[h].pc = "asset" /\ ~At(h, "free")
  BY DEF SaveAsset, At, IInv, TypeInv, TypeOK
<1>2. UNCHANGED <<owner, refused, answered>> /\ Become(h, x)
  BY <1>0 DEF SaveAsset, Goto, histories
<1>3. assets'[b] = row /\ \A a \in Assets \ {b} : assets'[a] = assets[a]
  BY <1>0 DEF SaveAsset, IInv, TypeInv, TypeOK
<1>4. x.pc \in {"finding", "review"} /\ x.asset = b /\ x.observation = o
  BY <1>0, <1>1 DEF HandlerState, Seen
<1>5. /\ Covers(row, o)
      /\ Exists(b) => Within(assets[b], row)
      /\ row.addresses \subseteq assets[b].addresses \cup {AddressOf[o]}
      /\ \A a \in Assets \ {b} : AddressOf[o] \notin assets[a].addresses
  BY <1>0, <1>1 DEF Replayed, SoleRequest, Seen
<1>6. /\ handlers'[h] = x /\ Alone'
      /\ \A k \in Handlers \ {h} : handlers'[k].pc = "free"
  BY <1>1, <1>2, MovesAlone
<1> HIDE DEF x
<1>7. \A k \in Handlers : SoleRequest(handlers[k])'
  <2>1. Covers(assets'[b], o)
    BY <1>3, <1>5
  <2> QED
    BY <1>4, <1>6, <2>1 DEF SoleRequest
<1>8. Disjoint'
  BY <1>3, <1>5 DEF Replayed, Disjoint
<1>9. \A q \in Observations, a \in Assets :
        AddressOf[q] \in assets[a].addresses => Within(assets[a], assets'[a])
  BY <1>3, <1>5 DEF Within, Exists
<1>10. Linked'
  BY <1>2, <1>9 DEF Replayed, Linked, Within
<1>11. Known'
  <2> SUFFICES ASSUME NEW q \in answered PROVE \E a \in Assets : Covers(assets'[a], q)
    BY <1>2 DEF Known, Covers
  <2>1. PICK a \in Assets : Covers(assets[a], q)
    BY DEF Replayed, Known
  <2>2. Within(assets[a], assets'[a])
    BY <1>9, <2>1 DEF Covers, IInv, TypeInv, TypeOK
  <2> QED
    BY <2>1, <2>2 DEF Covers, Within
<1> QED
  BY <1>2, <1>6, <1>7, <1>8, <1>10, <1>11 DEF Replayed

LEMMA LinkAssetAlone ==
  ASSUME IInv, Replayed, NEW h \in Handlers, LinkAsset(h)
  PROVE  Replayed'
<1>0. PICK b \in Assets, o \in Observations : b = handlers[h].asset /\ o = Seen(h)
  BY DEF LinkAsset, At, IInv, TypeInv, Busy
<1> DEFINE x == [handlers[h] EXCEPT !.pc = "review"]
<1>1. handlers[h] \in HandlerState /\ handlers[h].pc = "link" /\ ~At(h, "free")
  BY DEF LinkAsset, At, IInv, TypeInv, TypeOK
<1>2. Covers(assets[b], o)
  BY <1>0, <1>1 DEF Replayed, SoleRequest, Seen
<1>3. MayLink(o, b)
  <2> SUFFICES ASSUME owner[o] # NoAsset PROVE owner[o] = b
    BY DEF MayLink
  <2>1. owner[o] \in Assets /\ AddressOf[o] \in assets[owner[o]].addresses
    BY DEF IInv, TypeInv, TypeOK, Replayed, Linked
  <2> QED
    BY <1>2, <2>1 DEF Replayed, Disjoint, Covers
<1>4. /\ owner' = [owner EXCEPT ![o] = b] /\ Become(h, x)
      /\ UNCHANGED <<assets, refused, answered>>
  BY <1>0, <1>3 DEF LinkAsset, Goto
<1>5. x.pc = "review" /\ x.asset = b /\ x.observation = o
  BY <1>0, <1>1 DEF HandlerState, Seen
<1>6. /\ handlers'[h] = x /\ Alone'
      /\ \A k \in Handlers \ {h} : handlers'[k].pc = "free"
  BY <1>1, <1>4, MovesAlone
<1> HIDE DEF x
<1>7. \A k \in Handlers : SoleRequest(handlers[k])'
  BY <1>2, <1>4, <1>5, <1>6 DEF SoleRequest
<1>8. Linked'
  BY <1>2, <1>4 DEF Replayed, Linked, Covers, IInv, TypeInv, TypeOK
<1> QED
  BY <1>4, <1>6, <1>7, <1>8 DEF Replayed, Disjoint, Known

LEMMA ReviewAlone ==
  ASSUME IInv, Replayed, NEW h \in Handlers, Review(h)
  PROVE  Replayed'
<1>0. PICK b \in Assets, o \in Observations : b = handlers[h].asset /\ o = Seen(h)
  BY DEF Review, At, IInv, TypeInv, Busy
<1>1. handlers[h].pc = "review" /\ ~At(h, "free") /\ Become(h, Free)
  BY DEF Review, At
<1>2. Covers(assets[b], o)
  BY <1>0, <1>1 DEF Replayed, SoleRequest, Seen
<1>3. UNCHANGED <<assets, owner, refused>> /\ answered' = answered \cup {o}
  BY <1>0 DEF Review
<1>4. /\ handlers'[h] = Free /\ Alone'
      /\ \A k \in Handlers \ {h} : handlers'[k].pc = "free"
  BY <1>1, MovesAlone
<1>5. \A k \in Handlers : SoleRequest(handlers[k])'
  BY <1>4 DEF SoleRequest, Free
<1>6. Known'
  BY <1>2, <1>3 DEF Replayed, Known
<1> QED
  BY <1>3, <1>4, <1>5, <1>6 DEF Replayed, Disjoint, Linked

LEMMA ReplayedStep ==
  ASSUME IInv, ~overlapped => Replayed, [Next]_vars, ~overlapped'
  PROVE  Replayed'
<1> USE DEF tables, histories
<1>1. ~overlapped /\ Replayed
  <2>1. ~overlapped
    BY DEF Next, HandlerStep, Receive, SaveObservation, FindByAddress, FindByName, Discover,
           SaveDrift, SaveAsset, SaveFinding, LinkAsset, Review, Abort, vars
  <2> QED
    BY <2>1
<1>2. ASSUME NEW h \in Handlers, NEW o \in Observations, Receive(h, o) PROVE Replayed'
  <2> DEFINE x == [Free EXCEPT !.pc = "save", !.observation = o]
  <2>1. /\ handlers'[h].pc = "save"
        /\ \A k \in Handlers \ {h} : handlers'[k] = handlers[k]
    BY <1>2 DEF Receive, Become, Free, IInv, TypeInv, TypeOK
  <2>2. \A k \in Handlers : handlers[k].pc = "free"
    BY <1>2 DEF Receive, At
  <2>3. Alone'
    BY <2>1, <2>2 DEF Alone, At
  <2>4. \A k \in Handlers : SoleRequest(handlers[k])'
    BY <2>1, <2>2 DEF SoleRequest
  <2> QED
    BY <1>1, <1>2, <2>3, <2>4 DEF Receive, Replayed, Disjoint, Linked, Known
<1>3. ASSUME NEW h \in Handlers, ~At(h, "free"), NEW x, Become(h, x),
             x.pc \in {"free", "address"}, UNCHANGED <<assets, owner, refused, answered>>
      PROVE  Replayed'
  BY <1>1, <1>3, GoesOn DEF SoleRequest
<1>4. ASSUME NEW h \in Handlers, SaveObservation(h) PROVE Replayed'
  <2>1. [handlers[h] EXCEPT !.pc = "address", !.names = NamesOf[Seen(h)]].pc = "address"
    BY DEF IInv, TypeInv, TypeOK, HandlerState
  <2> QED
    BY <1>3, <1>4, <2>1 DEF SaveObservation, At
<1>5. ASSUME NEW h \in Handlers, FindByAddress(h) PROVE Replayed'
  <2>0. ~At(h, "free") /\ Seen(h) \in Observations /\ handlers[h] \in HandlerState
    BY <1>5 DEF FindByAddress, At, IInv, TypeInv, TypeOK, Busy
  <2>1. CASE WithAddress(AddressOf[Seen(h)]) = {}
    <3> DEFINE x == [handlers[h] EXCEPT !.pc = "name"]
    <3>1. x.pc = "name" /\ x.observation = Seen(h)
      BY <2>0 DEF HandlerState, Seen
    <3>2. Become(h, x)
      BY <1>5, <2>1 DEF FindByAddress, Goto
    <3> HIDE DEF x
    <3>3. SoleRequest(x)
      BY <2>1, <3>1 DEF SoleRequest, WithAddress
    <3> QED
      BY <1>1, <1>5, <2>0, <3>2, <3>3, GoesOn DEF FindByAddress
  <2>2. ASSUME NEW a \in WithAddress(AddressOf[Seen(h)]), Found(h, a) PROVE Replayed'
    <3>1. /\ a \in Assets
          /\ \A b \in Assets \ {a} : AddressOf[Seen(h)] \notin assets[b].addresses
      BY <1>1 DEF WithAddress, Replayed, Disjoint
    <3> QED
      BY <1>1, <1>5, <2>0, <2>2, <3>1, FoundAlone DEF FindByAddress
  <2> QED
    BY <1>5, <2>1, <2>2 DEF FindByAddress
<1>6. ASSUME NEW h \in Handlers, NEW n \in Names, FindByName(h, n) PROVE Replayed'
  <2>0. /\ ~At(h, "free") /\ handlers[h].pc = "name" /\ handlers[h] \in HandlerState
        /\ \A b \in Assets : AddressOf[Seen(h)] \notin assets[b].addresses
    BY <1>1, <1>6 DEF FindByName, At, IInv, TypeInv, TypeOK, Replayed, SoleRequest, Seen
  <2>1. CASE WithName(n) = {}
    <3> DEFINE x == [handlers[h] EXCEPT !.names = @ \ {n}]
    <3>1. x.pc = "name" /\ x.observation = Seen(h)
      BY <2>0 DEF HandlerState, Seen
    <3>2. Become(h, x)
      BY <1>6, <2>1 DEF FindByName
    <3> HIDE DEF x
    <3>3. SoleRequest(x)
      BY <2>0, <3>1 DEF SoleRequest
    <3> QED
      BY <1>1, <1>6, <2>0, <3>2, <3>3, GoesOn DEF FindByName
  <2>2. ASSUME NEW a \in WithName(n), Found(h, a) PROVE Replayed'
    BY <1>1, <1>6, <2>0, <2>2, FoundAlone DEF FindByName, WithName
  <2> QED
    BY <1>6, <2>1, <2>2 DEF FindByName
<1>7. ASSUME NEW h \in Handlers, NEW a \in Assets, Discover(h, a) PROVE Replayed'
  <2> DEFINE o == Seen(h)
             x == [handlers[h] EXCEPT !.pc = "asset", !.asset = a, !.row = NewRow(o)]
  <2>0. /\ ~At(h, "free") /\ handlers[h].pc = "name" /\ handlers[h] \in HandlerState
        /\ \A b \in Assets : AddressOf[o] \notin assets[b].addresses
    BY <1>1, <1>7 DEF Discover, At, IInv, TypeInv, TypeOK, Replayed, SoleRequest, Seen
  <2>1. x.pc = "asset" /\ x.observation = o /\ x.asset = a /\ x.row = NewRow(o)
    BY <2>0 DEF HandlerState, Seen
  <2>2. Become(h, x)
    BY <1>7 DEF Discover
  <2>3. ~Exists(a) /\ Covers(NewRow(o), o) /\ NewRow(o).addresses = {AddressOf[o]}
    BY <1>7 DEF Discover, NewAssets, NewRow, Covers
  <2> HIDE DEF x
  <2>4. SoleRequest(x)
    BY <2>0, <2>1, <2>3 DEF SoleRequest
  <2> QED
    BY <1>1, <1>7, <2>0, <2>2, <2>4, GoesOn DEF Discover
<1>8. ASSUME NEW h \in Handlers, NEW f \in Reports, SaveDrift(h, f) PROVE Replayed'
  <2> DEFINE x == [handlers[h] EXCEPT
                    !.pc = IF handlers[h].unsaved = {f} THEN "asset" ELSE "drift",
                    !.unsaved = @ \ {f}]
  <2>0. ~At(h, "free") /\ handlers[h].pc = "drift" /\ handlers[h] \in HandlerState
    BY <1>8 DEF SaveDrift, At, IInv, TypeInv, TypeOK
  <2>1. /\ x.pc \in {"asset", "drift"} /\ x.observation = handlers[h].observation
        /\ x.asset = handlers[h].asset /\ x.row = handlers[h].row
    BY <2>0 DEF HandlerState
  <2>2. Become(h, x)
    BY <1>8 DEF SaveDrift
  <2>3. SoleRequest(handlers[h])
    BY <1>1 DEF Replayed
  <2> HIDE DEF x
  <2>4. SoleRequest(x)
    BY <2>0, <2>1, <2>3 DEF SoleRequest
  <2> QED
    BY <1>1, <1>8, <2>0, <2>2, <2>4, GoesOn DEF SaveDrift
<1>9. ASSUME NEW h \in Handlers, SaveFinding(h) PROVE Replayed'
  <2> DEFINE x == [handlers[h] EXCEPT !.pc = "link"]
  <2>0. ~At(h, "free") /\ handlers[h].pc = "finding" /\ handlers[h] \in HandlerState
    BY <1>9 DEF SaveFinding, At, IInv, TypeInv, TypeOK
  <2>1. /\ x.pc = "link" /\ x.observation = handlers[h].observation
        /\ x.asset = handlers[h].asset
    BY <2>0 DEF HandlerState
  <2>2. Become(h, x)
    BY <1>9 DEF SaveFinding, Goto
  <2>3. SoleRequest(handlers[h])
    BY <1>1 DEF Replayed
  <2> HIDE DEF x
  <2>4. SoleRequest(x)
    BY <2>0, <2>1, <2>3 DEF SoleRequest
  <2> QED
    BY <1>1, <1>9, <2>0, <2>2, <2>4, GoesOn DEF SaveFinding
<1>10. ASSUME NEW h \in Handlers, Abort(h) PROVE Replayed'
  BY <1>3, <1>10 DEF Abort, Free
<1>11. CASE UNCHANGED vars
  BY <1>1, <1>11 DEF vars, Replayed, Alone, Disjoint, SoleRequest, Linked, Known, At, Exists
<1> QED
  BY <1>1, <1>2, <1>4, <1>5, <1>6, <1>7, <1>8, <1>9, <1>10, <1>11,
     SaveAssetAlone, LinkAssetAlone, ReviewAlone DEF Next, HandlerStep

LEMMA ReplayedAlways == Spec => [](~overlapped => Replayed)
<1>1. IInv /\ (~overlapped => Replayed) /\ [Next]_vars => (~overlapped => Replayed)'
  BY ReplayedStep
<1> QED
  BY <1>1, IInvAlways, ReplayedInit, PTL DEF Spec

(* Repeated requests that do not overlap, even after requests that ended   *)
(* halfway, find the asset they found before and are never refused.        *)
THEOREM SameAssetFound == Spec => []ReplaysFindTheAsset
<1>1. (~overlapped => Replayed) => ReplaysFindTheAsset
  BY DEF Replayed, Disjoint, ReplaysFindTheAsset
<1> QED
  BY <1>1, ReplayedAlways, PTL

(* What was acknowledged stays known while requests do not overlap.        *)
THEOREM AnsweredStaysKnown == Spec => []AnsweredIsKnown
<1>1. (~overlapped => Replayed) => AnsweredIsKnown
  BY DEF Replayed, Known, Covers, AnsweredIsKnown, WithAddress
<1> QED
  BY <1>1, ReplayedAlways, PTL

-----------------------------------------------------------------------------
(* Facts reported once.  An event is either about a fact its asset shows   *)
(* by now, or about one the request under way is still going to save; one  *)
(* that is cut short there would find the fact missing and report it again.*)
Reporting(x, a, f) ==
  x.pc \in {"drift", "asset"} /\ x.asset = a /\ f \in x.row.facts \ x.unsaved

ToReport(x) ==
  x.pc = "drift" => /\ x.unsaved \cap Facts \subseteq x.row.facts
                    /\ \A f \in x.unsaved \cap Facts : drift[x.asset][f] = 0

Once ==
  /\ \A a \in Assets, f \in Facts :
       /\ drift[a][f] <= 1
       /\ drift[a][f] > 0 =>
            f \in assets[a].facts \/ \E h \in Handlers : Reporting(handlers[h], a, f)
  /\ \A h \in Handlers : ToReport(handlers[h])

LEMMA OnceInit == Init => Once
BY DEF Init, Once, ToReport, Free, Reports

LEMMA OnceGoesOn ==
  ASSUME IInv, Replayed, Once, NEW h \in Handlers, ~At(h, "free"), NEW x, Become(h, x),
         ToReport(x),
         \A a \in Assets, f \in Facts :
           Reporting(handlers[h], a, f) => Reporting(x, a, f),
         UNCHANGED <<assets, drift>>
  PROVE  Once'
<1>1. /\ handlers'[h] = x
      /\ \A k \in Handlers \ {h} : handlers'[k] = handlers[k] /\ handlers'[k].pc = "free"
  BY MovesAlone
<1>2. \A k \in Handlers : ToReport(handlers[k])'
  BY <1>1 DEF ToReport
<1>3. ASSUME NEW a \in Assets, NEW f \in Facts, drift[a][f] > 0
      PROVE  f \in assets[a].facts \/ \E k \in Handlers : Reporting(handlers[k], a, f)'
  <2>1. CASE f \in assets[a].facts
    BY <2>1
  <2>2. ASSUME NEW k \in Handlers, Reporting(handlers[k], a, f)
        PROVE  \E g \in Handlers : Reporting(handlers[g], a, f)'
    <3>1. k = h
      BY <1>1, <2>2 DEF Reporting
    <3>2. Reporting(x, a, f)
      BY <2>2, <3>1
    <3>3. Reporting(handlers[h], a, f)'
      BY <1>1, <3>2 DEF Reporting
    <3> QED
      BY <3>3
  <2> QED
    BY <1>3, <2>1, <2>2 DEF Once
<1> QED
  BY <1>2, <1>3 DEF Once

LEMMA FoundOnce ==
  ASSUME IInv, Replayed, Once, NEW h \in Handlers, handlers[h].pc \in {"address", "name"},
         NEW a \in Assets, Found(h, a), UNCHANGED <<assets, drift>>
  PROVE  Once'
<1> DEFINE o == Seen(h)
           new == Changes(o, assets[a])
           x == [handlers[h] EXCEPT
                  !.pc = IF new = {} THEN "asset" ELSE "drift",
                  !.asset = a, !.row = Merged(o, assets[a]), !.changes = new, !.unsaved = new]
<1>0. Become(h, x) /\ ~At(h, "free")
  BY DEF Found, At
<1>1. handlers[h] \in HandlerState /\ o \in Observations
  BY DEF IInv, TypeInv, TypeOK, Busy
<1>2. x.asset = a /\ x.row = Merged(o, assets[a]) /\ x.unsaved = new
  BY <1>1 DEF HandlerState
<1>3. /\ new \cap Facts \subseteq Merged(o, assets[a]).facts
      /\ new \cap Facts \cap assets[a].facts = {}
  BY <1>1, IngestAssumption DEF Changes, Losses, Merged
<1>4. \A b \in Assets, f \in Facts, k \in Handlers : ~Reporting(handlers[k], b, f)
  BY <1>0 DEF Reporting, Replayed, Alone, At
<1>5. \A f \in new \cap Facts : drift[a][f] = 0
  BY <1>3, <1>4 DEF Once, IInv, TypeInv, TypeOK, Reports
<1> HIDE DEF x, new
<1>6. ToReport(x)
  BY <1>2, <1>3, <1>5 DEF ToReport
<1> QED
  BY <1>0, <1>4, <1>6, OnceGoesOn

LEMMA SaveDriftOnce ==
  ASSUME IInv, Replayed, Once, NEW h \in Handlers, NEW f \in Reports, SaveDrift(h, f)
  PROVE  Once'
<1>0. PICK b \in Assets : b = handlers[h].asset
  BY DEF SaveDrift, At, IInv, TypeInv, Busy
<1> DEFINE x == [handlers[h] EXCEPT
                  !.pc = IF handlers[h].unsaved = {f} THEN "asset" ELSE "drift",
                  !.unsaved = @ \ {f}]
<1>1. /\ handlers[h] \in HandlerState /\ handlers[h].pc = "drift" /\ ~At(h, "free")
      /\ f \in handlers[h].unsaved
  BY DEF SaveDrift, At, IInv, TypeInv, TypeOK
<1>2. Become(h, x) /\ assets' = assets
  BY DEF SaveDrift
<1>3. /\ x.pc = IF handlers[h].unsaved = {f} THEN "asset" ELSE "drift"
      /\ x.unsaved = handlers[h].unsaved \ {f}
      /\ x.asset = b /\ x.row = handlers[h].row
  BY <1>0, <1>1 DEF HandlerState
<1>4. drift' = [drift EXCEPT ![b][f] = @ + 1]
  BY <1>0 DEF SaveDrift
<1>5. \A a \in Assets, g \in Facts :
        drift'[a][g] = IF a = b /\ g = f THEN drift[a][g] + 1 ELSE drift[a][g]
  BY <1>4 DEF IInv, TypeInv, TypeOK
<1>6. /\ f \in Facts => drift[b][f] = 0
      /\ handlers[h].unsaved \cap Facts \subseteq handlers[h].row.facts
      /\ \A g \in handlers[h].unsaved \cap Facts : drift[b][g] = 0
  BY <1>0, <1>1 DEF Once, ToReport, HandlerState
<1>7. /\ handlers'[h] = x
      /\ \A k \in Handlers \ {h} : handlers'[k] = handlers[k] /\ handlers'[k].pc = "free"
  BY <1>1, <1>2, MovesAlone
<1> HIDE DEF x
<1>8. \A k \in Handlers : ToReport(handlers[k])'
  <2>1. \A g \in x.unsaved \cap Facts : drift'[b][g] = 0
    BY <1>3, <1>5, <1>6
  <2> QED
    BY <1>3, <1>6, <1>7, <2>1 DEF ToReport
<1>9. ASSUME NEW a \in Assets, NEW g \in Facts
      PROVE  /\ drift'[a][g] <= 1
             /\ drift'[a][g] > 0 =>
                  g \in assets'[a].facts \/ \E k \in Handlers : Reporting(handlers[k], a, g)'
  <2>1. CASE a = b /\ g = f
    <3>1. drift'[a][g] = 1
      BY <1>5, <1>6, <2>1
    <3>2. Reporting(handlers[h], a, g)'
      BY <1>1, <1>3, <1>6, <1>7, <2>1 DEF Reporting
    <3> QED
      BY <3>1, <3>2
  <2>2. CASE ~(a = b /\ g = f)
    <3>1. drift'[a][g] = drift[a][g] /\ assets' = assets
      BY <1>2, <1>5, <2>2
    <3>2. \A k \in Handlers : Reporting(handlers[k], a, g) => Reporting(handlers[k], a, g)'
      BY <1>0, <1>1, <1>3, <1>7 DEF Reporting
    <3> QED
      BY <3>1, <3>2 DEF Once
  <2> QED
    BY <2>1, <2>2
<1> QED
  BY <1>8, <1>9 DEF Once

LEMMA SaveAssetOnce ==
  ASSUME IInv, Replayed, Once, NEW h \in Handlers, SaveAsset(h)
  PROVE  Once'
<1>0. PICK b \in Assets : b = handlers[h].asset
  BY DEF SaveAsset, At, IInv, TypeInv, Busy
<1> DEFINE x == [handlers[h] EXCEPT !.pc = IF Seen(h) \in Flagged THEN "finding" ELSE "review"]
<1>1. handlers[h] \in HandlerState /\ handlers[h].pc = "asset" /\ ~At(h, "free")
  BY DEF SaveAsset, At, IInv, TypeInv, TypeOK
<1>2. drift' = drift /\ Become(h, x)
  BY DEF SaveAsset, Goto
<1>3. assets'[b] = handlers[h].row /\ \A a \in Assets \ {b} : assets'[a] = assets[a]
  BY <1>0 DEF SaveAsset, IInv, TypeInv, TypeOK
<1>4. x.pc \in {"finding", "review"}
  BY <1>1 DEF HandlerState
<1>5. /\ handlers'[h] = x
      /\ \A k \in Handlers \ {h} : handlers'[k] = handlers[k] /\ handlers'[k].pc = "free"
  BY <1>1, <1>2, MovesAlone
<1> HIDE DEF x
<1>6. \A k \in Handlers : ToReport(handlers[k])'
  BY <1>4, <1>5 DEF ToReport
<1>7. assets[b].facts \subseteq handlers[h].row.facts
  BY <1>0, <1>1 DEF Replayed, SoleRequest, Within, IInv, AssetSafe
<1>8. ASSUME NEW a \in Assets, NEW f \in Facts, drift[a][f] > 0
      PROVE  f \in assets'[a].facts
  <2>1. CASE f \in assets[a].facts
    BY <1>3, <1>7, <2>1
  <2>2. ASSUME NEW k \in Handlers, Reporting(handlers[k], a, f)
        PROVE  f \in assets'[a].facts
    <3>1. k = h
      BY <1>5, <2>2 DEF Reporting
    <3> QED
      BY <1>0, <1>3, <2>2, <3>1 DEF Reporting
  <2> QED
    BY <1>8, <2>1, <2>2 DEF Once
<1> QED
  BY <1>2, <1>6, <1>8 DEF Once

LEMMA OnceStep ==
  ASSUME IInv, Replayed, Once, [Next]_vars, ~overlapped', faults' = faults
  PROVE  Once'
<1> USE DEF tables, histories
<1>1. ASSUME NEW h \in Handlers, NEW o \in Observations, Receive(h, o) PROVE Once'
  <2>1. /\ handlers'[h].pc = "save"
        /\ \A k \in Handlers \ {h} : handlers'[k] = handlers[k]
    BY <1>1 DEF Receive, Become, Free, IInv, TypeInv, TypeOK
  <2>2. \A k \in Handlers : handlers[k].pc = "free"
    BY <1>1 DEF Receive, At
  <2>3. \A k \in Handlers : ToReport(handlers[k])'
    BY <2>1, <2>2 DEF ToReport
  <2>4. \A a \in Assets, f \in Facts, k \in Handlers : ~Reporting(handlers[k], a, f)
    BY <2>2 DEF Reporting
  <2> QED
    BY <1>1, <2>3, <2>4 DEF Receive, Once
<1>2. ASSUME NEW h \in Handlers, handlers[h].pc \notin {"free", "drift", "asset"},
             NEW x, Become(h, x), x.pc # "drift", UNCHANGED <<assets, drift>>
      PROVE  Once'
  BY <1>2, OnceGoesOn DEF ToReport, Reporting, At
<1>3. ASSUME NEW h \in Handlers, SaveObservation(h) PROVE Once'
  <2>1. [handlers[h] EXCEPT !.pc = "address", !.names = NamesOf[Seen(h)]].pc = "address"
    BY DEF IInv, TypeInv, TypeOK, HandlerState
  <2> QED
    BY <1>2, <1>3, <2>1 DEF SaveObservation, At
<1>4. ASSUME NEW h \in Handlers, FindByAddress(h) PROVE Once'
  <2>1. [handlers[h] EXCEPT !.pc = "name"].pc = "name"
    BY DEF IInv, TypeInv, TypeOK, HandlerState
  <2>2. ASSUME NEW a \in Assets, Found(h, a) PROVE Once'
    BY <1>4, <2>2, FoundOnce DEF FindByAddress, At
  <2> QED
    BY <1>2, <1>4, <2>1, <2>2 DEF FindByAddress, WithAddress, Goto, At
<1>5. ASSUME NEW h \in Handlers, NEW n \in Names, FindByName(h, n) PROVE Once'
  <2>1. [handlers[h] EXCEPT !.names = @ \ {n}].pc = "name"
    BY <1>5 DEF FindByName, At, IInv, TypeInv, TypeOK, HandlerState
  <2>2. ASSUME NEW a \in Assets, Found(h, a) PROVE Once'
    BY <1>5, <2>2, FoundOnce DEF FindByName, At
  <2> QED
    BY <1>2, <1>5, <2>1, <2>2 DEF FindByName, WithName, At
<1>6. ASSUME NEW h \in Handlers, NEW a \in Assets, Discover(h, a) PROVE Once'
  <2>1. [handlers[h] EXCEPT !.pc = "asset", !.asset = a, !.row = NewRow(Seen(h))].pc = "asset"
    BY DEF IInv, TypeInv, TypeOK, HandlerState
  <2> QED
    BY <1>2, <1>6, <2>1 DEF Discover, At
<1>7. ASSUME NEW h \in Handlers, SaveFinding(h) PROVE Once'
  <2>1. [handlers[h] EXCEPT !.pc = "link"].pc = "link"
    BY DEF IInv, TypeInv, TypeOK, HandlerState
  <2> QED
    BY <1>2, <1>7, <2>1 DEF SaveFinding, Goto, At
<1>8. ASSUME NEW h \in Handlers, LinkAsset(h) PROVE Once'
  <2>1. [handlers[h] EXCEPT !.pc = "review"].pc = "review" /\ Free.pc = "free"
    BY DEF IInv, TypeInv, TypeOK, HandlerState, Free
  <2> QED
    BY <1>2, <1>8, <2>1 DEF LinkAsset, Goto, At
<1>9. ASSUME NEW h \in Handlers, Review(h) PROVE Once'
  <2>1. Free.pc = "free"
    BY DEF Free
  <2> QED
    BY <1>2, <1>9, <2>1 DEF Review, At
<1>10. ASSUME NEW h \in Handlers, Abort(h) PROVE FALSE
  BY <1>10 DEF Abort, IInv, TypeInv, TypeOK
<1>11. CASE UNCHANGED vars
  BY <1>11 DEF vars, Once, ToReport, Reporting
<1> QED
  BY <1>1, <1>3, <1>4, <1>5, <1>6, <1>7, <1>8, <1>9, <1>10, <1>11,
     SaveDriftOnce, SaveAssetOnce DEF Next, HandlerStep

(* An overlap and an early end are never forgotten. *)
LEMMA HistoriesGrow ==
  ASSUME TypeInv, [Next]_vars
  PROVE  /\ ~overlapped' => ~overlapped
         /\ faults' = 0 => faults = 0
<1>1. faults \in Nat
  BY DEF TypeInv, TypeOK
<1>2. \/ UNCHANGED <<overlapped, faults>>
      \/ (overlapped => overlapped') /\ faults' = faults
      \/ overlapped' = overlapped /\ faults' = faults + 1
  BY DEF Next, HandlerStep, Receive, SaveObservation, FindByAddress, FindByName, Discover,
         SaveDrift, SaveAsset, SaveFinding, LinkAsset, Review, Abort, vars, histories
<1>3. faults' = 0 => faults = 0
  <2>1. faults' \in {faults, faults + 1}
    BY <1>2
  <2> QED
    BY <1>1, <2>1
<1>4. ~overlapped' => ~overlapped
  BY <1>2
<1> QED
  BY <1>3, <1>4

(* Requests that neither overlap nor are cut short report a new version,   *)
(* cipher suite or certificate of an asset once.                           *)
THEOREM ReportedOnce == Spec => []ChangesReportedOnce
<1> DEFINE OnceInv == ~overlapped /\ faults = 0 => Once
<1>1. Init => OnceInv
  BY OnceInit
<1>2. IInv /\ (~overlapped => Replayed) /\ OnceInv /\ [Next]_vars => OnceInv'
  <2>1. IInv => TypeInv
    BY DEF IInv
  <2> QED
    BY <2>1, HistoriesGrow, OnceStep
<1>3. OnceInv => ChangesReportedOnce
  BY DEF Once, ChangesReportedOnce
<1> QED
  BY <1>1, <1>2, <1>3, IInvAlways, ReplayedAlways, PTL DEF Spec
=============================================================================
