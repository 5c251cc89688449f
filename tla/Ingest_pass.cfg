\* Three observations, two requests at once; of five requests two may end early.
CONSTANTS
  Handlers = {h1, h2}
  plain = plain
  secure = secure
  moved = moved
  x1 = x1
  x2 = x2
  n1 = n1
  f1 = f1
  f2 = f2
  Observations = {plain, secure, moved}
  Assets = {a1, a2, a3}
  Addresses = {x1, x2}
  Names = {n1}
  Facts = {f1, f2}
  AddressOf <- MCAddressOf
  NamesOf <- MCNamesOf
  FactsOf <- MCFactsOf
  RuleOf <- MCRuleOf
  NoRule = NoRule
  Rules = {r1, r2}
  r1 = r1
  r2 = r2
  Weak = {moved}
  Forward = {f1}
  ForwardSecrecyLost = ForwardSecrecyLost
  NoAsset = NoAsset
  NoObservation = NoObservation
  MaxRequests = 5
  MaxFaults = 2
SPECIFICATION Spec
INVARIANT TypeOK
INVARIANT NoSilentChange
INVARIANT AnsweredIsReviewed
INVARIANT ReplaysFindTheAsset
INVARIANT ChangesReportedOnce
INVARIANT AnsweredIsKnown
SYMMETRY Symmetry
CHECK_DEADLOCK FALSE
