---- MODULE MCStoreAgreement ----
EXTENDS StoreAgreement

\* The families, each exercised on its own
AllFamilies ==
  {"assets", "certificates", "sensors", "findings", "sessions", "domains", "policies", "transparency",
   "cases", "probes", "training", "remediations", "workspace", "assessments", "organizations",
   "devices", "challenges", "jobs", "monitors"}
TwoIds == {"x", "y"}
\* A job is made, leased, given up or given back, and leased again; a device is
\* revoked and reports again: these take four calls.
CallsOfEach == [f \in AllFamilies |-> IF f \in {"jobs", "devices", "findings", "probes"} THEN 4 ELSE 3]
====
