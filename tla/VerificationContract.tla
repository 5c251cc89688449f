----------------------- MODULE VerificationContract -----------------------
(***************************************************************************)
(* What the remediation lifecycle promises, as if every operation took     *)
(* effect at one instant: a fix is applied any number of times while       *)
(* nothing is being verified, each request opens one attempt, one attempt  *)
(* is open at a time, and an attempt is closed once, with an outcome that  *)
(* becomes the state of the fix.  The one exception is a fix verified      *)
(* elsewhere that is sent again: it is what it was when it came, the       *)
(* attempts made since are forgotten, and nothing is promised from then on.*)
(***************************************************************************)
CONSTANTS
  Requests,     \* client-chosen verification request ids
  Outcomes      \* how an attempt may end

VARIABLES
  state,        \* the state of the fix
  outcome,      \* the attempts: "none", "open" or how it ended
  replaced      \* whether attempts were forgotten

vars == <<state, outcome, replaced>>

Init ==
  /\ state = "Absent"
  /\ outcome = [r \in Requests |-> "none"]
  /\ replaced = FALSE

Start ==
  /\ state = "Absent"
  /\ state' = "InProgress"
  /\ UNCHANGED outcome

\* A fix verified elsewhere arrives with its only attempt.
Import(r, o) ==
  /\ state = "Absent"
  /\ state' = o
  /\ outcome' = [outcome EXCEPT ![r] = o]

Apply ==
  /\ state \notin {"Absent", "Verifying"}
  /\ state' = "Applied"
  /\ UNCHANGED outcome

Request(r) ==
  /\ state \notin {"Absent", "InProgress", "Verifying"}
  /\ outcome[r] = "none"
  /\ state' = "Verifying"
  /\ outcome' = [outcome EXCEPT ![r] = "open"]

Close(r, o) ==
  /\ state = "Verifying"
  /\ outcome[r] = "open"
  /\ state' = o
  /\ outcome' = [outcome EXCEPT ![r] = o]

\* The attempt it came with is known and has the same outcome.
Replace(r, o) ==
  /\ outcome[r] = o
  /\ state' = o
  /\ outcome' = [q \in Requests |-> IF q = r THEN o ELSE "none"]
  /\ replaced' = TRUE

Kept ==
  \/ Start
  \/ Apply
  \/ \E r \in Requests : Request(r)
  \/ \E r \in Requests, o \in Outcomes : Import(r, o) \/ Close(r, o)

Next ==
  \/ ~replaced /\ Kept /\ UNCHANGED replaced
  \/ ~replaced /\ \E r \in Requests, o \in Outcomes : Replace(r, o)
  \/ replaced /\ UNCHANGED replaced

Spec == Init /\ [][Next]_vars
=============================================================================
