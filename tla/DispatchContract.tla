-------------------------- MODULE DispatchContract --------------------------
(***************************************************************************)
(* What dispatch promises to whoever asked for a check, without leases,    *)
(* polls, handlers or companions: an accepted check is handed to its       *)
(* device at most once and only while it is fresh, it may be settled with  *)
(* or without having been handed out, and a settled check stays settled.   *)
(***************************************************************************)
EXTENDS Integers

CONSTANTS
  Jobs,
  Freshness      \* age up to which a check may be handed to its device

VARIABLES
  phase,         \* how far each check has come
  accepted,      \* when it was accepted
  clock

vars == <<phase, accepted, clock>>

Init ==
  /\ phase = [j \in Jobs |-> "absent"]
  /\ accepted = [j \in Jobs |-> 0]
  /\ clock = 0

Accept(j) ==
  /\ phase[j] = "absent"
  /\ phase' = [phase EXCEPT ![j] = "waiting"]
  /\ \E t \in 0 .. clock : accepted' = [accepted EXCEPT ![j] = t]
  /\ UNCHANGED clock

Hand(j) ==
  /\ phase[j] = "waiting"
  /\ clock - accepted[j] <= Freshness
  /\ phase' = [phase EXCEPT ![j] = "handed"]
  /\ UNCHANGED <<accepted, clock>>

Settle(S) ==
  /\ \A j \in S : phase[j] # "absent"
  /\ phase' = [j \in Jobs |-> IF j \in S THEN "settled" ELSE phase[j]]
  /\ UNCHANGED <<accepted, clock>>

Advance ==
  /\ clock' = clock + 1
  /\ UNCHANGED <<phase, accepted>>

Next ==
  \/ \E j \in Jobs : Accept(j) \/ Hand(j)
  \/ \E S \in SUBSET Jobs : Settle(S)
  \/ Advance

Spec == Init /\ [][Next]_vars
=============================================================================
