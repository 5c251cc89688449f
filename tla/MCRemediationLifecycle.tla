---------------------- MODULE MCRemediationLifecycle ----------------------
(***************************************************************************)
(* Small instances of RemediationLifecycle for TLC.                        *)
(***************************************************************************)
EXTENDS RemediationLifecycle, TLC

Symmetry == Permutations(Workers) \cup Permutations(Requests) \cup Permutations(Probes)
=============================================================================
