---------------------------- MODULE MCAgentJobs ----------------------------
(***************************************************************************)
(* Small instances of AgentJobs for TLC.                                   *)
(***************************************************************************)
EXTENDS AgentJobs, TLC

HandlerSymmetry == Permutations(Handlers)
JobSymmetry == Permutations(Jobs)
=============================================================================
