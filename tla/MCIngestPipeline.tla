-------------------------- MODULE MCIngestPipeline --------------------------
(***************************************************************************)
(* Small instances of IngestPipeline for TLC: a server seen without TLS,   *)
(* the same server with a certificate and forward secrecy, and its name at *)
(* another address, without it.                                            *)
(***************************************************************************)
EXTENDS IngestPipeline, TLC

CONSTANTS plain, secure, moved, x1, x2, n1, f1, f2, r1, r2

MCAddressOf == (plain :> x1) @@ (secure :> x1) @@ (moved :> x2)
MCNamesOf == (plain :> {}) @@ (secure :> {n1}) @@ (moved :> {n1})
MCFactsOf == (plain :> {}) @@ (secure :> {f1}) @@ (moved :> {f2})
MCRuleOf == (plain :> r1) @@ (secure :> NoRule) @@ (moved :> r2)

Symmetry == Permutations(Handlers) \cup Permutations(Assets)
=============================================================================
