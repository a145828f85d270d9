-------------------------- MODULE MCAkashPipeline --------------------------
(***************************************************************************)
(* AkashPipeline for TLC: two handlers at a time and one retry.  A fault   *)
(* forks at most one row per retry and one deployment per row, so that the *)
(* bounds on rows and deployments are never what stops a handler.          *)
(***************************************************************************)
EXTENDS AkashPipeline, TLC

Sym == Permutations(Worker)
MCMaxRows == 1 + MaxRetry * (1 + MaxFaults)
MCMaxDseq == MCMaxRows + MaxFaults
=============================================================================
