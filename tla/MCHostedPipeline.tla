-------------------------- MODULE MCHostedPipeline --------------------------
(* Two rows (a deployment and its retry, or two deployments), two machines. *)
EXTENDS HostedPipeline
=============================================================================
