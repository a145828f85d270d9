------------------------ MODULE MCConcurrencyCounter ------------------------
(***************************************************************************)
(* ConcurrencyCounter for TLC: two deployments against a cap of one, or    *)
(* three against a cap of two; two jobs that end deployments, one fault.   *)
(***************************************************************************)
EXTENDS ConcurrencyCounter

CONSTANTS d1, d2, d3, c1, c2

MCDeployment == {d1, d2, d3}
MCCloser == {c1, c2}
=============================================================================
