---------------------------- MODULE MCPaygBilling ----------------------------
(***************************************************************************)
(* PaygBilling for TLC: half-hour ticks, time for two bills, two jobs that *)
(* end the deployment, and one fault or forced cycle.                      *)
(***************************************************************************)
EXTENDS PaygBilling

CONSTANTS s1, s2
=============================================================================
