-------------------------- MODULE MCLeaderElection --------------------------
(***************************************************************************)
(* LeaderElection for TLC.  The unit of time is a third of the poll        *)
(* interval, and the lease outlives two heartbeats, as the code asks for.  *)
(* Of three pods one may lead or have just died while two race for its     *)
(* lease.                                                                  *)
(***************************************************************************)
EXTENDS LeaderElection, TLC

CONSTANTS p1, p2, p3, none

MCPod == {p1, p2, p3}
MCSymmetry == Permutations(MCPod)
=============================================================================
