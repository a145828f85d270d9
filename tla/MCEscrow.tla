------------------------------ MODULE MCEscrow ------------------------------
(***************************************************************************)
(* Escrow for TLC.  Two jobs at a time overlap in every pair of kinds, a   *)
(* deposit of two cents leaves room for a partial refund and for a charge  *)
(* that depletes it, and one fault loses one answer or one job.            *)
(***************************************************************************)
EXTENDS Escrow, TLC

CONSTANTS w1, w2

MCWorker == {w1, w2}
MCCharge == {1, 2}
=============================================================================
