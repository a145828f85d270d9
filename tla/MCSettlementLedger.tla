------------------------ MODULE MCSettlementLedger ------------------------
(***************************************************************************)
(* SettlementLedger for TLC.  Two keys share a sweep of one row at a time; *)
(* two amounts let a retry come with a figure of its own; two steps of age *)
(* separate a young row, a row the sweep may take and a row past the       *)
(* budget; and one fault of any kind can strike at any point.              *)
(***************************************************************************)
EXTENDS SettlementLedger, TLC

CONSTANTS s1, r1, k1, k2, none

MCSettler    == {s1}
MCReconciler == {r1}
MCKey        == {k1, k2}
MCAmount     == {1, 2}
=============================================================================
