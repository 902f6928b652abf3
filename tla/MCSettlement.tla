----------------------------- MODULE MCSettlement -----------------------------
(* TLC instance of SettlementProgram and its refinement of OtcDeals.  Users   *)
(* are not made symmetric: liveness is checked in the same run.              *)
EXTENDS SettlementRefinement
=============================================================================
