------------------------- MODULE SettlementRefinement -------------------------
(* The accounts of SettlementProgram seen as the deals of OtcDeals: an offer *)
(* is a PendingInitiator ledger, a deal is a BothLocked slot with the two    *)
(* ledgers it names, and a ledger's version counts its settlements.          *)
EXTENDS SettlementProgram

Offers == {l \in Ledgers : ledger[l].status = "PendingInitiator"}
DealOf(s) == <<LedgerA(s), LedgerB(s)>>
Deals == {DealOf(s) : s \in {t \in Slots : BothLocked(t)}}
Settlements == [l \in Ledgers |-> ledger[l].version]

Abs == INSTANCE OtcDeals
         WITH Parties <- Ledgers, offers <- Offers, deals <- Deals,
              settled <- Settlements

(* README "Both parties' encrypted balances freeze simultaneously": every    *)
(* instruction of the program is a step of a bilateral deal or invisible to  *)
(* it; in particular accept_commit locks two ledgers that were in no other   *)
(* deal, and execute and cancel_mutual end exactly one deal.                 *)
RefinesOtcDeals == Abs!DealsSpec
=============================================================================
