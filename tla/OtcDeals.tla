------------------------------- MODULE OtcDeals -------------------------------
(***************************************************************************)
(* What Scheme B promises its users, with no accounts, clock or proofs in   *)
(* sight: a ledger is free, on offer or locked in exactly one deal; a deal   *)
(* locks two ledgers in one step and releases both in one step, settled on   *)
(* both sides or on neither.                                                 *)
(***************************************************************************)
EXTENDS Naturals

CONSTANT Parties     \* the ledgers that trade

VARIABLES
    offers,     \* ledgers whose owner waits for a counterparty
    deals,      \* pairs <<a, b>> of ledgers locked with each other
    settled     \* settlements each ledger took part in

dealVars == <<offers, deals, settled>>

Bound(l) == \E d \in deals : l = d[1] \/ l = d[2]
Free(l) == l \notin offers /\ ~Bound(l)

DealsInit ==
    /\ offers = {}
    /\ deals = {}
    /\ settled = [l \in Parties |-> 0]

Offer(a) ==
    /\ Free(a)
    /\ offers' = offers \cup {a}
    /\ UNCHANGED <<deals, settled>>

Retract(a) ==
    /\ a \in offers
    /\ offers' = offers \ {a}
    /\ UNCHANGED <<deals, settled>>

Lock(a, b) ==
    /\ a \in offers
    /\ Free(b)
    /\ offers' = offers \ {a}
    /\ deals' = deals \cup {<<a, b>>}
    /\ UNCHANGED settled

Settle(a, b) ==
    /\ <<a, b>> \in deals
    /\ deals' = deals \ {<<a, b>>}
    /\ settled' = [settled EXCEPT ![a] = @ + 1, ![b] = @ + 1]
    /\ UNCHANGED offers

Expire(a, b) ==
    /\ <<a, b>> \in deals
    /\ deals' = deals \ {<<a, b>>}
    /\ UNCHANGED <<offers, settled>>

DealsNext ==
    \/ \E a \in Parties : Offer(a) \/ Retract(a)
    \/ \E a, b \in Parties : Lock(a, b) \/ Settle(a, b) \/ Expire(a, b)

DealsSpec == DealsInit /\ [][DealsNext]_dealVars
=============================================================================
