------------------------------ MODULE MCClients ------------------------------
(* TLC instance of SettleClients: one initiator and one counterparty, who is  *)
(* also the scripts'.                                                        *)
EXTENDS SettleClients, TLC

CONSTANTS alice, bob, usdc

TheLedger == <<alice, usdc>>

(* Amounts are interchangeable, and so are the calls of executeSettle.       *)
Symmetry == Permutations(Hashes) \cup Permutations(Runs)

(* Bound: one refusal is taken for a success, and no other deal follows.      *)
OneMiss ==
    missed = {} \/ (Cardinality(missed) = 1 /\ \A u \in Users : lastNonce[u] <= 1)
=============================================================================
