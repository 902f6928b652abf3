----------------------------- MODULE MCRegulator -----------------------------
(* TLC instance of Regulator: two deals, two wallets, and a ledger that is    *)
(* side b of the first deal and side a of the second.  Key 5 is 1 modulo 4,  *)
(* the case in which 64 zero bytes decrypt to 0; with the wrong key these     *)
(* ciphertexts are far from any 32-bit limb.                                 *)
EXTENDS Regulator, TLC, Folds, Functions

CONSTANTS d1, d2, w1, w2, l1, l2, l3

LedgersOfDeals == (d1 :> [s \in Sides |-> IF s = "a" THEN l1 ELSE l2]) @@
                  (d2 :> [s \in Sides |-> IF s = "a" THEN l2 ELSE l3])
Amounts == (d1 :> [s \in Sides |-> IF s = "a" THEN 6 ELSE 0]) @@
           (d2 :> [s \in Sides |-> IF s = "a" THEN 3 ELSE 12])
SecretKeys == (w1 :> 5) @@ (w2 :> 3)

(* Ledgers of an old size, and deposits that open a balance: the versions     *)
(* are two for each deal, and one for each deposit.                          *)
OldLedgers == {l \in Ledgers : ledger[l].size < LEDGER_LEN}
Deposits ==
    FoldFunction(+, 0, [l \in Ledgers |-> ledger[l].version]) - 2 * Cardinality(DOMAIN records)

(* One of either at most.                                                    *)
OneOldLedgerOrDeposit == Cardinality(OldLedgers) + Deposits <= 1
=============================================================================
