------------------------------ MODULE MCPrivate ------------------------------
(* TLC instances of PrivateBalance.                                          *)
EXTENDS PrivateBalance, TLC

KeySymmetry == Permutations(ElGamalKeys)

=============================================================================
