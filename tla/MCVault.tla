------------------------------- MODULE MCVault -------------------------------
(* TLC instance of VaultProgram.                                             *)
EXTENDS VaultProgram, TLC

VaultSymmetry == Permutations(Users)

=============================================================================
