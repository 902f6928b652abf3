------------------------------- MODULE MCHook -------------------------------
(* TLC instances of SettleHook.                                              *)
EXTENDS SettleHook, TLC

RunSymmetry == Permutations(Runs)

(* Bound: two executions of one deal, or two deals with one execution, beside *)
(* transactions that land late; not both at once.                            *)
TwoExecutionsOrTwoDeals ==
    \/ Cardinality({r \in Runs : captured[r] # NoDeal}) <= 1
    \/ \A s \in MySlots : (Exists(s) \/ deal = s) => NonceOf(s) = 1

=============================================================================
