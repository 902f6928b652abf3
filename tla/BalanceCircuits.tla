---------------------------- MODULE BalanceCircuits ----------------------------
(***************************************************************************)
(* The arithmetic of the two circuits: a 64-bit amount is a pair of 32-bit  *)
(* limbs, and a proof shows old = new + amount.  A circuit computes in a    *)
(* prime field, where 0 - 1 is a large number; the range checks on the      *)
(* limbs are what keeps the equation one of integers.  SHA-256 is external: *)
(* the digest of two different inputs is never the same.                    *)
(***************************************************************************)
EXTENDS Integers

CONSTANTS
    LIMB,                \* values of a limb, 2^32 in the code
    FIELD                \* order of the circuit's field

(* The sum of two amounts does not wrap: 2^65 is far below the field's order. *)
ASSUME FieldAssumption ==
    /\ LIMB \in Nat \ {0}
    /\ FIELD \in Nat
    /\ FIELD > 2 * (LIMB * LIMB)

Field == 0 .. FIELD - 1
Limb == 0 .. LIMB - 1

(* What a prover knows of the balance: limbs, as field elements.             *)
Witness == [old_lo: Field, old_hi: Field, new_lo: Field, new_hi: Field,
            amount_lo: Field, amount_hi: Field]

Total(lo, hi) == lo + hi * LIMB

(* Mutated form of splitAmount: the high limb is not shifted.                *)
splitAmountUnshifted(amount) == [lo |-> amount % LIMB, hi |-> amount]

splitAmount(amount) == [lo |-> amount % LIMB, hi |-> amount \div LIMB]

(* Mutated form of RangeChecks: the high limb of the new balance is free.    *)
RangeChecksFreeHigh(w) ==
    /\ w.old_lo \in Limb /\ w.old_hi \in Limb
    /\ w.new_lo \in Limb
    /\ w.amount_lo \in Limb /\ w.amount_hi \in Limb

(* Num2Bits(32) on every limb.                                               *)
RangeChecks(w) ==
    /\ w.old_lo \in Limb /\ w.old_hi \in Limb
    /\ w.new_lo \in Limb /\ w.new_hi \in Limb
    /\ w.amount_lo \in Limb /\ w.amount_hi \in Limb

TransitionHolds(w) ==
    /\ Total(w.old_lo, w.old_hi) % FIELD
         = (Total(w.new_lo, w.new_hi) + Total(w.amount_lo, w.amount_hi)) % FIELD
    /\ RangeChecks(w)

(* Mutated form of WithdrawWitness: the limbs are subtracted without borrow.  *)
WithdrawWitnessNoBorrow(lo, hi, amount) ==
    LET a == splitAmount(amount)
    IN  [old_lo |-> lo, old_hi |-> hi,
         new_lo |-> (lo - a.lo) % FIELD, new_hi |-> (hi - a.hi) % FIELD,
         amount_lo |-> a.lo, amount_hi |-> a.hi]

(* What the browser proves of a withdrawal from a balance it has decrypted.  *)
WithdrawWitness(lo, hi, amount) ==
    LET rest == splitAmount(Total(lo, hi) - amount)
        a == splitAmount(amount)
    IN  [old_lo |-> lo, old_hi |-> hi, new_lo |-> rest.lo, new_hi |-> rest.hi,
         amount_lo |-> a.lo, amount_hi |-> a.hi]

(* Sixteen bytes each of a digest, read as a big-endian number.              *)
Digest(input) == [upper |-> <<"upper", input>>, lower |-> <<"lower", input>>]

(* withdraw_balance_check: bound to the ciphertexts of the two limbs by bits *)
(* 128 to 255 of the digest of each, in SHA-256's order: the lower half, as  *)
(* in the other circuit.                                                     *)
WithdrawCircuit(w, ct_lo, ct_hi, public) ==
    /\ TransitionHolds(w)
    /\ public.lo = Digest(ct_lo).lower
    /\ public.hi = Digest(ct_hi).lower

(* The public inputs of a withdrawal, made by the browser and by the chain:  *)
(* bytes 0 to 15 of each digest.                                             *)
WithdrawInputs(ct_lo, ct_hi) ==
    [lo |-> Digest(ct_lo).upper, hi |-> Digest(ct_hi).upper]

(* balance_transition_private: bound to one commitment, whose preimage it    *)
(* hashes bit by bit.                                                        *)
SettleCircuit(w, transfers, preimage, public) ==
    /\ TransitionHolds(w)
    /\ \A limb \in transfers : limb \in Limb
    /\ public.lo = Digest(preimage).lower
    /\ public.hi = Digest(preimage).upper

-----------------------------------------------------------------------------

(* A subtraction of integers that takes no more than there is.                *)
Subtracts(w) ==
    /\ Total(w.old_lo, w.old_hi)
         = Total(w.new_lo, w.new_hi) + Total(w.amount_lo, w.amount_hi)
    /\ Total(w.amount_lo, w.amount_hi) <= Total(w.old_lo, w.old_hi)

(* Whatever does not exceed the balance can be taken off it: the browser's   *)
(* witness satisfies the equation and the range checks, a borrow between the *)
(* limbs included.                                                           *)
Withdrawable(lo, hi, amount) ==
    amount <= Total(lo, hi) => TransitionHolds(WithdrawWitness(lo, hi, amount))
=============================================================================
