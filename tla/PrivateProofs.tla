----------------------------- MODULE PrivateProofs -----------------------------
(* Theorems about the arithmetic of the circuits and about PrivateBalance: the *)
(* types of its variables, the proofs it accepts, the withdrawals it can prove *)
(* and, from the layouts of the commitment, the deals its parties agree on.    *)
EXTENDS PrivateBalance, CommitmentProofs

(* Below its modulus a number is its own remainder.                          *)
LEMMA SmallRemainder ==
    ASSUME NEW n \in Nat, NEW x \in Nat, x < n
    PROVE  x % n = x
  OBVIOUS

(* Two limbs in range make an amount below LIMB^2.                           *)
LEMMA TotalBound ==
    ASSUME NEW lo \in Limb, NEW hi \in Limb
    PROVE  Total(lo, hi) \in Nat /\ Total(lo, hi) < LIMB * LIMB
<1>1. LIMB \in Nat /\ lo \in Nat /\ hi \in Nat /\ lo < LIMB /\ hi + 1 <= LIMB
  BY FieldAssumption DEF Limb
<1>2. (hi + 1) * LIMB <= LIMB * LIMB
  BY <1>1
<1>3. (hi + 1) * LIMB = hi * LIMB + LIMB
  BY <1>1
<1>4. hi * LIMB \in Nat
  BY <1>1
<1> QED
  BY <1>1, <1>2, <1>3, <1>4 DEF Total

(* The circuits prove a subtraction of integers, for every limb size and     *)
(* every field that is large enough: no accepted witness takes more than the *)
(* old balance holds, whatever limbs the prover chose.                       *)
THEOREM AcceptedIsSubtraction ==
    ASSUME NEW w, TransitionHolds(w)
    PROVE  Subtracts(w)
<1> DEFINE old == Total(w.old_lo, w.old_hi)
           new == Total(w.new_lo, w.new_hi)
           amount == Total(w.amount_lo, w.amount_hi)
           square == LIMB * LIMB
<1>1. RangeChecks(w) /\ old % FIELD = (new + amount) % FIELD
  BY DEF TransitionHolds
<1>2. /\ old \in Nat /\ old < square
      /\ new \in Nat /\ new < square
      /\ amount \in Nat /\ amount < square
  BY <1>1, TotalBound DEF RangeChecks
<1>3. FIELD \in Nat /\ square \in Nat /\ 2 * square < FIELD
  BY FieldAssumption
<1> HIDE DEF old, new, amount, square
<1>4. old < FIELD /\ new + amount < FIELD /\ new + amount \in Nat
  BY <1>2, <1>3
<1>5. old % FIELD = old
  BY <1>2, <1>3, <1>4, SmallRemainder
<1>6. (new + amount) % FIELD = new + amount
  BY <1>3, <1>4, SmallRemainder
<1>7. old = new + amount /\ amount <= old
  BY <1>1, <1>2, <1>5, <1>6
<1> QED
  BY <1>7 DEF Subtracts, old, new, amount

(* An amount below LIMB^2 splits into two limbs in range that add up to it.   *)
LEMMA SplitIsTotal ==
    ASSUME NEW amount \in Nat, amount < LIMB * LIMB
    PROVE  LET a == splitAmount(amount)
           IN  a.lo \in Limb /\ a.hi \in Limb /\ Total(a.lo, a.hi) = amount
<1> DEFINE lo == amount % LIMB
           hi == amount \div LIMB
<1>1. LIMB \in Nat \ {0}
  BY FieldAssumption
<1>2. lo \in 0 .. LIMB - 1 /\ hi \in Int /\ amount = LIMB * hi + lo
  BY <1>1
<1> HIDE DEF lo, hi
<1>3. hi >= 0
  <2> SUFFICES ASSUME hi <= -1 PROVE FALSE
    BY <1>2
  <2>1. LIMB * hi <= LIMB * (-1)
    BY <1>1, <1>2
  <2> QED
    BY <1>1, <1>2, <2>1
<1>4. hi < LIMB
  <2> SUFFICES ASSUME hi >= LIMB PROVE FALSE
    BY <1>1, <1>2
  <2>1. LIMB * hi >= LIMB * LIMB
    BY <1>1, <1>2
  <2> QED
    BY <1>1, <1>2, <2>1
<1>5. lo \in Limb /\ hi \in Limb /\ Total(lo, hi) = amount
  BY <1>1, <1>2, <1>3, <1>4 DEF Limb, Total
<1> QED
  BY <1>5 DEF splitAmount, lo, hi

(* A withdrawal of at most the balance satisfies the circuit's equation and  *)
(* range checks, for every limb size, with the witness the browser builds.   *)
THEOREM BalanceIsWithdrawable ==
    ASSUME NEW lo \in Limb, NEW hi \in Limb, NEW amount \in Nat
    PROVE  Withdrawable(lo, hi, amount)
<1> SUFFICES ASSUME amount <= Total(lo, hi)
             PROVE  TransitionHolds(WithdrawWitness(lo, hi, amount))
  BY DEF Withdrawable
<1> DEFINE rest == splitAmount(Total(lo, hi) - amount)
           a == splitAmount(amount)
           w == WithdrawWitness(lo, hi, amount)
<1>1. Total(lo, hi) \in Nat /\ Total(lo, hi) < LIMB * LIMB
  BY TotalBound
<1>2. Total(lo, hi) - amount \in Nat /\ Total(lo, hi) - amount < LIMB * LIMB
  <2>1. LIMB * LIMB \in Nat
    BY FieldAssumption
  <2> HIDE DEF w
  <2> QED
    BY <1>1, <2>1
<1>3. amount < LIMB * LIMB
  <2>1. LIMB * LIMB \in Nat
    BY FieldAssumption
  <2> QED
    BY <1>1, <2>1
<1>4. rest.lo \in Limb /\ rest.hi \in Limb /\ Total(rest.lo, rest.hi) = Total(lo, hi) - amount
  BY <1>2, SplitIsTotal
<1>5. a.lo \in Limb /\ a.hi \in Limb /\ Total(a.lo, a.hi) = amount
  BY <1>3, SplitIsTotal
<1>6. /\ w.old_lo = lo /\ w.old_hi = hi
      /\ w.new_lo = rest.lo /\ w.new_hi = rest.hi
      /\ w.amount_lo = a.lo /\ w.amount_hi = a.hi
  BY DEF WithdrawWitness
<1> HIDE DEF rest, a, w
<1>7. RangeChecks(w)
  BY <1>4, <1>5, <1>6 DEF RangeChecks
<1>8. Total(w.old_lo, w.old_hi)
        = Total(w.new_lo, w.new_hi) + Total(w.amount_lo, w.amount_hi)
  <2>1. Total(w.new_lo, w.new_hi) = Total(lo, hi) - amount
    BY <1>4, <1>6
  <2>2. Total(w.amount_lo, w.amount_hi) = amount
    BY <1>5, <1>6
  <2>3. Total(w.old_lo, w.old_hi) = Total(lo, hi)
    BY <1>6
  <2> QED
    BY <1>1, <2>1, <2>2, <2>3
<1>9. TransitionHolds(w)
  BY <1>7, <1>8 DEF TransitionHolds
<1> QED
  BY <1>9 DEF w

-----------------------------------------------------------------------------

(* Every 64-bit amount is encrypted as two limbs in range.                    *)
LEMMA EncryptLimbs ==
    ASSUME NEW amount \in DepositAmounts \cup DealAmounts \cup {0}, NEW key
    PROVE  Encrypt(amount, key) \in [key: {key}, lo: Limb, hi: Limb]
<1>1. amount \in Nat /\ amount < LIMB * LIMB
  <2>1. LIMB * LIMB \in Nat /\ LIMB * LIMB > 0
    BY FieldAssumption
  <2> QED
    BY <2>1, AmountAssumption
<1>2. splitAmount(amount).lo \in Limb /\ splitAmount(amount).hi \in Limb
  BY <1>1, SplitIsTotal
<1> QED
  BY <1>2 DEF Encrypt

(* A witness whose limbs are in range is made of field elements.              *)
LEMMA LimbsAreField == Limb \subseteq Field
<1>1. LIMB \in Nat /\ LIMB > 0 /\ FIELD \in Nat /\ FIELD > 2 * (LIMB * LIMB)
  BY FieldAssumption
<1>2. LIMB * LIMB >= LIMB
  BY <1>1
<1> QED
  BY <1>1, <1>2 DEF Limb, Field

(* The types of PrivateBalance: in particular the limbs of every balance are  *)
(* in range after any order of deposits, settlements and failures.            *)
THEOREM PrivateTypesCorrect == Spec => []PrivateTypeOK
<1>1. Init => PrivateTypeOK
  BY DEF Init, PrivateTypeOK
<1>2. PrivateTypeOK /\ [Next]_vars => PrivateTypeOK'
  <2> SUFFICES ASSUME PrivateTypeOK, [Next]_vars
               PROVE  PrivateTypeOK'
    OBVIOUS
  <2> USE DEF PrivateTypeOK
  <2>1. ASSUME NEW m \in Mints, NEW amount \in DepositAmounts,
               DepositToVault(m, amount)
        PROVE  PrivateTypeOK'
    BY <2>1 DEF DepositToVault
  <2>15. ASSUME NEW m \in Mints, InitializeVault(m)
         PROVE  PrivateTypeOK'
    BY <2>15 DEF InitializeVault
  <2>16. ASSUME NEW key \in ElGamalKeys, SubmitDeposit(key)
         PROVE  PrivateTypeOK'
    <3>1. generated \subseteq generated' /\ key \in generated'
      BY <2>16 DEF SubmitDeposit
    <3>2. depositing' \in [mint: Mints, amount: DepositAmounts, key: {key}, at: {"sent"}]
      BY <2>16 DEF SubmitDeposit
    <3>3. balance_ct' \in [Mints -> {None} \cup [key: generated', lo: Limb, hi: Limb]]
      BY <2>16, <3>1 DEF SubmitDeposit
    <3>4. depositing'.key \in generated'
      BY <3>1, <3>2
    <3> QED
      BY <2>16, <3>1, <3>2, <3>3, <3>4 DEF SubmitDeposit
  <2>2. CASE DepositLands
    <3>1. Encrypt(depositing.amount, depositing.key)
            \in [key: generated, lo: Limb, hi: Limb]
      BY <2>2, EncryptLimbs DEF DepositLands
    <3> QED
      BY <2>2, <3>1 DEF DepositLands
  <2>3. CASE DepositReturns
    BY <2>3 DEF DepositReturns
  <2>4. CASE DepositFails
    BY <2>4 DEF DepositFails
  <2>5. ASSUME NEW mint_a \in Mints, NEW mint_b \in OtherMints,
               NEW counterparty \in Counterparties, NEW nonce \in Nonces,
               NEW expiry \in Expiries, NEW amountA \in DealAmounts,
               NEW amountB \in DealAmounts,
               Initiate(Terms(mint_a, mint_b, counterparty, nonce, expiry, amountA, amountB))
        PROVE  PrivateTypeOK'
    BY <2>5 DEF Initiate, Terms
  <2>6. ASSUME NEW amountA \in DealAmounts, NEW amountB \in DealAmounts,
               Accept(amountA, amountB)
        PROVE  PrivateTypeOK'
    <3>1. deal' # None => deal'.terms.asset_a_mint = deal.terms.asset_a_mint
      BY <2>6 DEF Accept
    <3> QED
      BY <2>6, <3>1 DEF Accept
  <2>7. ASSUME NEW key \in ElGamalKeys, ExecuteSettlement(key)
        PROVE  PrivateTypeOK'
    BY <2>7 DEF ExecuteSettlement
  <2>8. CASE ExecuteLands
    <3>1. Encrypt(0, executing) \in [key: generated, lo: Limb, hi: Limb]
      BY <2>8, EncryptLimbs DEF ExecuteLands
    <3> QED
      BY <2>8, <3>1 DEF ExecuteLands
  <2>9. CASE ExecuteFails
    BY <2>9 DEF ExecuteFails
  <2>10. CASE DealEnds
    BY <2>10 DEF DealEnds
  <2>11. ASSUME NEW m \in Mints, NEW amount \in DealAmounts, NEW key \in ElGamalKeys,
                SettledByInitiator(m, amount, key)
         PROVE  PrivateTypeOK'
    <3>1. Encrypt(amount, key) \in [key: generated', lo: Limb, hi: Limb]
      BY <2>11, EncryptLimbs DEF SettledByInitiator
    <3> QED
      BY <2>11, <3>1 DEF SettledByInitiator
  <2>12. ASSUME NEW m \in Mints, NEW amount \in WithdrawAmounts,
                WithdrawFromVault(m, amount)
         PROVE  PrivateTypeOK'
    <3> DEFINE w == WithdrawWitness(balance_ct[m].lo, balance_ct[m].hi, amount)
    <3>1. proof' = None \/ (proof' = w /\ TransitionHolds(w))
      BY <2>12 DEF WithdrawFromVault, browserGenerateWithdrawProof, WithdrawalProved,
         WithdrawCircuit
    <3>2. TransitionHolds(w) => w \in Witness
      BY LimbsAreField DEF TransitionHolds, RangeChecks, WithdrawWitness, Witness
    <3> HIDE DEF w
    <3> QED
      BY <2>12, <3>1, <3>2 DEF WithdrawFromVault
  <2>13. ASSUME NEW w \in Guess, Prove(w)
         PROVE  PrivateTypeOK'
    <3>1. w \in Witness
      BY AmountAssumption DEF Guess, Witness
    <3> QED
      BY <2>13, <3>1 DEF Prove
  <2>14. CASE UNCHANGED vars
    BY <2>14 DEF vars
  <2> QED
    BY <2>1, <2>2, <2>3, <2>4, <2>5, <2>6, <2>7, <2>8, <2>9, <2>10, <2>11, <2>12,
       <2>13, <2>14, <2>15, <2>16 DEF Next, ClickDeposit, ClickWithdraw
<1> QED
  BY <1>1, <1>2, PTL DEF Spec

(* No proof the circuit accepts underflows, whatever limbs its prover chose,  *)
(* for every limb size and every field that is large enough.                  *)
THEOREM ProofsSubtract == Spec => []ProofsNeverUnderflow
<1> DEFINE Accepted == proof # None => TransitionHolds(proof)
<1>1. Init => Accepted
  BY DEF Init
<1>2. Accepted /\ [Next]_vars => Accepted'
  <2> SUFFICES ASSUME Accepted, [Next]_vars
               PROVE  Accepted'
    OBVIOUS
  <2>1. \/ proof' = None \/ proof' = proof
        \/ \E m \in Mints, amount \in WithdrawAmounts : WithdrawFromVault(m, amount)
        \/ \E w \in Guess : Prove(w)
    <3>1. CASE UNCHANGED vars
      BY <3>1 DEF vars
    <3>2. CASE Next
      <4>1. /\ \A m, amount : DepositToVault(m, amount) => proof' = None
            /\ \A m : InitializeVault(m) => proof' = None
            /\ \A key : SubmitDeposit(key) => proof' = None
        BY DEF DepositToVault, InitializeVault, SubmitDeposit
      <4>2. \A terms : Initiate(terms) => proof' = None
        BY DEF Initiate
      <4>3. \A amountA, amountB : Accept(amountA, amountB) => proof' = None
        BY DEF Accept
      <4>4. \A key : ExecuteSettlement(key) => proof' = None
        BY DEF ExecuteSettlement
      <4>5. \A m, amount, key : SettledByInitiator(m, amount, key) => proof' = None
        BY DEF SettledByInitiator
      <4>6. DepositLands \/ DepositReturns \/ DepositFails \/ ExecuteLands \/ ExecuteFails
              \/ DealEnds => proof' = None
        BY DEF DepositLands, DepositReturns, DepositFails, ExecuteLands, ExecuteFails,
           DealEnds
      <4> QED
        BY <3>2, <4>1, <4>2, <4>3, <4>4, <4>5, <4>6, Zenon DEF Next, ClickDeposit, ClickWithdraw
    <3> QED
      BY <3>1, <3>2
  <2>2. \A m, amount : WithdrawFromVault(m, amount) => Accepted'
    BY DEF WithdrawFromVault, browserGenerateWithdrawProof, WithdrawalProved, WithdrawCircuit
  <2>3. \A w : Prove(w) => Accepted'
    BY DEF Prove
  <2>4. proof' = None \/ proof' = proof => Accepted'
    OBVIOUS
  <2> QED
    BY <2>1, <2>2, <2>3, <2>4, Zenon
<1>3. Accepted => ProofsNeverUnderflow
  BY AcceptedIsSubtraction DEF ProofsNeverUnderflow
<1> QED
  BY <1>1, <1>2, <1>3, PTL DEF Spec

(* Any part of a balance is taken off it within the circuit's equation and    *)
(* range checks: the limbs of every balance are in range, and then the        *)
(* browser's witness satisfies both.                                          *)
THEOREM SubtractionsHaveWitnesses == Spec => []BalancesWithdrawable
<1>1. PrivateTypeOK => BalancesWithdrawable
  <2> SUFFICES ASSUME PrivateTypeOK, NEW m \in Mints, Readable(m),
                      NEW amount \in WithdrawAmounts
               PROVE  Withdrawable(balance_ct[m].lo, balance_ct[m].hi, amount)
    BY DEF BalancesWithdrawable
  <2>1. balance_ct[m].lo \in Limb /\ balance_ct[m].hi \in Limb
    BY DEF PrivateTypeOK, Readable
  <2>2. amount \in Nat
    BY AmountAssumption
  <2> QED
    BY <2>1, <2>2, BalanceIsWithdrawable
<1> QED
  BY <1>1, PrivateTypesCorrect, PTL

-----------------------------------------------------------------------------
(* The deal and its commitment *)

(* What is known of a deal from its initiation to its end: its terms are as   *)
(* the page put them together, they fit their fields, the slot holds their    *)
(* digest, and a counterparty that accepted was told of the same amounts.     *)
DealTerms ==
    [nonce: Nonces, expiry: Expiries, counterparty: Counterparties,
     asset_a_mint: Mints, asset_b_mint: OtherMints,
     a: [lo: Limb, hi: Limb], b: [lo: Limb, hi: Limb]]

DealInv ==
    deal # None =>
        /\ deal = [terms |-> deal.terms, commitment_hash |-> deal.commitment_hash,
                   agreed |-> deal.agreed]
        /\ deal.terms \in DealTerms /\ Writable(deal.terms)
        /\ deal.commitment_hash = computeCommitment(deal.terms)
        /\ CounterpartyAgrees

LEMMA TermsFit ==
    ASSUME NEW t \in DealTerms, Writable(t)
    PROVE  Fits(t)
<1>1. {t.asset_a_mint, t.asset_b_mint, t.counterparty} \subseteq Bytes
  BY AmountAssumption DEF DealTerms, Bytes
<1>2. t.expiry \in -((LIMB * LIMB) \div 2) .. ((LIMB * LIMB) \div 2) - 1
  <2>1. t.expiry \in Expiries
    BY DEF DealTerms
  <2> QED
    BY <2>1, AmountAssumption
<1> QED
  BY <1>1, <1>2 DEF Fits

LEMMA DealAmountLimbs ==
    ASSUME NEW amount \in DealAmounts
    PROVE  /\ splitAmount(amount) \in [lo: Limb, hi: Limb]
           /\ Total(splitAmount(amount).lo, splitAmount(amount).hi) = amount
<1>1. amount \in Nat /\ amount < LIMB * LIMB
  <2>1. LIMB * LIMB \in Nat
    BY FieldAssumption
  <2> QED
    BY <2>1, AmountAssumption
<1>2. splitAmount(amount) = [lo |-> splitAmount(amount).lo, hi |-> splitAmount(amount).hi]
  BY DEF splitAmount
<1> QED
  BY <1>1, <1>2, SplitIsTotal

LEMMA NotRejected ==
    ASSUME NEW t, SdkPreimage(t) # Rejected
    PROVE  Writable(t)
  BY DEF SdkPreimage

LEMMA InitiateDeal ==
    ASSUME NEW mint_a \in Mints, NEW mint_b \in OtherMints,
           NEW counterparty \in Counterparties, NEW nonce \in Nonces,
           NEW expiry \in Expiries, NEW amountA \in DealAmounts,
           NEW amountB \in DealAmounts,
           Initiate(Terms(mint_a, mint_b, counterparty, nonce, expiry, amountA, amountB))
    PROVE  DealInv'
<1> DEFINE t == Terms(mint_a, mint_b, counterparty, nonce, expiry, amountA, amountB)
<1>1. t \in DealTerms
  BY DealAmountLimbs DEF Terms, DealTerms
<1> HIDE DEF t
<1>2. /\ SdkPreimage(t) # Rejected
      /\ deal' = [terms |-> t, commitment_hash |-> computeCommitment(t), agreed |-> None]
  BY DEF Initiate, t
<1>3. Writable(t)
  BY <1>2, NotRejected
<1> HIDE DEF computeCommitment, Writable, DealTerms
<1>4. deal'.terms = t /\ deal'.commitment_hash = computeCommitment(t) /\ deal'.agreed = None
  BY <1>2
<1>5. CounterpartyAgrees'
  BY <1>4 DEF CounterpartyAgrees
<1> QED
  BY <1>1, <1>2, <1>3, <1>4, <1>5 DEF DealInv

(* A counterparty that was told of other amounts computes another digest.     *)
LEMMA AcceptDeal ==
    ASSUME DealInv, NEW amountA \in DealAmounts, NEW amountB \in DealAmounts,
           Accept(amountA, amountB)
    PROVE  DealInv'
<1> DEFINE t == deal.terms
           told == [t EXCEPT !.a = splitAmount(amountA), !.b = splitAmount(amountB)]
<1>1. /\ deal # None /\ SdkPreimage(told) # Rejected
      /\ computeCommitment(told) = deal.commitment_hash
      /\ deal' = [deal EXCEPT !.agreed = [a |-> amountA, b |-> amountB]]
  BY DEF Accept
<1>2. /\ deal = [terms |-> deal.terms, commitment_hash |-> deal.commitment_hash,
                 agreed |-> deal.agreed]
      /\ t \in DealTerms /\ Writable(t) /\ deal.commitment_hash = computeCommitment(t)
  BY <1>1 DEF DealInv
<1>3. /\ told \in DealTerms
      /\ told.a = splitAmount(amountA) /\ told.b = splitAmount(amountB)
  <2> HIDE DEF t
  <2> QED
    BY <1>2, DealAmountLimbs DEF DealTerms
<1> HIDE DEF t, told
<1>4. Fits(t) /\ Fits(told)
  BY <1>1, <1>2, <1>3, NotRejected, TermsFit
<1>5. /\ t.a.lo = told.a.lo /\ t.a.hi = told.a.hi
      /\ t.b.lo = told.b.lo /\ t.b.hi = told.b.hi
  <2>1. computeCommitment(t) = computeCommitment(told)
    BY <1>1, <1>2
  <2> QED
    BY <1>4, <2>1, CommitmentBinds
<1>6. Total(t.a.lo, t.a.hi) = amountA /\ Total(t.b.lo, t.b.hi) = amountB
  BY <1>3, <1>5, DealAmountLimbs
<1>7. /\ deal'.terms = t /\ deal'.commitment_hash = deal.commitment_hash
      /\ deal'.agreed = [a |-> amountA, b |-> amountB]
      /\ deal' = [terms |-> deal'.terms, commitment_hash |-> deal'.commitment_hash,
                  agreed |-> deal'.agreed]
  BY <1>1, <1>2 DEF t
<1>8. CounterpartyAgrees'
  BY <1>6, <1>7 DEF CounterpartyAgrees
<1> QED
  BY <1>2, <1>7, <1>8, Zenon DEF DealInv

LEMMA DealSteps == DealInv /\ [Next]_vars => DealInv'
<1> SUFFICES ASSUME DealInv, [Next]_vars
             PROVE  DealInv'
  OBVIOUS
<1>1. CASE deal' = None
  BY <1>1 DEF DealInv
<1>2. CASE deal' = deal
  BY <1>2 DEF DealInv, CounterpartyAgrees
<1>3. /\ \A m, amount : DepositToVault(m, amount) => deal' = deal
      /\ \A m : InitializeVault(m) => deal' = deal
      /\ \A key : SubmitDeposit(key) => deal' = deal
      /\ \A key : ExecuteSettlement(key) => deal' = deal
      /\ \A m, amount, key : SettledByInitiator(m, amount, key) => deal' = deal
      /\ \A m, amount : WithdrawFromVault(m, amount) => deal' = deal
      /\ \A w : Prove(w) => deal' = deal
      /\ DepositLands \/ DepositReturns \/ DepositFails \/ ExecuteFails => deal' = deal
      /\ ExecuteLands \/ DealEnds => deal' = None
      /\ UNCHANGED vars => deal' = deal
  BY DEF DepositToVault, InitializeVault, SubmitDeposit, ExecuteSettlement,
     SettledByInitiator, WithdrawFromVault, Prove, DepositLands, DepositReturns,
     DepositFails, ExecuteFails, ExecuteLands, DealEnds, vars
<1> QED
  BY <1>1, <1>2, <1>3, InitiateDeal, AcceptDeal, Zenon DEF Next, ClickDeposit, ClickWithdraw

LEMMA DealInvariant == Spec => []DealInv
<1>1. Init => DealInv
  BY DEF Init, DealInv
<1> QED
  BY <1>1, DealSteps, PTL DEF Spec

(* A counterparty that accepted was told of the amounts the deal was made     *)
(* for: the digest it compared is that of no other amounts, for every limb,   *)
(* byte and word size.                                                       *)
THEOREM CounterpartiesAgree == Spec => []CounterpartyAgrees
<1>1. DealInv => CounterpartyAgrees
  BY DEF DealInv, CounterpartyAgrees
<1> QED
  BY <1>1, DealInvariant, PTL

(* Both parties' proofs of a deal are accepted: the browser, the circuit, the *)
(* slot and the reference all hash the same bits, and taking a whole amount   *)
(* off a balance of as much satisfies the circuit.                           *)
LEMMA FittingTermsAreProved ==
    ASSUME deal # None, DealInv, NEW amount \in {deal.terms.a, deal.terms.b}
    PROVE  Proves(deal.terms, amount)
<1> DEFINE t == deal.terms
           hash == CommitmentHash(BrowserPreimage(t))
           w == SettleWitness(amount)
           bits == CircuitPreimage(toBits64(t.nonce), t.a, t.b, Keys(t), toBits64(t.expiry))
<1>1. t \in DealTerms /\ Writable(t) /\ deal.commitment_hash = computeCommitment(t)
  BY DEF DealInv
<1> HIDE DEF t
<1>2. Fits(t)
  BY <1>1, TermsFit
<1>3. hash = deal.commitment_hash
  BY <1>1, <1>2, SdkIsRust, BrowserIsRust, Zenon DEF computeCommitment
<1>4. hash = Digest(bits)
  BY <1>2, CircuitIsRust, BrowserIsRust, Zenon DEF CommitmentHash
<1>5. TransitionHolds(w)
  <2>1. amount.lo \in Limb /\ amount.hi \in Limb
    BY <1>1 DEF Writable, t
  <2>2. Total(amount.lo, amount.hi) \in Nat
    BY <2>1, TotalBound
  <2>3. Withdrawable(amount.lo, amount.hi, Total(amount.lo, amount.hi))
    BY <2>1, <2>2, BalanceIsWithdrawable
  <2> QED
    BY <2>2, <2>3 DEF Withdrawable, SettleWitness
<1>6. \A limb \in {t.a.lo, t.a.hi, t.b.lo, t.b.hi} : limb \in Limb
  BY <1>1 DEF Writable
<1> HIDE DEF hash, w, bits
<1> DEFINE public == [lo |-> hash.lower, hi |-> hash.upper]
<1>7. public.lo = Digest(bits).lower /\ public.hi = Digest(bits).upper
  BY <1>4
<1>8. public = ChainInputs
  BY <1>3 DEF ChainInputs
<1> HIDE DEF public
<1>9. SettleCircuit(w, {t.a.lo, t.a.hi, t.b.lo, t.b.hi}, bits, public)
  BY <1>5, <1>6, <1>7 DEF SettleCircuit
<1> QED
  BY <1>8, <1>9, Zenon DEF Proves, t, hash, w, bits, public

(* What was committed to can be proved with the commitment in the slot, for   *)
(* both sides: the preimages of the SDK, the Rust reference and the provers   *)
(* and the circuit's bits are one, and equation and range checks hold of the  *)
(* browser's witness, for every limb, byte and word size, every field that is *)
(* large enough and every expiry of 64 bits (useSchemeB.ts:102-145,           *)
(* commitment.ts:4, execute_settle_b.rs:132-152).                             *)
THEOREM EveryDealCanBeProved == Spec => []DealsCanBeProved
<1>1. DealInv => DealsCanBeProved
  <2> SUFFICES ASSUME DealInv, deal # None
               PROVE  /\ SdkPreimage(deal.terms) = RustPreimage(deal.terms)
                      /\ ProverPreimage(deal.terms) = RustPreimage(deal.terms)
                      /\ Proves(deal.terms, deal.terms.a)
                      /\ Proves(deal.terms, deal.terms.b)
    BY DEF DealsCanBeProved
  <2>1. Fits(deal.terms)
    BY TermsFit DEF DealInv
  <2> QED
    BY <2>1, SdkIsRust, ProverIsRust, FittingTermsAreProved
<1> QED
  BY <1>1, DealInvariant, PTL

=============================================================================
