---------------------------- MODULE PrivateBalance ----------------------------
(***************************************************************************)
(* One trader's encrypted balances, the ElGamal key the browser keeps for    *)
(* them in sessionStorage, and the proofs it makes about them.  A deposit,   *)
(* a settlement and a withdrawal each decrypt or replace a balance, so each  *)
(* depends on the key that an earlier one left behind.  A ciphertext stands  *)
(* for the key it was made for and what it holds; without that key it cannot *)
(* be decrypted.  A deposit and a settlement run side by side, since the page *)
(* keeps only deposits and withdrawals apart (vaultBusy); the chain's side of *)
(* them is in VaultProgram and SettlementProgram.                            *)
(***************************************************************************)
EXTENDS Commitment

CONSTANTS
    Mints, OtherMints,         \* mints of the trader's ledgers, and wanted in return
    Counterparties,            \* like mints, public keys: bytes here
    ElGamalKeys,               \* private keys, each generated once
    DepositAmounts, WithdrawAmounts, DealAmounts, Nonces, Expiries,
    Guesses,                   \* field elements a prover tries as limbs
    None                       \* no key, balance, deposit, deal or proof

(* Amounts are 64-bit numbers, an expiry is one with a sign (i64).           *)
ASSUME AmountAssumption ==
    /\ DepositAmounts \cup DealAmounts \subseteq 0 .. LIMB * LIMB - 1
    /\ WithdrawAmounts \subseteq Nat
    /\ Mints \cup OtherMints \cup Counterparties \subseteq 0 .. Byte - 1
    /\ Expiries \subseteq -((LIMB * LIMB) \div 2) .. ((LIMB * LIMB) \div 2) - 1
    /\ Guesses \subseteq Field

ASSUME NoneAssumption ==
    None \notin [key: ElGamalKeys, lo: Limb, hi: Limb] \cup [keyA: ElGamalKeys, mintA: Mints]

VARIABLES
    balance_ct,          \* the trader's ledger of each mint: a ciphertext pair
    generated,           \* keys generated so far, by anyone
    session,             \* sessionStorage 'nexum_elgamal_keys': keyA and mintA
    vaults,              \* mints whose treasury vault exists
    depositing,          \* the deposit under way
    executing,           \* the key of the settlement being submitted
    deal,                \* the deal this browser initiated, and its slot
    proof                \* the witness of the last proof the circuit accepted

vars == <<balance_ct, generated, session, vaults, depositing, executing, deal, proof>>

(* Both limbs of an amount, encrypted to one key.                            *)
Encrypt(amount, key) ==
    [key |-> key, lo |-> splitAmount(amount).lo, hi |-> splitAmount(amount).hi]

Readable(m) ==
    /\ balance_ct[m] # None
    /\ session # None
    /\ balance_ct[m].key = session.keyA

Balance(m) == Total(balance_ct[m].lo, balance_ct[m].hi)

Init ==
    /\ balance_ct = [m \in Mints |-> None]
    /\ generated = {}
    /\ session = None
    /\ vaults = {}
    /\ depositing = None
    /\ executing = None
    /\ deal = None
    /\ proof = None

-----------------------------------------------------------------------------
(* Deposit *)

(* DEPOSIT and WITHDRAW are disabled while either is under way (vaultBusy).  *)
VaultOffered == depositing = None

(* The vault is looked up: a mint's first depositor creates it.              *)
DepositToVault(m, amount) ==
    /\ depositing' = [mint |-> m, amount |-> amount, key |-> None,
                      at |-> IF m \in vaults THEN "ready" ELSE "creating"]
    /\ proof' = None
    /\ UNCHANGED <<balance_ct, generated, session, vaults, executing, deal>>

ClickDeposit(m, amount) == VaultOffered /\ DepositToVault(m, amount)

(* initializeVault, by this browser or, meanwhile, by another's first        *)
(* deposit; then this browser's fails.                                       *)
InitializeVault(m) ==
    /\ m \notin vaults
    /\ vaults' = vaults \cup {m}
    /\ \/ /\ depositing # None /\ depositing.mint = m /\ depositing.at = "creating"
          /\ depositing' = [depositing EXCEPT !.at = "ready"]
       \/ depositing' = depositing
    /\ proof' = None
    /\ UNCHANGED <<balance_ct, generated, session, executing, deal>>

(* A deposit's balance is encrypted to a key of its own.                     *)
SubmitDeposit(key) ==
    /\ depositing # None /\ depositing.at = "ready"
    /\ key \notin generated
    /\ generated' = generated \cup {key}
    /\ depositing' = [depositing EXCEPT !.key = key, !.at = "sent"]
    /\ proof' = None
    /\ UNCHANGED <<balance_ct, session, vaults, executing, deal>>

(* The transaction lands: only a first deposit installs its ciphertext.      *)
DepositLands ==
    /\ depositing # None /\ depositing.at = "sent"
    /\ balance_ct' = [balance_ct EXCEPT ![depositing.mint] =
                        IF @ = None THEN Encrypt(depositing.amount, depositing.key) ELSE @]
    /\ depositing' = [depositing EXCEPT !.at = "landed"]
    /\ proof' = None
    /\ UNCHANGED <<generated, session, vaults, executing, deal>>

(* The client has its confirmation and saves the key.                        *)
DepositReturns ==
    /\ depositing # None /\ depositing.at = "landed"
    /\ session' = [keyA |-> depositing.key, mintA |-> depositing.mint]
    /\ depositing' = None
    /\ proof' = None
    /\ UNCHANGED <<balance_ct, generated, vaults, executing, deal>>

(* An error reaches the client, whether or not the transaction landed.       *)
DepositFails ==
    /\ depositing # None
    /\ depositing' = None
    /\ proof' = None
    /\ UNCHANGED <<balance_ct, generated, session, vaults, executing, deal>>

-----------------------------------------------------------------------------
(* Settlement *)

Terms(mint_a, mint_b, counterparty, nonce, expiry, amountA, amountB) ==
    [nonce |-> nonce, expiry |-> expiry, counterparty |-> counterparty,
     asset_a_mint |-> mint_a, asset_b_mint |-> mint_b,
     a |-> splitAmount(amountA), b |-> splitAmount(amountB)]

(* initiateCommit of the SDK: the slot keeps the digest and every term but   *)
(* the amounts, which only the page remembers.                               *)
Initiate(terms) ==
    /\ deal = None /\ executing = None
    /\ Total(terms.a.lo, terms.a.hi) > 0
    /\ SdkPreimage(terms) # Rejected
    /\ deal' = [terms |-> terms, commitment_hash |-> computeCommitment(terms),
                agreed |-> None]
    /\ proof' = None
    /\ UNCHANGED <<balance_ct, generated, session, vaults, depositing, executing>>

(* acceptCommit of the counterparty's SDK: the slot's terms with the amounts *)
(* the counterparty was told of must give the slot's digest.                 *)
Accept(amountA, amountB) ==
    /\ deal # None /\ deal.agreed = None
    /\ LET told == [deal.terms EXCEPT !.a = splitAmount(amountA),
                                      !.b = splitAmount(amountB)]
       IN  /\ SdkPreimage(told) # Rejected
           /\ computeCommitment(told) = deal.commitment_hash
    /\ deal' = [deal EXCEPT !.agreed = [a |-> amountA, b |-> amountB]]
    /\ proof' = None
    /\ UNCHANGED <<balance_ct, generated, session, vaults, depositing, executing>>

(* The public inputs execute_settle_b takes from the slot.                   *)
ChainInputs == [lo |-> deal.commitment_hash.lower, hi |-> deal.commitment_hash.upper]

(* A party's whole amount is proved to leave a balance of exactly as much.   *)
SettleWitness(amount) ==
    WithdrawWitness(amount.lo, amount.hi, Total(amount.lo, amount.hi))

(* The prover and the chain accept a party's proof: the private inputs        *)
(* satisfy the circuit for the digest the browser computes from the slot,     *)
(* and that digest is the slot's.                                            *)
Proves(terms, amount) ==
    LET hash == CommitmentHash(BrowserPreimage(terms))
        public == [lo |-> hash.lower, hi |-> hash.upper]
    IN  /\ SettleCircuit(SettleWitness(amount),
                         {terms.a.lo, terms.a.hi, terms.b.lo, terms.b.hi},
                         CircuitPreimage(toBits64(terms.nonce), terms.a, terms.b,
                                         Keys(terms), toBits64(terms.expiry)),
                         public)
        /\ public = ChainInputs

(* The key a settlement encrypts the trader's new balance to: the saved one, *)
(* or else a new one.                                                        *)
SettlementKeys(saved, unused) == IF saved # None THEN {saved.keyA} ELSE unused

(* Up to the submission: the key is saved, then both proofs are made.         *)
ExecuteSettlement(key) ==
    /\ executing = None
    /\ deal # None /\ deal.agreed # None
    /\ key \in SettlementKeys(session, ElGamalKeys \ generated)
    /\ generated' = generated \cup {key}
    /\ session' = [keyA |-> key, mintA |-> deal.terms.asset_a_mint]
    /\ executing' = IF Proves(deal.terms, deal.terms.a) /\ Proves(deal.terms, deal.terms.b)
                    THEN key ELSE None
    /\ proof' = None
    /\ UNCHANGED <<balance_ct, vaults, depositing, deal>>

(* execute_settle_b lands: party A's ledger holds an encrypted zero.          *)
ExecuteLands ==
    /\ executing # None /\ deal # None
    /\ balance_ct' = [balance_ct EXCEPT ![deal.terms.asset_a_mint] = Encrypt(0, executing)]
    /\ deal' = None
    /\ executing' = None
    /\ proof' = None
    /\ UNCHANGED <<generated, session, vaults, depositing>>

ExecuteFails ==
    /\ executing # None
    /\ executing' = None
    /\ proof' = None
    /\ UNCHANGED <<balance_ct, generated, session, vaults, depositing, deal>>

(* The deal is cancelled or expires.                                         *)
DealEnds ==
    /\ deal # None
    /\ deal' = None
    /\ proof' = None
    /\ UNCHANGED <<balance_ct, generated, session, vaults, depositing, executing>>

(* Another trader's browser settles a deal in which this trader is the       *)
(* counterparty: it encrypts this trader's balance to a key it makes up.  A   *)
(* ledger is in one deal at a time.                                          *)
SettledByInitiator(m, amount, key) ==
    /\ deal # None => deal.terms.asset_a_mint # m
    /\ key \notin generated
    /\ generated' = generated \cup {key}
    /\ balance_ct' = [balance_ct EXCEPT ![m] = Encrypt(amount, key)]
    /\ proof' = None
    /\ UNCHANGED <<session, vaults, depositing, executing, deal>>

-----------------------------------------------------------------------------
(* Withdrawal *)

(* The circuit accepts what the browser proves of a withdrawal.              *)
WithdrawalProved(m, amount) ==
    LET ct == balance_ct[m]
        ct_lo == <<ct.key, ct.lo>>
        ct_hi == <<ct.key, ct.hi>>
    IN  WithdrawCircuit(WithdrawWitness(ct.lo, ct.hi, amount), ct_lo, ct_hi,
                        WithdrawInputs(ct_lo, ct_hi))

(* The browser decrypts the balance with the saved key, refuses more than it *)
(* holds and proves the rest.                                                *)
browserGenerateWithdrawProof(m, amount) ==
    /\ Readable(m)
    /\ amount <= Balance(m)
    /\ proof' = IF WithdrawalProved(m, amount)
                   THEN WithdrawWitness(balance_ct[m].lo, balance_ct[m].hi, amount)
                   ELSE None

(* The ledger keeps its ciphertext (VaultProgram, Withdraw).                 *)
WithdrawFromVault(m, amount) ==
    /\ browserGenerateWithdrawProof(m, amount)
    /\ UNCHANGED <<balance_ct, generated, session, vaults, depositing, executing, deal>>

(* Of any mint: the trader names one, or gets mint B's or mint A's.          *)
ClickWithdraw(m, amount) == VaultOffered /\ WithdrawFromVault(m, amount)

(* Any prover tries any limbs.  It depends on nothing else in the state, so   *)
(* it is taken before everything else only.                                  *)
Prove(w) ==
    /\ generated = {} /\ deal = None
    /\ TransitionHolds(w)
    /\ proof' = w
    /\ UNCHANGED <<balance_ct, generated, session, vaults, depositing, executing, deal>>

Guess == [old_lo: Guesses, old_hi: Guesses, new_lo: Guesses, new_hi: Guesses,
          amount_lo: Guesses, amount_hi: Guesses]

-----------------------------------------------------------------------------

Next ==
    \/ \E m \in Mints, amount \in DepositAmounts : ClickDeposit(m, amount)
    \/ \E m \in Mints : InitializeVault(m)
    \/ \E key \in ElGamalKeys : SubmitDeposit(key)
    \/ DepositLands
    \/ DepositReturns
    \/ DepositFails
    \/ \E mint_a \in Mints, mint_b \in OtherMints, counterparty \in Counterparties,
          nonce \in Nonces, expiry \in Expiries, amountA, amountB \in DealAmounts :
          Initiate(Terms(mint_a, mint_b, counterparty, nonce, expiry, amountA, amountB))
    \/ \E amountA, amountB \in DealAmounts : Accept(amountA, amountB)
    \/ \E key \in ElGamalKeys : ExecuteSettlement(key)
    \/ ExecuteLands
    \/ ExecuteFails
    \/ DealEnds
    \/ \E m \in Mints, amount \in DealAmounts, key \in ElGamalKeys :
          SettledByInitiator(m, amount, key)
    \/ \E m \in Mints, amount \in WithdrawAmounts : ClickWithdraw(m, amount)
    \/ \E w \in Guess : Prove(w)

Spec == Init /\ [][Next]_vars

-----------------------------------------------------------------------------
(* Properties *)

(* Types.  The limbs of a balance fit their 32 bits, whoever encrypted them. *)
PrivateTypeOK ==
    /\ balance_ct \in [Mints -> {None} \cup [key: generated, lo: Limb, hi: Limb]]
    /\ generated \subseteq ElGamalKeys
    /\ session # None => session \in [keyA: generated, mintA: Mints]
    /\ depositing # None =>
          /\ depositing \in [mint: Mints, amount: DepositAmounts, key: generated \cup {None},
                             at: {"creating", "ready", "sent", "landed"}]
          /\ depositing.at \in {"sent", "landed"} => depositing.key \in generated
    /\ vaults \subseteq Mints
    /\ executing # None => executing \in generated
    /\ deal # None => deal.terms.asset_a_mint \in Mints
    /\ proof # None => proof \in Witness

(* Whatever a trader may commit to can be settled: the five layouts of the   *)
(* preimage agree on the deal's terms, so that the circuit, both provers,    *)
(* the slot and the Rust reference have one digest, and the circuit accepts  *)
(* both parties' witnesses (commitment.ts:4 "MUST produce identical output"). *)
DealsCanBeProved ==
    deal # None =>
        /\ SdkPreimage(deal.terms) = RustPreimage(deal.terms)
        /\ ProverPreimage(deal.terms) = RustPreimage(deal.terms)
        /\ Proves(deal.terms, deal.terms.a)
        /\ Proves(deal.terms, deal.terms.b)

(* A counterparty locks its balance for the amounts it was told of and no     *)
(* others: its check of the digest tells every two pairs of amounts apart    *)
(* (accept.ts:54-78).                                                        *)
CounterpartyAgrees ==
    deal # None /\ deal.agreed # None =>
        /\ deal.agreed.a = Total(deal.terms.a.lo, deal.terms.a.hi)
        /\ deal.agreed.b = Total(deal.terms.b.lo, deal.terms.b.hi)

(* Any part of a balance that the trader can decrypt is taken off it within  *)
(* the circuit's equation and range checks, a borrow between the limbs       *)
(* included (useSchemeB.ts:206-213).                                         *)
BalancesWithdrawable ==
    \A m \in Mints : Readable(m) =>
        \A amount \in WithdrawAmounts :
            Withdrawable(balance_ct[m].lo, balance_ct[m].hi, amount)

(* No proof the circuit accepts takes more than the balance it claims to      *)
(* start from, whatever field elements its prover chose for the limbs        *)
(* (withdraw_balance_check.circom:52 "preventing underflow via field wrap").  *)
(* The bound is the claimed balance: no constraint ties it to the ledger's   *)
(* ciphertext.                                                               *)
ProofsNeverUnderflow == proof # None => Subtracts(proof)

(* withdraw_balance_check.circom:82 "Extract upper 128 bits of SHA256(ct_lo)", *)
(* "Matches contract": the circuit accepts the proof of a withdrawal from any *)
(* balance the trader can decrypt.                                           *)
WithdrawalsAccepted ==
    \A m \in Mints : Readable(m) =>
        \A amount \in WithdrawAmounts :
            amount <= Balance(m) => WithdrawalProved(m, amount)

(* README.md:144 "The on-chain verifier confirms the balance transition is   *)
(* valid": a settlement takes the agreed amount off the balance and leaves   *)
(* the trader the rest.                                                      *)
SettlementLeavesRest ==
    [][\A m \in Mints :
          /\ ExecuteLands
          /\ m = deal.terms.asset_a_mint
          /\ Readable(m)
          /\ deal.agreed.a <= Balance(m)
          => Balance(m)' = Balance(m) - deal.agreed.a]_vars
=============================================================================
