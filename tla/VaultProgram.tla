----------------------------- MODULE VaultProgram -----------------------------
(***************************************************************************)
(* The custody side of nexum_pool beside the settlement life cycle: one     *)
(* vault token account per mint, the users' own token accounts, deposits    *)
(* into and withdrawals from the vault.  A deposit and a withdrawal go      *)
(* through the same UserLedger as the settlements do, so the module extends *)
(* SettlementProgram and every settlement instruction remains a step.       *)
(***************************************************************************)
EXTENDS SettlementProgram, FiniteSetsExt

CONSTANTS
    Amounts,             \* amounts a client asks to deposit or to withdraw
    WalletTokens         \* tokens every user holds of every mint at the start

ASSUME AmountAssumption == Amounts \subseteq Nat /\ WalletTokens \in Nat

ASSUME UsersAssumption == IsFiniteSet(Users)

VARIABLES
    vaults,              \* mints whose vault token account exists
    held,                \* tokens in the vault of each mint
    wallet               \* tokens in the account of each <<owner, mint>>

tokenVars == <<vaults, held, wallet>>
vaultVars == <<vars, tokenVars>>

VaultInit ==
    /\ Init
    /\ vaults = {}
    /\ held = [m \in Mints |-> 0]
    /\ wallet = [l \in Ledgers |-> WalletTokens]

-----------------------------------------------------------------------------
(* Instructions *)

InitializeVault(m) ==
    /\ m \notin vaults
    /\ vaults' = vaults \cup {m}
    /\ UNCHANGED <<vars, held, wallet>>

(* A ledger whose balance a deposit has just written.                        *)
Opened(l, ct, r, version) ==
    [status |-> l.status, version |-> version, balance_ct |-> ct, encryption_r |-> r,
     regulator_ct |-> l.regulator_ct, last_settlement_id |-> l.last_settlement_id]

(* Mutated forms of OpenBalance: the version is left alone, or starts anew.   *)
OpenBalanceSameVersion(l, ct, r) ==
    IF l.balance_ct = Zero THEN Opened(l, ct, r, l.version) ELSE l
OpenBalanceVersionOne(l, ct, r) ==
    IF l.balance_ct = Zero THEN Opened(l, ct, r, 1) ELSE l

(* The first deposit installs the client's ciphertext; all-zero bytes are    *)
(* what tells a first deposit.  Later deposits leave the balance as it is.   *)
OpenBalance(l, ct, r) ==
    IF l.balance_ct = Zero THEN Opened(l, ct, r, l.version + 1) ELSE l

(* The ledger's status is not among the constraints.                         *)
Deposit(l, amount, ct, r) ==
    /\ config
    /\ l[2] \in vaults
    /\ ledger[l].status # "Absent"
    /\ amount > 0 /\ amount <= wallet[l]
    /\ wallet' = [wallet EXCEPT ![l] = @ - amount]
    /\ held' = [held EXCEPT ![l[2]] = @ + amount]
    /\ ledger' = [ledger EXCEPT ![l] = OpenBalance(@, ct, r)]
    /\ UNCHANGED <<now, config, pending, slot, proofAccounts, proofData, records, vaults>>

(* Mutated form of Withdraw: the amount is paid out but not taken out.       *)
WithdrawKeepsHeld(l, amount, proof) ==
    /\ config
    /\ l[2] \in vaults
    /\ ledger[l].status = "Active"
    /\ amount > 0 /\ amount <= held[l[2]]
    /\ proof = ledger[l].balance_ct
    /\ wallet' = [wallet EXCEPT ![l] = @ + amount]
    /\ UNCHANGED <<vars, vaults, held>>

(* A withdrawal proof is the ciphertext it was made for; verify_withdraw_    *)
(* proof takes no other public input.  It is assumed here that such proofs   *)
(* can be made (PrivateBalance, WithdrawalsAccepted).  The ledger account is *)
(* not declared mut, so what the handler assigns to it is not written back.  *)
Withdraw(l, amount, proof) ==
    /\ config
    /\ l[2] \in vaults
    /\ ledger[l].status = "Active"
    /\ amount > 0 /\ amount <= held[l[2]]
    /\ proof = ledger[l].balance_ct
    /\ wallet' = [wallet EXCEPT ![l] = @ + amount]
    /\ held' = [held EXCEPT ![l[2]] = @ - amount]
    /\ UNCHANGED <<vars, vaults>>

-----------------------------------------------------------------------------

VaultStep ==
    \/ \E m \in Mints : InitializeVault(m)
    \/ \E l \in Ledgers, amount \in Amounts, ct, r \in Encryptions :
          Deposit(l, amount, ct, r)
    \/ \E l \in Ledgers, amount \in Amounts, proof \in Payloads :
          Withdraw(l, amount, proof)

VaultNext == VaultStep \/ (Next /\ UNCHANGED tokenVars)

VaultSpec == VaultInit /\ [][VaultNext]_vaultVars

-----------------------------------------------------------------------------
(* Properties *)

(* Types of the token accounts, beside those of the program accounts.        *)
VaultTypeOK ==
    /\ TypeOK
    /\ vaults \subseteq Mints
    /\ held \in [Mints -> Nat]
    /\ wallet \in [Ledgers -> Nat]

(* Tokens are only moved between a mint's vault and its users' accounts, and *)
(* never by a settlement (deposit.rs:58, withdraw.rs:98 and no other).       *)
TokensConserved ==
    \A m \in Mints :
        held[m] + MapThenSumSet(LAMBDA u : wallet[<<u, m>>], Users)
            = WalletTokens * Cardinality(Users)

(* A withdrawal proof and a settlement are made for one version of a ledger: *)
(* whatever changes the encrypted balance moves the version on by one, a     *)
(* deposit into a locked ledger or after a settlement that wrote all-zero    *)
(* bytes included (deposit.rs:72-78, execute_settle_b.rs:181-198).           *)
VersionTracksBalance ==
    [][\A l \in Ledgers :
          /\ ledger'[l].balance_ct # ledger[l].balance_ct
                => ledger'[l].version = ledger[l].version + 1
          /\ ledger'[l].version >= ledger[l].version]_vaultVars
=============================================================================
