-------------------------- MODULE SettlementProgram --------------------------
(***************************************************************************)
(* The Scheme B settlement life cycle of the nexum_pool program: ledgers,   *)
(* commit slots, proof accounts and settlement records as the on-chain      *)
(* accounts they are, and one action per instruction.  A transaction is     *)
(* atomic, so an instruction (its account constraints, then its handler)    *)
(* is one step; an instruction that returns an error changes nothing and    *)
(* is no step at all.                                                       *)
(*                                                                          *)
(* Accounts live at addresses derived from seeds, so an address is modelled *)
(* by its seeds: a ledger by <<owner, mint>>, a commit slot by              *)
(* <<ledger of A, nonce>>, a proof account by its nonce alone, a record by  *)
(* <<slot address, settlement nonce>>.                                      *)
(*                                                                          *)
(* config.is_paused is set FALSE by initialize_pool and by no other         *)
(* instruction, and the windows of the config account are the constants     *)
(* below from then on, so config is only a flag: does it exist.             *)
(***************************************************************************)
EXTENDS Integers, FiniteSets

CONSTANTS
    Users,               \* wallets that sign transactions
    Mints,               \* token mints
    Nonces,              \* slot nonces a client may pick (u64)
    SettlementNonces,    \* settlement_nonce arguments of execute_settle_b
    Hashes,              \* non-zero commitment hashes
    Encryptions,         \* ElGamal encryptions: a ciphertext with its randomness
    Zero,                \* all-zero bytes: Pubkey::default(), [0u8; n]
    ProofNonces,         \* nonces the clients create proof accounts for
    Chunks,              \* chunk indices the clients write
    MIN_INIT_WINDOW, MAX_INIT_WINDOW, EXECUTE_WINDOW, CLOCK_TOLERANCE,
    MaxTime,             \* bound: the clock stops here
    Horizon,             \* bound: no initiate_commit or accept_commit after it
    MaxSettlements       \* bound: settlement records of a run

ASSUME WindowAssumption ==
    /\ MIN_INIT_WINDOW \in Nat /\ MAX_INIT_WINDOW \in Nat
    /\ EXECUTE_WINDOW \in Nat /\ CLOCK_TOLERANCE \in Nat
    /\ MaxTime \in Nat /\ Horizon \in Nat /\ MaxSettlements \in Nat

ASSUME ZeroAssumption == Zero \notin Users \cup Mints \cup Hashes \cup Encryptions

ASSUME NonceAssumption == 
    /\ Nonces \subseteq Nat /\ ProofNonces \subseteq Nonces
    /\ Chunks \subseteq 0..5

VARIABLES
    now,            \* Clock::get()?.unix_timestamp
    config,         \* does the nexum_config account exist
    ledger,         \* UserLedger accounts, by address: the base fields
    pending,        \* and their pending_* fields, which clear_pending resets
    slot,           \* CommitSlot accounts, by address
    proofAccounts,  \* nonces whose ProofData account exists
    proofData,      \* the six chunks of every ProofData account
    records         \* SettlementRecord accounts

vars == <<now, config, ledger, pending, slot, proofAccounts, proofData, records>>

-----------------------------------------------------------------------------
(* Addresses and account contents *)

Ledgers == Users \X Mints
Slots == Ledgers \X Nonces

LedgerA(s) == s[1]            \* slot.initiator and slot.asset_a_mint
Initiator(s) == s[1][1]
NonceOf(s) == s[2]
LedgerB(s) == <<slot[s].counterparty, slot[s].asset_b_mint>>
Exists(s) == slot[s].status # "Absent"

LedgerStatus == {"Absent", "Active", "PendingInitiator", "BothPending",
                 "PendingCounterparty"}
SlotStatus == {"Absent", "WaitingAccept", "BothLocked"}

(* What a chunk of a proof account, or a ciphertext field, can hold.         *)
Payloads == Hashes \cup Encryptions \cup {Zero}

LedgerAccount ==
    [status: LedgerStatus, version: Nat,
     balance_ct: Payloads, encryption_r: Payloads, regulator_ct: Payloads,
     last_settlement_id: (Slots \X SettlementNonces) \cup {Zero}]

PendingFields ==
    [commitment: Hashes \cup {Zero}, expiry: Int, counterparty: Users \cup {Zero},
     asset_b_mint: Mints \cup {Zero}, nonce: Nat]

SlotAccount ==
    [status: SlotStatus, counterparty: Users \cup {Zero},
     asset_b_mint: Mints \cup {Zero}, commitment_hash: Hashes \cup {Zero},
     expiry_init: Int, both_locked_at: Int, execute_expiry: Int]

EmptyLedger(status) ==
    [status |-> status, version |-> 0, balance_ct |-> Zero,
     encryption_r |-> Zero, regulator_ct |-> Zero, last_settlement_id |-> Zero]

NoPending ==
    [commitment |-> Zero, expiry |-> 0, counterparty |-> Zero,
     asset_b_mint |-> Zero, nonce |-> 0]

NoSlot ==
    [status |-> "Absent", counterparty |-> Zero, asset_b_mint |-> Zero,
     commitment_hash |-> Zero, expiry_init |-> 0, both_locked_at |-> 0,
     execute_expiry |-> 0]

WithStatus(l, status) == [l EXCEPT !.status = status]

(* zk_verifier rejects the all-zero proof and otherwise accepts exactly the  *)
(* proofs of the public hash: a proof payload is the hash it proves.         *)
VerifyProof(proof, hash) == proof # Zero /\ proof = hash

Init ==
    /\ now = 0
    /\ config = FALSE
    /\ ledger = [l \in Ledgers |-> EmptyLedger("Absent")]
    /\ pending = [l \in Ledgers |-> NoPending]
    /\ slot = [s \in Slots |-> NoSlot]
    /\ proofAccounts = {}
    /\ proofData = [n \in Nonces |-> [c \in 0..5 |-> Zero]]
    /\ records = {}

-----------------------------------------------------------------------------
(* Instructions *)

InitializePool ==
    /\ ~config
    /\ config' = TRUE
    /\ UNCHANGED <<now, ledger, pending, slot, proofAccounts, proofData, records>>

CreateUserLedger(a) ==
    /\ config
    /\ ledger[a].status = "Absent"
    /\ ledger' = [ledger EXCEPT ![a] = EmptyLedger("Active")]
    /\ pending' = [pending EXCEPT ![a] = NoPending]
    /\ UNCHANGED <<now, config, slot, proofAccounts, proofData, records>>

(* Party A, the owner of ledger a, proposes a deal under the slot nonce n.   *)
InitiateCommit(a, n, counterparty, mint, hash, expiry) ==
    /\ config
    /\ now <= Horizon
    /\ ledger[a].status = "Active"
    /\ counterparty # a[1]
    /\ ~Exists(<<a, n>>)
    /\ expiry - now >= MIN_INIT_WINDOW
    /\ expiry - now <= MAX_INIT_WINDOW
    /\ hash # Zero
    /\ ledger' = [ledger EXCEPT ![a] = WithStatus(@, "PendingInitiator")]
    /\ pending' = [pending EXCEPT ![a] =
           [commitment |-> hash, expiry |-> expiry, counterparty |-> counterparty,
            asset_b_mint |-> mint, nonce |-> n]]
    /\ slot' = [slot EXCEPT ![<<a, n>>] =
           [status |-> "WaitingAccept", counterparty |-> counterparty,
            asset_b_mint |-> mint, commitment_hash |-> hash,
            expiry_init |-> expiry, both_locked_at |-> 0, execute_expiry |-> 0]]
    /\ UNCHANGED <<now, config, proofAccounts, proofData, records>>

(* Mutated form of CanAccept: no check that ledger B is Active.              *)
CanAcceptBusyLedger(u, s) ==
    LET a == LedgerA(s)
    IN  /\ slot[s].status = "WaitingAccept"
        /\ slot[s].counterparty = u
        /\ ledger[a].status = "PendingInitiator"
        /\ pending[a].nonce = NonceOf(s)
        /\ pending[a].counterparty = u
        /\ ledger[<<u, slot[s].asset_b_mint>>].status # "Absent"
        /\ now <= pending[a].expiry + CLOCK_TOLERANCE

(* The account constraints and the deadline of accept_commit.                *)
CanAccept(u, s) ==
    LET a == LedgerA(s)
    IN  /\ slot[s].status = "WaitingAccept"
        /\ slot[s].counterparty = u
        /\ ledger[a].status = "PendingInitiator"
        /\ pending[a].nonce = NonceOf(s)
        /\ pending[a].counterparty = u
        /\ ledger[<<u, slot[s].asset_b_mint>>].status = "Active"
        /\ now <= pending[a].expiry + CLOCK_TOLERANCE

(* Party B, user u, accepts slot s with the ledger it owns for asset_b_mint. *)
AcceptCommit(u, s) ==
    LET a == LedgerA(s)
        b == <<u, slot[s].asset_b_mint>>
    IN  /\ now <= Horizon
        /\ CanAccept(u, s)
        /\ ledger' = [ledger EXCEPT ![a] = WithStatus(@, "BothPending"),
                                    ![b] = WithStatus(@, "PendingCounterparty")]
        /\ pending' = [pending EXCEPT ![b] =
               [@ EXCEPT !.counterparty = a[1], !.nonce = pending[a].nonce]]
        /\ slot' = [slot EXCEPT ![s] =
               [@ EXCEPT !.status = "BothLocked", !.both_locked_at = now,
                         !.execute_expiry = now + EXECUTE_WINDOW]]
        /\ UNCHANGED <<now, config, proofAccounts, proofData, records>>

(* Anybody may create the proof account of a nonce; it is never closed.      *)
CreateProofData(n) ==
    /\ n \notin proofAccounts
    /\ proofAccounts' = proofAccounts \cup {n}
    /\ proofData' = [proofData EXCEPT ![n] = [c \in 0..5 |-> Zero]]
    /\ UNCHANGED <<now, config, ledger, pending, slot, records>>

(* The account constraints of write_proof_data: a party u of some slot s with *)
(* the nonce of the proof account.                                           *)
CanWrite(u, s) ==
    /\ NonceOf(s) \in proofAccounts
    /\ Exists(s)
    /\ u = Initiator(s) \/ u = slot[s].counterparty

(* The party writes one of the six chunks: 0/2 the proofs of A/B, 1/3 their   *)
(* ciphertexts, 4/5 the regulator's.                                         *)
WriteProofData(u, s, c, payload) ==
    /\ CanWrite(u, s)
    /\ proofData' = [proofData EXCEPT ![NonceOf(s)] = [@ EXCEPT ![c] = payload]]
    /\ UNCHANGED <<now, config, ledger, pending, slot, proofAccounts, records>>

(* Mutated form of Settled: the version is wrongly advanced.                 *)
SettledVersionDown(l, ct, r, regulatorCt, id) ==
    [status |-> "Active", version |-> l.version - 1, balance_ct |-> ct,
     encryption_r |-> r, regulator_ct |-> regulatorCt, last_settlement_id |-> id]

(* What a settlement writes into a ledger.                                   *)
Settled(l, ct, r, regulatorCt, id) ==
    [status |-> "Active", version |-> l.version + 1, balance_ct |-> ct,
     encryption_r |-> r, regulator_ct |-> regulatorCt, last_settlement_id |-> id]

(* Any fee payer executes slot s with the proof account of nonce n.  The     *)
(* instruction's hash limbs must equal the slot's hash, so both proofs are   *)
(* verified against that hash.  r_a and r_b come with the instruction.       *)
ExecuteSettleB(s, n, settlementNonce, r_a, r_b) ==
    LET a == LedgerA(s)
        b == LedgerB(s)
        id == <<s, settlementNonce>>
    IN  /\ slot[s].status = "BothLocked"
        /\ ledger[a].status = "BothPending"
        /\ pending[a].nonce = NonceOf(s)
        /\ ledger[b].status = "PendingCounterparty"
        /\ n \in proofAccounts
        /\ \A r \in records : r.id # id
        /\ Cardinality(records) < MaxSettlements
        /\ now <= slot[s].execute_expiry + CLOCK_TOLERANCE
        /\ VerifyProof(proofData[n][0], slot[s].commitment_hash)
        /\ VerifyProof(proofData[n][2], slot[s].commitment_hash)
        /\ ledger' = [ledger EXCEPT
               ![a] = Settled(@, proofData[n][1], r_a, proofData[n][4], id),
               ![b] = Settled(@, proofData[n][3], r_b, proofData[n][5], id)]
        /\ pending' = [pending EXCEPT ![a] = NoPending, ![b] = NoPending]
        /\ records' = records \cup
               {[id |-> id, ledger_a |-> a, ledger_b |-> b,
                 commitment_hash |-> slot[s].commitment_hash,
                 version_a |-> ledger[a].version + 1,
                 version_b |-> ledger[b].version + 1, settled_at |-> now]}
        /\ slot' = [slot EXCEPT ![s] = NoSlot]
        /\ UNCHANGED <<now, config, proofAccounts, proofData>>

(* Mutated form of CanCancelInitiate: is_locked() instead of PendingInitiator. *)
CanCancelAnyLock(s) ==
    LET a == LedgerA(s)
    IN  /\ Exists(s)
        /\ ledger[a].status \in {"PendingInitiator", "BothPending"}
        /\ pending[a].nonce = NonceOf(s)
        /\ now > pending[a].expiry + CLOCK_TOLERANCE

(* The account constraints of cancel_initiate; the slot's status is not among *)
(* them.                                                                     *)
CanCancelInitiate(s) ==
    LET a == LedgerA(s)
    IN  /\ Exists(s)
        /\ ledger[a].status = "PendingInitiator"
        /\ pending[a].nonce = NonceOf(s)
        /\ now > pending[a].expiry + CLOCK_TOLERANCE

(* The owner of ledger A takes back an initiate nobody accepted in time.     *)
CancelInitiate(s) ==
    LET a == LedgerA(s)
    IN  /\ CanCancelInitiate(s)
        /\ ledger' = [ledger EXCEPT ![a] = WithStatus(@, "Active")]
        /\ pending' = [pending EXCEPT ![a] = NoPending]
        /\ slot' = [slot EXCEPT ![s] = NoSlot]
        /\ UNCHANGED <<now, config, proofAccounts, proofData, records>>

(* Mutated form of CanCancelMutual: ledger A's constraint copied to ledger B. *)
CanCancelSameStatus(s) ==
    LET a == LedgerA(s)
    IN  /\ slot[s].status = "BothLocked"
        /\ ledger[a].status = "BothPending"
        /\ pending[a].nonce = NonceOf(s)
        /\ ledger[LedgerB(s)].status = "BothPending"
        /\ now > slot[s].execute_expiry + CLOCK_TOLERANCE

(* The account constraints and the deadline of cancel_mutual.                *)
CanCancelMutual(s) ==
    LET a == LedgerA(s)
    IN  /\ slot[s].status = "BothLocked"
        /\ ledger[a].status = "BothPending"
        /\ pending[a].nonce = NonceOf(s)
        /\ ledger[LedgerB(s)].status = "PendingCounterparty"
        /\ now > slot[s].execute_expiry + CLOCK_TOLERANCE

(* Any signer unlocks both ledgers of a deal nobody executed in time.        *)
CancelMutual(s) ==
    LET a == LedgerA(s)
        b == LedgerB(s)
    IN  /\ CanCancelMutual(s)
        /\ ledger' = [ledger EXCEPT ![a] = WithStatus(@, "Active"),
                                    ![b] = WithStatus(@, "Active")]
        /\ pending' = [pending EXCEPT ![a] = NoPending, ![b] = NoPending]
        /\ slot' = [slot EXCEPT ![s] = NoSlot]
        /\ UNCHANGED <<now, config, proofAccounts, proofData, records>>

(* The validators' clock advances.                                           *)
Tick ==
    /\ now < MaxTime
    /\ now' = now + 1
    /\ UNCHANGED <<config, ledger, pending, slot, proofAccounts, proofData, records>>

-----------------------------------------------------------------------------

(* Client inputs: one second on either side of the legal window is included, *)
(* and the empty hash, which initiate_commit refuses.                        *)
Initiate(a) ==
    \E n \in Nonces, u \in Users, m \in Mints, h \in Hashes \cup {Zero},
       w \in 0..(MAX_INIT_WINDOW + 1) :
        InitiateCommit(a, n, u, m, h, now + w)

WriteChunk(s) ==
    \E u \in Users, c \in Chunks :
        \E p \in IF c \in {0, 2} THEN Hashes ELSE Encryptions :
            WriteProofData(u, s, c, p)

Execute(s) ==
    \E n \in Nonces, k \in SettlementNonces,
       r_a, r_b \in Encryptions \cup {Zero} : ExecuteSettleB(s, n, k, r_a, r_b)

Next ==
    \/ InitializePool
    \/ \E a \in Ledgers : CreateUserLedger(a)
    \/ \E a \in Ledgers : Initiate(a)
    \/ \E u \in Users, s \in Slots : AcceptCommit(u, s)
    \/ \E n \in ProofNonces : CreateProofData(n)
    \/ \E s \in Slots : WriteChunk(s)
    \/ \E s \in Slots : Execute(s)
    \/ \E s \in Slots : CancelInitiate(s)
    \/ \E s \in Slots : CancelMutual(s)
    \/ Tick

Spec == Init /\ [][Next]_vars

(* A run of the clock never stops before the last deal has expired, and an   *)
(* owner or a party whose cancel is available eventually submits it.         *)
Fairness ==
    /\ WF_vars(Tick)
    /\ \A s \in Slots : WF_vars(CancelInitiate(s)) /\ WF_vars(CancelMutual(s))

FairSpec == Spec /\ Fairness

-----------------------------------------------------------------------------
(* Properties *)

RecordType ==
    [id: Slots \X SettlementNonces, ledger_a: Ledgers, ledger_b: Ledgers,
     commitment_hash: Hashes, version_a: Nat, version_b: Nat, settled_at: Nat]

(* Type invariant: every account holds values its Rust struct can hold.      *)
TypeOK ==
    /\ now \in Nat
    /\ config \in BOOLEAN
    /\ ledger \in [Ledgers -> LedgerAccount]
    /\ pending \in [Ledgers -> PendingFields]
    /\ slot \in [Slots -> SlotAccount]
    /\ proofAccounts \subseteq Nonces
    /\ proofData \in [Nonces -> [0..5 -> Payloads]]
    /\ records \subseteq RecordType

Waiting(s) == slot[s].status = "WaitingAccept"
BothLocked(s) == slot[s].status = "BothLocked"

(* A waiting slot is the pending deal of its ledger A, under the same terms. *)
WaitingMatchesA ==
    \A s \in Slots : Waiting(s) =>
        /\ ledger[LedgerA(s)].status = "PendingInitiator"
        /\ slot[s].counterparty \in Users \ {Initiator(s)}
        /\ slot[s].asset_b_mint \in Mints

(* A locked slot holds both its ledgers, and ledger B is locked for A's owner *)
(* under the slot's nonce.                                                   *)
LockedHoldsBoth ==
    \A s \in Slots : BothLocked(s) =>
        /\ ledger[LedgerA(s)].status = "BothPending"
        /\ slot[s].counterparty \in Users \ {Initiator(s)}
        /\ slot[s].asset_b_mint \in Mints
        /\ ledger[LedgerB(s)].status = "PendingCounterparty"
        /\ pending[LedgerB(s)].counterparty = Initiator(s)
        /\ pending[LedgerB(s)].nonce = NonceOf(s)

(* The terms A signed are the terms of the slot: what B and the executor read *)
(* from the slot account is what the ledger of A says it is locked for.      *)
TermsAgree ==
    \A s \in Slots : Exists(s) =>
        LET p == pending[LedgerA(s)]
        IN  /\ p.nonce = NonceOf(s)
            /\ p.commitment = slot[s].commitment_hash
            /\ p.expiry = slot[s].expiry_init
            /\ p.counterparty = slot[s].counterparty
            /\ p.asset_b_mint = slot[s].asset_b_mint
            /\ slot[s].commitment_hash \in Hashes

(* user_ledger.rs:143 clear_pending "MUST be called": a ledger outside a deal *)
(* remembers nothing of an earlier one.                                      *)
NothingStale ==
    \A l \in Ledgers :
        ledger[l].status \in {"Absent", "Active"} => pending[l] = NoPending

(* No ledger stays locked without the slot that can unlock it: the pending   *)
(* nonce of ledger A leads to its slot, and ledger B is in some locked slot. *)
EveryLockHasSlot ==
    /\ \A l \in Ledgers :
          /\ ledger[l].status \in {"PendingInitiator", "BothPending"}
                => pending[l].nonce \in Nonces
          /\ ledger[l].status = "PendingInitiator"
                => Waiting(<<l, pending[l].nonce>>)
          /\ ledger[l].status = "BothPending"
                => BothLocked(<<l, pending[l].nonce>>)
    /\ \A l \in Ledgers : ledger[l].status = "PendingCounterparty" =>
          \E s \in Slots : BothLocked(s) /\ LedgerB(s) = l

(* No ledger B serves two deals.  ledger B does not record A's mint, so two  *)
(* deals of one initiator under one nonce would be told apart by nothing.    *)
OneDealPerCounterparty ==
    \A s, t \in Slots :
        BothLocked(s) /\ BothLocked(t) /\ LedgerB(s) = LedgerB(t) => s = t

(* Slots and ledgers agree on who is locked with whom, across every order of *)
(* initiate, accept, execute and cancel of all users (initiate_commit.rs,    *)
(* accept_commit.rs, execute_settle_b.rs, cancel_initiate.rs,                *)
(* cancel_mutual.rs): both cancels and execute find their ledgers through    *)
(* the slot, so a mismatch would lock a ledger for good.                     *)
LockSlotMatch ==
    /\ WaitingMatchesA
    /\ LockedHoldsBoth
    /\ TermsAgree
    /\ NothingStale
    /\ EveryLockHasSlot
    /\ OneDealPerCounterparty

(* Settled at the hash of slot s, in this step, for both its ledgers.        *)
SettlesNow(s) ==
    \E r \in records' \ records :
        /\ r.ledger_a = LedgerA(s) /\ r.ledger_b = LedgerB(s)
        /\ r.commitment_hash = pending[LedgerA(s)].commitment
        /\ r.version_a = ledger'[LedgerA(s)].version
        /\ r.version_b = ledger'[LedgerB(s)].version
        /\ ledger'[LedgerA(s)].version = ledger[LedgerA(s)].version + 1
        /\ ledger'[LedgerB(s)].version = ledger[LedgerB(s)].version + 1

ExpiresNow(s) ==
    /\ now > slot[s].execute_expiry + CLOCK_TOLERANCE
    /\ records' = records
    /\ ledger'[LedgerA(s)].version = ledger[LedgerA(s)].version
    /\ ledger'[LedgerB(s)].version = ledger[LedgerB(s)].version

LeavesTogether(l) ==
    /\ ledger[l].status \in {"BothPending", "PendingCounterparty"}
    /\ ledger'[l].status # ledger[l].status
    => \E s \in Slots :
         /\ BothLocked(s) /\ l \in {LedgerA(s), LedgerB(s)}
         /\ ledger'[LedgerA(s)].status = "Active"
         /\ ledger'[LedgerB(s)].status = "Active"
         /\ slot'[s].status = "Absent"
         /\ SettlesNow(s) \/ ExpiresNow(s)

(* accept_commit.rs:83 "no unilateral walk-away": a ledger of a locked deal  *)
(* leaves the lock only in the same step as its counterpart's ledger, either *)
(* settled on both sides with one new record of the agreed hash, or, once    *)
(* the execute window is over, with no settlement on either side.            *)
NeitherWalksAway == [][\A l \in Ledgers : LeavesTogether(l)]_vars

RecordsOf(l) == {r \in records : l \in {r.ledger_a, r.ledger_b}}
VersionIn(r, l) == IF r.ledger_a = l THEN r.version_a ELSE r.version_b

(* The settlement records of a ledger stay in order, although a deposit moves  *)
(* its version on too and leaves no record (deposit.rs:77): no two records    *)
(* claim one version, none is ahead of the ledger, later versions settle      *)
(* later, and the latest is the one the ledger names in last_settlement_id    *)
(* (execute_settle_b.rs:181-211; slot addresses and nonces may be reused).    *)
RecordsInOrder ==
    \A l \in Ledgers : \A r \in RecordsOf(l) :
        /\ VersionIn(r, l) \in 1..ledger[l].version
        /\ \A q \in RecordsOf(l) :
              /\ VersionIn(r, l) = VersionIn(q, l) => r = q
              /\ VersionIn(r, l) < VersionIn(q, l) => r.settled_at <= q.settled_at
        /\ (\A q \in RecordsOf(l) : VersionIn(q, l) <= VersionIn(r, l))
              => ledger[l].last_settlement_id = r.id

(* Every lock ends: whatever the counterparty does or fails to do, a ledger  *)
(* that is locked is Active again (cancel_initiate.rs, cancel_mutual.rs).    *)
LocksReleased ==
    \A l \in Ledgers :
        ledger[l].status \notin {"Absent", "Active"} ~> ledger[l].status = "Active"
=============================================================================
