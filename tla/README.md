# Nexum-B verification project

Nexum-B settles over-the-counter trades on Solana. Two parties lock their
encrypted balances against each other (the "symmetric dual-lock"), prove in zero
knowledge that the new balances follow from the agreed amounts, and have both
balances replaced in one instruction; or the lock expires and is taken back. A
regulator may be given a key that opens the amounts. This directory holds TLA+
models of the program and of the clients that drive it, the TLC configurations
that check them, and proofs checked by TLAPS.

`src/...` paths are relative to the repository; `I/` stands for
`src/programs/nexum_pool/src/instructions/`.

## 1. Inventory

### The on-chain program, settlement life cycle (`programs/nexum_pool`)

*State.* A `UserLedger` per owner and mint: a lock status (Active,
PendingInitiator, BothPending, PendingCounterparty), a version, ciphertexts with
their randomness, and `pending_*` fields that describe the deal it is locked for. A
`CommitSlot` per ledger and nonce: the deal, WaitingAccept or BothLocked, closed
when the deal ends. A `ProofData` account per nonce with six chunks. A
`SettlementRecord` per slot address and settlement nonce, never closed. One
`nexum_config`.

*Operations.* initialize_pool, create_user_ledger, initiate_commit, accept_commit,
create_proof_data, write_proof_data, execute_settle_b, cancel_initiate,
cancel_mutual. Execute calls `zk_verifier` twice by CPI.

*Hard behaviour.* Instructions of all users in any order; four deadlines that meet
at expiry + tolerance; state about one deal kept in four accounts of which two
belong to the other party; addresses that are reused when a nonce is reused.

*Correct means.* Slots and ledgers agree on who is locked with whom; nobody leaves
a locked deal alone; a ledger's records stay in order; every lock ends.

### Vault and custody (`I/create_vault.rs`, `I/deposit.rs`, `I/withdraw.rs`)

*State.* One token account per mint, the users' token accounts, and the same
`UserLedger`. *Operations.* initialize_vault, deposit (the first one installs the
encrypted balance), withdraw (with a proof about the old ciphertext). *Hard
behaviour.* They interleave with the steps of a settlement on the same ledger, and
"first deposit" is told from all-zero bytes. *Correct means.* Tokens are conserved;
a change of an encrypted balance has a version of its own; versions remain usable
as the order of the settlement records, although a deposit takes one and leaves no
record.

### Administration, migrations and the regulator's key (`I/initialize_pool.rs`, `I/migrate_*.rs`, `I/register_regulator.rs`, `scripts/devnet-*`)

*State.* The size of the config and of each ledger (earlier versions made them
shorter), the config's authority and the regulator's public key. *Operations.*
initialize, migrate, register, and four operator scripts that string these
together. *Hard behaviour.* Each reader of an account has its own idea of how long
it must be. *Correct means.* A registered key is used by the next settlement.

### The SDK's transactions and settlement client (`sdk/src/utils/send_tx.ts`, `sdk/src/scheme_b`) and the counterparty's scripts

*State.* What an awaiting function holds. *Operations.* sendAndConfirmPolling
signs, sends and polls the status for 90 s; initiateCommit, acceptCommit,
executeSettle and the cancels build transactions from account reads;
`auto-accept.js` waits for a deal, cancels an expired one, creates the missing
ledger and accepts; `devnet-accept.ts` accepts unseen. *Hard behaviour.* A
transaction reported as failed may land later; a success may be a failure in the
last gap; accounts are read long before the transaction built from them lands; two
parties execute one deal. *Correct means.* A settlement is the work of one call;
what was verified is what is locked.

### Proof workers (`sdk/src/workers`)

*State.* One worker, one pair of callbacks, two message queues, the attempts of
the prover. *Operations.* init, generateProof, terminate; init and prove messages;
three attempts. *Hard behaviour.* Answers carry no request identity; a worker may
be replaced while it answers; its script or snarkjs may be missing. *Correct
means.* A promise is settled, with the proof of its own inputs, in the program's
byte order.

### The SDK's commit listener (`sdk/src/listeners/commit_listener.ts`)

*State.* Running or not, a subscription or an interval, the slots already seen.
*Operations.* start, stop, log callback, transaction fetch, polling tick.
*Correct means.* A request to this wallet reaches the handler.

### The app's settlement hook and trader page (`app/src/hooks/useSchemeB.ts`, `app/src/pages/trader.tsx`)

*State.* A phase, `pendingParams` (the current deal), an interval for the countdown,
one poll per initiated slot, scheduled executions. *Operations.* initiate (with the
ledger it may have to create), executeSettlement, cancelInitiate, cancelMutual,
forceCancel (UNLOCK LEDGER), the callbacks of interval and poll; a reload. *Hard
behaviour.* Several asynchronous functions at once, each of which reads shared state
before an await and writes the phase after it. *Correct means.* What the page
reports is so; one execution's ciphertexts and randomness are not mixed with
another's.

### Private balances in the browser (`useSchemeB.ts`, `sdk/src/crypto/elgamal.ts`)

*State.* The ciphertexts of a ledger, and one ElGamal key in sessionStorage.
*Operations.* deposit (a new key), executeSettlement (the saved key or a new one; a
new key for the counterparty), withdraw (decrypt, prove the rest). *Hard behaviour.*
Each writes or needs the one saved key, some time before or after the chain changes
the ciphertext it is for, and any of them may fail in between. *Correct means.* The
counterparty agrees to the committed amounts; a balance that can be decrypted can be
withdrawn; nothing is lost by settling. That the key outlives a deposit, which
useSchemeB.ts:962 is after, is not so (section 5).

### The regulator's page (`app/src/pages/regulator.tsx`)

*State.* A phase, the record queried, a key derived from a wallet signature, an
unsealing under way, a log on display. *Operations.* query, sign, unseal (two account
reads), export, reset, leave. *Hard behaviour.* Ledgers change while they are read;
reset does not cancel what is under way. *Correct means.* It is clear whose amounts
are shown, and of which settlement; a wrong key shows nothing.

### Commitment, circuits and encryption (`utils/commitment.rs`, `sdk/src/crypto`, `circuits`)

*State.* None. *Operations.* The 128-byte preimage of a deal, written by Rust, SDK,
SDK prover, browser and, in bits, by the circuit; the equation old = new + amount on
32-bit limbs in a prime field; public inputs that bind a proof to a commitment or to
a ciphertext; twisted ElGamal and its decryption by baby-step giant-step. *Hard
behaviour.* Five layouts in three languages, of which one shifts at 32 bits;
subtraction with a borrow in a field where -1 is a large number; halves of a digest
picked by index; a search in a group of composite order. *Correct means.* The
layouts agree; an accepted proof is a subtraction of integers; what a trader is
entitled to can be proved; decryption inverts encryption.

## 2. Modules

| module | role |
|---|---|
| `SettlementProgram` | the settlement life cycle, one action per instruction |
| `OtcDeals` | what it promises: offers and bilateral deals, without accounts or clock |
| `SettlementRefinement` | the mapping of the first to the second |
| `VaultProgram` | extends SettlementProgram by the vault; every settlement instruction stays a step |
| `SettleHook` | extends SettlementProgram by one trader's tab: hook, page, sendAndConfirmPolling |
| `SettleClients` | extends SettlementProgram by the SDK's clients and the counterparty's scripts |
| `BalanceCircuits` | the circuits' equation, range checks and public inputs over a field; no state |
| `Commitment` | extends it by the five layouts of the preimage and the digest; no state |
| `PrivateBalance` | extends that by one trader's balances, the session key and the proofs made of them |
| `ElGamal` | encryption and decryption over a cyclic group; no state |
| `Regulator` | extends it by administration, migrations, settlements for a regulator, and the regulator's page |
| `CryptoWorker` | CryptoWorkerClient, its workers and the prover |
| `CommitListener` | the listener, subscribed or polling |
| `SettlementProofs`, `VaultProofs`, `CommitmentProofs`, `PrivateProofs`, `RegulatorProofs`, `ClientProofs`, `WorkerProofs`, `HookProofs` | theorems and proofs |
| `MC*` | instances for TLC |

### How `SettlementProgram` corresponds to the code

A transaction is atomic, so an instruction is one step; its account constraints
(the `#[account(constraint = ...)]` lines) and `require!`s are the guard, its
assignments the primed variables. An instruction that fails changes nothing and
is no step. An address is its seeds: a ledger `<<owner, mint>>`, a slot
`<<ledger of A, nonce>>`, a proof account its nonce, a record `<<slot, settlement
nonce>>`; so address reuse after a slot is closed is in the model. A `UserLedger` is
split into `ledger` and `pending` because `clear_pending` resets exactly the
second. A ciphertext is a member of `Encryptions`, used for the randomness that
belongs to it too; low and high limb and the audit ciphertext always move together
and are one field. A proof payload is the hash it proves, all-zero bytes are `Zero`,
and `VerifyProof` accepts what the pairing check accepts: a non-zero proof of the
public hash. `is_paused` is FALSE from initialize_pool on and no instruction sets
it, so `config` only says whether the account exists. The clock is `now`, advanced
by `Tick`; timestamps are not bounded by 64 bits because the code only adds windows
of seconds to the cluster's clock.

### How `VaultProgram` corresponds to the code

`Deposit` moves tokens, then `OpenBalance` installs the client's ciphertext if the
stored one is all zero. There is no status constraint in deposit.rs, hence none in
the guard: a first deposit into a locked ledger installs a balance while it is
locked, although README.md:141 says both balances freeze. `Withdraw` requires an
Active ledger, and a proof whose only public input is the old ciphertext. The
handler's assignments to the ledger (withdraw.rs:112-118, "Update encrypted balance")
are not in the action: the account is not declared `mut` (withdraw.rs:37-44), and
Anchor writes back only accounts that are. So the tokens go out and balance and
version stay. Whether the amount
is covered by the encrypted balance is the circuit's matter. That a proof for the
handler's public input can be made at all is an assumption of this module: with the
circuit of the repository it cannot (`private_withdraw`), and the vault's runs and
theorems say what holds of the program once it can.

### How `SettleHook` corresponds to the code

Each asynchronous function of the hook is a task: `at[t]` is the await it stands
at, `awaited[t]` the transaction it waits for. A step of a task runs from one await
to the next. `Land` executes the transaction on the program at any time or, if the
program refuses it, marks it failed. `Returns` and `Throws` are the two ends of
sendAndConfirmPolling; one that gives up leaves the transaction in `late`, from
where it may still land or disappear. The final status check after the timeout
(send_tx.ts:59-63) does not look at `err`, so `Returns` may answer a refused
transaction with its signature, whichever transaction it is. `Unreliable` says
whether requests to the RPC node may fail and waits end without an answer.
`captured[r]` is the `const p = pendingParams.current` of an execution;
`answers[s]` are poll requests under way, which apply although the poll is stopped
meanwhile; `due` are the executions a poll has scheduled with setTimeout. The
buttons are those the page renders for the phase (`SCHEME_TO_VISUAL` and the JSX of
trader.tsx), and `SettlementRecord` is the record the settled panel derives for its
list of transactions. `PageLost` is a reload or a disconnected wallet. The browser's
timers and the cluster's clock are independent, so `CountdownEnds` may come at any
time. `countdownRef` holds one interval and is overwritten without clearing the old
one (useSchemeB.ts:451, 510): `stray` says that such intervals still run, which clear
the newer one when they end.

Left out of it: the regulator's chunks (`Regulator`), vault calls and session keys
(`PrivateBalance`), a second initiate or cancel while one is under way, and
`verifyAndAccept`, the page's demo accept: acceptCommit refuses the initiator's own
wallet (accept.ts:38-40), so it only ever throws. initiate's branch for "already
been processed" (useSchemeB.ts:417-484) waits for a preflight error, and
sendAndConfirmPolling skips preflight. `ensureVault` has no caller.

Two things go wrong, and have a run each that shows it. `hook_gap`: an execution
refused after its window is reported as SETTLED, with no record on chain.
`hook_mixed`: a scheduled execution and one started by the button write each other's
chunks (useSchemeB.ts:532, trader.tsx:950), and the ledger stores one's ciphertext
with the other's randomness. The passing run `hook` has both in it and says that they
have no other cause: `FalseReportsOnlyInGap` admits a false report only if the very
transaction reported was refused, and `MixedOnlyWhenShared` admits mixed randomness
only in a ledger whose last deal two executions took up. A third has no run: UNLOCK
LEDGER sends only cancel_initiate (useSchemeB.ts:862), so a dual-locked ledger in
the phase ERROR is not freed by any button, nor is it by the "Fail" of README.md:164.

### How `SettleClients` corresponds to the code

A call of executeSettle is a member of `Runs`, and its ciphertexts and randomness
are that member, so mixing two calls shows. `step` counts its six transactions;
`Confirmed` is the next of them taking effect, `TimesOut` and `LandsLate` the throw of
sendAndConfirmPolling and the landing that follows it, `FailsInGap` the refusal of any
of the six reported as a success (send_tx.ts:59-63), and `Fails` every other end. Initiate and accept
transactions wait in `sent` and land or drop at any time; a wallet does not start
another initiate (or accept) while the last may still land, because each call
is awaited and a blockhash outlives the wait only briefly. `DateNow` is Date.now():
later calls of one client have larger numbers. `daemon` is auto-accept.js: where
it is and the nonce it has read; it acts on the slot of that nonce whatever has
happened to it. A cancel is one transaction with nothing read before, so it is the
instruction itself.

`missed` is history: which calls had which transaction's refusal taken for a success.
The properties are weakened by exactly that and no more. A miss at one of the first
five transactions gives up both properties for the deals of its nonce, because
create_proof_data failing for the second caller is what they rest on. A miss at the
sixth makes the call return a settlement_id without a record, and `NoSecondAttempt`
admits only that. Refused is what the program has no step for; a miss on one nonce
does not excuse another.

### How `CryptoWorker` and `CommitListener` correspond to the code

A call of generateProof is its number. `pending` is the client's one pair of
callbacks; `inbox` and `outbox` are the two directions of postMessage; a worker
serves requests concurrently because its handler awaits the proof, so `jobs` is a
set. `Settle` is handleMessage and onerror: whatever arrives settles the callbacks
held. `overlapped` is history: calls made while an earlier one was unsettled, or
while a replaced worker may still be heard.

In the listener a text is its bytes in an encoding: the constants are hex and
base64, `emit!` logs base64, a memcmp filter is taken for base58. That is all the
data the handlers look at.

### How `BalanceCircuits`, `Commitment` and `PrivateBalance` correspond to the code

A limb has `LIMB` values (2^32), a circuit computes modulo `FIELD`, a byte has
`ByteBits` bits and a word `WordBytes` bytes; a public key is one byte. All the
arithmetic is the code's on these smaller widths: two's complement, shifts, the
order of bytes and of bits in a byte. Powers of two are a recursive function
(`PowerOfTwo`), because the provers have no rules for `^`. `Digest` is SHA-256 without collisions, in two
halves of 16 bytes. A proof is accepted exactly when its private inputs satisfy
the circuit for its public inputs; `Prove` is a prover who picks any limbs.

A ciphertext is the key it was made for and the two limbs it holds; `Readable` says
that the saved key is that key. The await of a deposit is `depositing` (sent, then
`landed`), that of a settlement `executing`, so the two interleave as their
functions do; the page's `vaultBusy` keeps only deposits and withdrawals apart. A
first deposit creates the vault if there is none yet. `deal` is `pendingParams` with
the slot's digest; one deal of the trader at a time, and in `SettledByInitiator`
another browser settles a deal in which this trader is the counterparty.
`WithdrawFromVault` is browserGenerateWithdrawProof; whether the circuit accepts is
`WithdrawalProved`.

Left out: what the chain checks beside digest and proofs (it is in the modules
above), a transaction that lands after its sender gave up (`SettleHook`), the
regulator's ciphertexts (`Regulator`), and the randomness stored with a ciphertext.

### How `ElGamal` and `Regulator` correspond to the code

A point of the curve is its multiple of a generator of the whole group, of order
8 * `SubOrder`; `Base8` is 8. A packed point keeps the y, shared by a point and its
negative, and a sign, so `decryptU32` meets the same ambiguity as the code does.
64 zero bytes unpack to a point of order four, which is why an empty ciphertext
decrypts to 0 for keys that are 1 modulo 4 and fails for the others. Limbs have
`STEP`^2 values where the code has 2^32. `randomFieldElement` masks to 253 bits, so it
exceeds the subgroup's order (the comment at elgamal.ts:233 says it does not); the
group does not mind.

Config and ledgers have a size in bytes. `ConfigLoads` is Anchor's deserialization,
`KeySeen` the hook's own length check, `Decrypted` the page's. `Init` starts from the
accounts earlier versions may have left. `LedgerOf` says which ledgers a deal is
between; deals may share one or both, on either side. A ledger's `from` is history: the
settlement its regulator ciphertexts are from. `OpenBalance` is a deposit that
advances a version and leaves those ciphertexts. The page takes any account of 194
bytes for a record (regulator.tsx:393); `OtherAccounts` are such accounts that are no
record, and the owners and mints it reads there have no ledger. `page.unseal` is an
unsealing under way with the record and the key it took; each of its two reads is a
step.

The page's audit log is left out: nothing reads it but its panel, so it decides
nothing. What is wrong with it is in section 5.

## 3. Runs

Each run asks one question; actions and properties are described in the modules.

| run | asks | result |
|---|---|---|
| `settlement` | every order of instructions of three users: slots match ledgers, nobody walks away, OtcDeals is implemented, and a lock ends whatever the counterparty does | holds |
| `vault` | tokens conserved, versions follow balances, the records of two deals stay in order with deposits in between | holds |
| `hook` | two executions or two deals, lossy network, errors taken for successes, reloads: false reports and mixed randomness have one cause each | holds |
| `hook_gap` | trader.tsx:995: what is listed as SETTLED is on chain | refuted: send_tx.ts:60-63 takes a refusal for a success |
| `hook_mixed` | user_ledger.rs:69: the stored randomness is that of the stored ciphertext | refuted: EXECUTE SETTLE beside the scheduled execution |
| `settle_clients` | two executing clients, a verifying counterparty, the daemon, a refusal taken for a success: one call carries a settlement unless that refusal was on its nonce, an accept locks what was verified | holds |
| `crypto_worker` | two calls, two workers, any failure: own proof, no proof twice, every awaited call answered | holds |
| `commit_listener` | commit_listener.ts:4: a new request reaches the handler | refuted: every text it looks for is in the wrong encoding |
| `private_balance` | layouts agree and deals can be proved, the counterparty agrees to what is committed, proofs subtract | holds |
| `private_withdraw` | withdraw_balance_check.circom:82: the circuit's inputs match the contract's | refuted: it takes the other half of each digest, so no withdrawal can be proved |
| `private_rest` | README.md:144: a valid transition of the balance | refuted: settling part of a balance leaves zero |
| `regulator` | whose amounts the page may show under a record, that they are what a settlement moved, that a registered key is used | holds |

### Bounds and why they are enough

* `MaxTime` stops the clock after the last deadline of the last deal that `Horizon`
  lets begin; `Horizon` refuses later initiates and accepts. In the vault's and the
  clients' runs a deal may be cut off by the end of time but never wrongly released. In
  `settlement` the clock goes on past every window, as its liveness property needs.
* Windows are zero to two seconds and the tolerance zero or one: all comparisons are
  between sums of these, and every order of clock, expiry and tolerance (before, at,
  after) occurs in `settlement`. `Initiate` also tries a window one too short
  and one too long.
* Three users on one mint give the initiator that is a counterparty elsewhere, the
  counterparty wanted by two initiators, and a chain of deals; two mints double the
  ledgers without a new relation between them (the proofs cover any number). One
  nonce forces slot addresses to be reused. `MaxSettlements` bounds the records, not the
  deals: one in `settlement`, where deals that expire may follow it; two in `vault`.
* Vault: one token per user and amounts 0 and 1 reach the refused zero, the empty
  wallet and the empty vault. Two records, in either direction between two users and
  before or after deposits, are what order and uniqueness of versions are about. One
  encryption and the zero bytes tell a balance from none; a settlement may write
  either.
* Hook: two slot nonces allow a deal after a deal, two runs an execution beside
  another; `TwoExecutionsOrTwoDeals` leaves out both at once. One poll answer per slot
  at a time (`MaxPolls`), one late transaction (`MaxLate`). Windows and tolerance are
  zero and the clock advances once, past them: the browser does not follow the clock,
  so a longer window only repeats states. Two deals reach an interval that outlives its
  place in `countdownRef`.
* Clients: one initiator and one counterparty, who is also the scripts'; two nonces,
  so that one deal can follow another; two hashes, so that an accept can have
  verified the wrong one; two calls of executeSettle, by either party on either deal.
  One refusal is taken for a success, and no second deal begins after it (`OneMiss`).
  A client's clock is off by a second.
* Worker: two calls and two workers show an overlap, a replacement and an orphan;
  the two retries are those of the code.
* Private balances: limbs of 4 bits and a field of prime order above 2 * 16^2. The
  amounts need one limb or two, and 33 - 18 borrows; two pairs of deal amounts
  differ in the high limb only. The nonce and the expiry need both words. Guessed limbs
  are 0, 1, the largest limb, the first that is too large, and -1. Three keys allow a
  deposit, another deposit or a foreign settlement, and a settlement's key.
* Regulator: two deals, of which the second has a ledger of the first, on its other
  side: there the later deal's amounts replace the earlier one's, and on the other two
  ledgers nothing does. One amount has two limbs and one is a zero. Two wallets
  with keys 5 and 3, one of which is 1 modulo 4. Deposits and ledgers of an old size,
  one at a time (`OneOldLedgerOrDeposit`); one account that is no record. Subgroup
  order 101 and steps of 2, randomness above the order. Ledgers of both earlier sizes
  and of today's, a config of the earlier size or none. For these numbers a wrong key
  never hits a 32-bit limb (`OtherKeysFail`, which TLC evaluates for them); in the code
  a wrong key hits with a chance of about 2^33 in 2^253.

Symmetry: users in `vault`, calls in `hook`, hashes and calls in `settle_clients`, keys
in `private_balance`; no run with a liveness property uses it. Deadlock is not
checked because all these systems may stop: the clock ends and no deal need be
begun. State constraints are used in three runs, `hook`, `settle_clients` and
`regulator`, and are the three named above; none is used with liveness.

### Fairness

`settlement`: the cluster's clock runs (`WF(Tick)`), and an enabled cancel is
submitted in the end (`WF` of each cancel). The first is what the cluster does. The
second is the assumption that the owner, whose balance is locked, presses the cancel
button; auto-accept.js also cancels expired initiates. Nothing is assumed of
accept or execute, so the counterparty may do nothing for ever.

`crypto_worker`: the event loops of the main thread and of every running worker serve
their queues, and an attempt of fullProve ends, in success or failure. That attempts
end is part of the prover's contract; which way they end is not assumed, nor is any
call of the client.

`commit_listener`: callbacks are called, the interval ticks, requests are answered.
This is all the listener could ask for, and it still misses the request.

## 4. Theorems

For every number of users, mints, nonces and every window length, under the named
assumptions on the constants (`WindowAssumption`: naturals; `ZeroAssumption`: the
zero bytes are no user, mint, hash or encryption; `NonceAssumption`; for the vault
`AmountAssumption`, and `UsersAssumption`, finitely many users, without which there is
no sum of their balances; for private balances `FieldAssumption` and `WordAssumption`,
that a field element holds two amounts and a limb is a word of bytes, `AmountAssumption`,
that amounts fit 64 bits, keys a byte and expiries an i64, as the code's types say, and
`NoneAssumption`, that null is neither a ciphertext nor an execution; for the regulator
`GroupAssumption`, `RegulatorAssumption` and, for `RevealedAmountsAreSettled` alone,
`OtherKeysFail`; for the clients `RunAssumption` and `ScriptAssumption`,
which also asks that the bounds on nonces and chunks of `SettlementProgram` leave
out nothing the clients send; `HookAssumption`, which asks the same for the tab, and
that null is no slot's address and an execution's encryption not the name of another
function):

* `TypeCorrect`, `LocksAndSlotsMatch`: `TypeOK` and `LockSlotMatch` always hold. The
  inductive invariant `IInv` is their conjunction. `LockSlotMatch` is inductive only
  because it says both directions: a slot determines its two ledgers' statuses
  (`WaitingMatchesA`, `LockedHoldsBoth`), and a lock determines its slot
  (`EveryLockHasSlot`). Without `NothingStale` an initiate could not be shown to
  hit a free ledger, and without `TermsAgree` cancel_initiate, which reads only the
  ledger's pending fields and never the slot's status, could not be shown to close
  the right slot. `OneDealPerCounterparty` is needed when a deal ends: ledger B
  stores the initiator and the nonce but not A's mint, so its own fields do not
  identify its slot.
* `NobodyWalksAway`: `NeitherWalksAway` follows step by step from `IInv`; execute and
  cancel_mutual are the only steps that lift a dual lock.
* `ImplementsOtcDeals`: each instruction is a step of `OtcDeals` or a stutter under the
  mapping of `SettlementRefinement`, given `IInv` and that a ledger which does not exist
  has version 0 (`NoPastBeforeLedger`).
* `VaultInductive`, `VaultTypesCorrect`, `DepositsKeepLocks`, `VersionsTrackBalances`:
  `VaultTypeOK`, `LockSlotMatch` and `VersionTracksBalance` in the composed program.
  `VaultInv` adds that an absent ledger is blank, so creating one is no change of a
  balance.
* `RecordsStayInOrder`: `RecordsInOrder` in the composed program. It claims nothing of
  versions without a record, since a first deposit takes one (deposit.rs:77). It is not
  inductive alone: `RecordsPast`, no record is from the future and none has one ledger on
  both sides, makes a new record the latest and gives it one version per ledger; that
  no record is ahead of its ledger keeps its version unused.
* `TokensAreConserved`: `TokensConserved`, for any finite set of users. The sum is a fold,
  whose own induction theorem the provers cannot use; `SumExists` shows instead, from a
  smallest set without one, that every finite set has a sum defined by removing an
  element at a time, `SumChange` that a new balance of one user changes it by as much,
  and `MoveConserves` that a deposit or withdrawal therefore changes no total.
* `AcceptedIsSubtraction`, `BalanceIsWithdrawable`: about the circuits' equation and
  range checks, for every limb size and every field above 2 * LIMB^2
  (`FieldAssumption`). A sum of two range-checked amounts is below the field's order,
  so the equation modulo the order is one of integers; and an amount up to the
  balance splits into limbs in range.
* `PrivateTypesCorrect`, `ProofsSubtract`, `SubtractionsHaveWitnesses`: the same for
  every reachable state of `PrivateBalance`. `PrivateTypeOK` is inductive and says that
  every stored balance has limbs in range, which is what the second lemma needs.
* `CommitmentBinds`, `EveryDealCanBeProved`, `CounterpartiesAgree`: for every byte and word
  size. `PowersExist` gives `PowerOfTwo` its equation (in the manner of `SumExists`),
  `PlaceOfBit` and `BitAtPlace` say where a bit of a number is among its bytes,
  `BitsDetermine` that a number is its bits, and `BitsOfConcat` that the bits of a joined
  buffer are the joined bits. From these, the five layouts are one: `SdkIsRust` (an
  expiry plus 2^64 has the bytes of the negative expiry, `LongWraps`), `BrowserIsRust`
  (two signed words have the bytes of the long, `LongFromWords`), `ProverIsRust`
  and `CircuitIsRust` (bits in streams, field by field). All have fields of fixed
  lengths, so each term can be read off the bits: `CommitmentBinds`. `DealInv`
  says of a deal under way that its terms fit their fields and that the slot holds their
  digest; that every deal can be proved follows with `BalanceIsWithdrawable`, which gives
  the witness's equation and ranges, and that the parties agree with `CommitmentBinds`, since a counterparty
  compares the digest of what it was told. `Digest` is free of collisions.
* `DecryptionIsInverse`: for every odd subgroup order, every table size whose square
  is below it (`GroupAssumption`), every key, randomness and amount, decryptAmount
  inverts encryptAmount. The shared secret cancels modulo the group's order; the
  remaining point is 8 times the limb; the baby steps are injective because the order
  is above the limbs' range; and the first giant step that hits is the limb's
  quotient, because no earlier one leaves a remainder below the table's size.
* `RegulatorTypesCorrect`, `RegisteredKeyOpens`, `RevealedAmountsAreOfRecord`: for any
  number of deals over any ledgers, wallets, keys and amounts. The inductive
  invariant is the types, that a config with a key has the full size (`KeyFitsConfig`,
  which is why the hook's stricter length check never overlooks a key), that a ledger of
  a recorded deal holds what that deal left there or a later one with a larger version
  (`LedgersLatest`), and `PageInv`: an unsealing under way is for the page's record, and
  what it has read was read for that record after its settlement. `RecordIsLatest`
  shows that a settlement keeps `LedgersLatest` for every record, its own included,
  however the deals share ledgers. `RegisteredKeyOpens` then cites
  `DecryptionIsInverse`.
* `RevealedAmountsAreSettled`: `SealInv` follows ciphertexts from a deal's chunks to
  the ledgers, to what the page has read of them and to what it shows: they are zero
  bytes, or the amount of the deal they came with for the key of some wallet. Zero
  bytes are a point of order four (`ZeroBytesOpen`): a key takes it to the neutral
  element, which is the amount 0 and is not shown, or to a point no giant step leaves a
  multiple of the base point. The right key gives the amount by `DecryptionIsInverse`.
  That another wallet's key gives nothing is the assumption `OtherKeysFail`: it is what
  cryptography contributes, and not true of every group and every set of keys.
* `ClientsRunTheProgram`: every step of a client, a script or a transaction on its way
  is an instruction of the program or a stutter. `Spec`, and with it every theorem about
  `SettlementProgram`, therefore holds of the program in the clients' hands. The proof
  needs `ClientTypesCorrect` and that the daemon acts on a nonce it read from a waiting
  ledger (`DaemonNonce`): the pending nonce of a free ledger is 0 and no client's.
  `ClientsMakeBilateralDeals` spells out what follows: the clients implement `OtcDeals`,
  and nobody leaves a deal alone.
* `OneCallSettles`, `NoCallResumesAnother`: the inductive invariant `CallInv` says of
  every nonce on which no refusal of the first five transactions was taken for a
  success (`MissedAt`) that whoever is past create_proof_data is the `creator` of its
  account and that the chunks it wrote are still its own (`ChunksOfCreator`). Another
  call on that nonce cannot get past its first transaction, so nobody overwrites them.
  Records belong to a call that ended at its last step (`RecordsOfRuns`), hence not to
  one still under way; a call that is done has its record, or the refusal of its own
  execute_settle_b was taken for a success (`DoneRecorded`).
* `AcceptsLockWhatWasVerified`: `AcceptInv` says that the nonce of a user's initiates
  only grows, so the address of a slot that was seen is `Past`: no initiate on its way,
  and none to come, opens it again. What an accept verified is then either still
  there with the same hash or gone for good.

* `WorkersInductive`, `WorkerTypesCorrect`: `WorkerInv` follows a call from the request
  in a worker's inbox through its computation to the answer, and says that the call, or
  its proof, is in one place at a time (`InOnePlace`, `OneAtATime`), and, where calls did
  not overlap, that what a running worker may still post belongs to the pending call
  (`OnlyPending`). The lemmas on moves say which place each step empties and which it
  fills; the invariant is proved from those alone.
* `CallersGetTheirOwnProof`, `NoProofSettlesTwo`: the first needs `OnlyPending`, since
  messages carry no request id and an answer settles whatever call is pending. The
  second holds with overlapping calls too: a proof leaves its place when it settles a
  promise (`InOnePlace`), and nothing can prove a call before it is made (`Earlier`).
* `HookTypesCorrect`, `HookRunsTheProgram`: `HookInv` is `IInv`, the types of the tab and
  `TasksOK`, that each function of the hook awaits the transaction of the step it is
  in. Every step of the tab, and every transaction that lands late, is therefore an
  instruction of the program with arguments it admits, or none, and the program's
  theorems hold in the hook's hands. `HookMakesBilateralDeals`: so the tab implements
  `OtcDeals` and keeps the history, from an initial state that satisfies `HInv`, though
  it is not one of `Spec`: the tab opens on a pool that has its ledgers.
* `PageReportsTruly`: `FalseReportsOnlyInGap`, with errors taken for successes at every
  transaction. That a settlement is shown only with its record, or where its own
  execution was refused, follows from `SettlesWhenLanded`. That CANCELLED is shown only
  with the slot closed, or where the cancel was refused, needs `NewDeals` and
  `AbortsClose`: each initiate has a larger nonce than the deal it replaces, hence no
  initiate that is still to land reopens a slot being aborted.
* `MixedByTwoExecutions`: `MixedOnlyWhenShared`, for any number of executions. Both chunks
  of randomness a run's execution will copy are its own, or its deal is shared, or its
  slot is closed and the execution will be refused (`RunsWrote`); also when the tab
  has given up on that execution (`LateWrote`). A chunk refused unnoticed does no
  harm alone: a chunk is refused only when the slot is closed, and nothing opens it
  again (`RunDeals`).

The `MaxTime`, `Horizon` and `MaxSettlements` guards only remove steps; the proofs
use none of them.

*Model-checked only.* Liveness (`LocksReleased`, `CallAnswered`), which is outside
the prover, and what the violation runs refute. Every invariant and every action
property of a passing run, the refinement included, is a theorem.

## 5. Not modelled

| part | why |
|---|---|
| `I/version_slots.rs`, `state/version_slot.rs`, `sdk/src/scheme_b/version_slots.ts`, `pages/maker.tsx` | `lib.rs` registers none of its instructions and the IDL has none, so every call fails; registered, handler and SDK would derive different addresses |
| `circuits/balance_transition.circom` | the earlier circuit with public amounts; nothing calls it |
| pairing, SHA-256, curve arithmetic | pure functions on large fields; they appear as acceptance of a proof, an injective digest and a cyclic group |
| `scripts/devnet-full-flow.ts`, `devnet-unlock.sh`, `generate_vk.ts`, `show-encrypted-balances.ts`, `devnet-inspect.ts` | they call the program with arguments it no longer has, or only read and format |
| `pages/home.tsx`, `login.tsx`, `settle-b.tsx`, `maker-dashboard.tsx`, `I18nProvider.tsx`, components, styling | rendering, text and form state; two of them are not routed |

Seen while modelling and covered by no property, because no document claims
otherwise or no handler depends on it:

* UNLOCK LEDGER answers late: its IDLE replaces the phase of a newer deal. A poll
  stopped meanwhile may still show BOTH_LOCKED for a newer deal.
* The commit slot on the settled panel is that of `pendingParams`, the transactions
  are those of the last execution; they may be of different deals.
* A ledger's regulator ciphertexts hold transferred amounts, not balances
  (useSchemeB.ts:726, proof_data.rs:25), and are overwritten by the next settlement
  without a key. A zero amount is displayed as a missing key.
* The regulator page's log does not contain failed queries and is lost on leaving,
  though the page calls it indelible.
* `useSchemeB.ts:187` reads a ledger's randomness at 970, where it is at 994;
  `devnet-migrate-ledger.ts` takes 994 bytes for migrated, where the program's
  accounts have 1056; `randomnessToBytes` keeps 31 bytes of a 253-bit number
  (useSchemeB.ts:79).
* The SDK lets through expiries of 56 to 60 seconds that the chain refuses after five
  seconds were added (initiate.ts:52).
* Two first depositors of a mint both try to create its vault; the loser's deposit
  throws and has to be repeated (useSchemeB.ts:935).

## 6. Plan

Done: the settlement program, its abstract deals and proofs; the vault and proofs
about it, conservation included; the trader's tab, the SDK's clients and scripts and
the workers, each with proofs that it keeps its promises; the listener; commitment,
circuits and private balances; administration, encryption and the regulator with
proofs; the layouts of the preimage and what a regulator is shown, proved. What would
come next: a composition of two hooks over one program.
