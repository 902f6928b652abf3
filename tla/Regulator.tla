------------------------------ MODULE Regulator ------------------------------
(***************************************************************************)
(* The regulator: the key registered in ProtocolConfig, the ciphertexts a   *)
(* settlement leaves for that key, the migrations that make room for both,  *)
(* and the regulator's page, which fetches a settlement record, derives the *)
(* key from a wallet signature and unseals the parties' ledgers.            *)
(*                                                                          *)
(* Deals are settled by the trader's hook: it encrypts the amounts for the  *)
(* key it reads from the config, writes chunks 4 and 5 and executes; other  *)
(* actors act in between.  A ledger may be a side of several deals.  The     *)
(* page's audit log, which nothing reads, is left out.                       *)
(***************************************************************************)
EXTENDS ElGamal

CONSTANTS
    Deals,          \* deals; also the addresses of their settlement records
    OtherAccounts,  \* accounts of 194 bytes or more that are no record
    Ledgers,        \* ledgers: each of an owner and a mint
    LedgerOf,       \* the ledgers of a deal: [Deals -> [Sides -> Ledgers]]
    MaxVersion,     \* bound on the version a deposit may leave
    Wallets,        \* wallets that register a key or use the page
    Amount,         \* what each side of a deal transfers: [Deals -> [Sides -> Nat]]
    SecretKey,      \* the key a wallet's signature derives
    Randoms,        \* encryption randomness
    NoWallet, NoKey, NoDeal,
    KeyNotProvided, \* what the page shows instead of an amount
    OLD_CONFIG,     \* bytes of a config made before the regulator
    OldSizes        \* bytes of ledgers made by earlier versions

CONFIG_SPACE == 179   \* 8 + ProtocolConfig::LEN
CONFIG_LEN == 171     \* what its fields need
LEDGER_LEN == 1056    \* UserLedger::LEN
REGULATOR_END == 994  \* end of regulator_ct_hi

Sides == {"a", "b"}

ASSUME RegulatorAssumption ==
    /\ Amount \in [Deals -> [Sides -> 0..U32 * U32 - 1]]
    /\ SecretKey \in [Wallets -> Nat] /\ Randoms \subseteq randomFieldElement
    /\ LedgerOf \in [Deals -> [Sides -> Ledgers]]
    /\ \A d \in Deals : LedgerOf[d]["a"] # LedgerOf[d]["b"]
    /\ NoWallet \notin Wallets /\ NoDeal \notin Deals \cup OtherAccounts
    /\ Deals \cap OtherAccounts = {} /\ MaxVersion \in Nat
    /\ OLD_CONFIG \in Nat /\ OLD_CONFIG < CONFIG_LEN
    /\ OldSizes \subseteq 0..LEDGER_LEN - 1

VARIABLES
    config,     \* ProtocolConfig: size in bytes (0: absent), authority, key
    ledger,     \* ledgers: size, version, regulator ciphertexts, and history:
                \* the settlement these are from
    records,    \* settlement records: the versions they name
    prepared,   \* per deal: chunks 4 and 5 of its proof account, and history
    script,     \* devnet-migrate-and-test.ts: where it is
    page        \* regulator.tsx: its state and what it awaits

vars == <<config, ledger, records, prepared, script, page>>

PackedPoints == {packPoint(p) : p \in 0..Order - 1}
Ciphertexts == [c1: PackedPoints, c2: PackedPoints]
Keys == {derivePublicKey(SecretKey[w]) : w \in Wallets}
NoCts == [l \in {"lo", "hi"} |-> [c1 |-> ZeroPoint, c2 |-> ZeroPoint]]
Settlements == [deal: Deals, side: Sides]
NoSettlement == [deal |-> NoDeal]
NotPrepared == [status |-> "no", cts |-> [s \in Sides |-> NoCts], registered |-> NoKey]
NotUnsealing == [record |-> NoDeal]
NotShown == [of |-> NoDeal]
FreshPage ==
    [phase |-> "input", addr |-> NoDeal, record |-> NoDeal, key |-> NoKey,
     signing |-> NoWallet, unseal |-> NotUnsealing, shown |-> NotShown]

(* execute_settle_b on the ledgers of a deal: versions advance, and the        *)
(* regulator's ciphertexts are replaced by those of the proof account.       *)
AfterDeal(before, d, cts) ==
    LET Settled(l, s) == [size |-> l.size, version |-> l.version + 1, cts |-> cts[s],
                          from |-> [deal |-> d, side |-> s]]
    IN  [before EXCEPT ![LedgerOf[d]["a"]] = Settled(@, "a"),
                       ![LedgerOf[d]["b"]] = Settled(@, "b")]

RecordOf(after, d) == [s \in Sides |-> after[LedgerOf[d][s]].version]

(* A deal of an earlier version of the program left nothing for a regulator. *)
Init ==
    /\ config \in {[size |-> 0, authority |-> NoWallet, key |-> NoKey]} \cup
                  [size: {OLD_CONFIG}, authority: Wallets, key: {NoKey}]
    /\ \E size \in [Ledgers -> OldSizes \cup {LEDGER_LEN}] :
          LET new == [l \in Ledgers |-> [size |-> size[l], version |-> 0, cts |-> NoCts,
                                        from |-> NoSettlement]]
          IN  \/ ledger = new /\ records = [e \in {} |-> 0]
              \/ \E d \in Deals :
                    /\ ledger = AfterDeal(new, d, [s \in Sides |-> NoCts])
                    /\ records = [e \in {d} |-> RecordOf(ledger, d)]
    /\ prepared = [d \in Deals |-> NotPrepared]
    /\ script = "start"
    /\ page = FreshPage

-----------------------------------------------------------------------------
(* The program's administration *)

ConfigLoads == config.size >= CONFIG_LEN

InitializePool(u) ==
    /\ config.size = 0
    /\ config' = [size |-> CONFIG_SPACE, authority |-> u, key |-> NoKey]
    /\ UNCHANGED <<ledger, records, prepared, page>>

(* Mutated form of MigratedSize: what the fields need, as the comment says.  *)
MigratedSizeExact == CONFIG_LEN

MigratedSize == CONFIG_SPACE

(* The account grows, its new bytes are zero; anybody may call it.           *)
MigrateConfig ==
    /\ config.size > 0
    /\ config' = [config EXCEPT !.size = IF @ >= MigratedSize THEN @ ELSE MigratedSize]
    /\ UNCHANGED <<ledger, records, prepared, page>>

RegisterRegulator(u, key) ==
    /\ ConfigLoads
    /\ u = config.authority
    /\ config' = [config EXCEPT !.key = key]
    /\ UNCHANGED <<ledger, records, prepared, page>>

MigrateLedger(l) ==
    /\ ledger' = [ledger EXCEPT ![l].size = IF @ >= LEDGER_LEN THEN @ ELSE LEDGER_LEN]
    /\ UNCHANGED <<config, records, prepared, page>>

-----------------------------------------------------------------------------
(* The SDK and the operator's scripts *)

(* deriveRegulatorKey: the same wallet always gives the same key.            *)
KeyOf(w) == derivePublicKey(SecretKey[w])

(* registerRegulator.                                                        *)
Register(u, w) == RegisterRegulator(u, KeyOf(w)) /\ UNCHANGED script

(* devnet-regulator-test.ts: the wallet that signs is the one that registers. *)
RegulatorTest(u) == RegisterRegulator(u, KeyOf(u)) /\ UNCHANGED script

(* devnet-reinit-config.ts: there is no instruction that closes a config.    *)
ReinitConfig(u) == InitializePool(u) /\ UNCHANGED script

(* devnet-migrate-ledger.ts: a ledger of 994 bytes counts as migrated.       *)
MigrateLedgerScript(l) ==
    /\ ledger[l].size < REGULATOR_END
    /\ MigrateLedger(l)
    /\ UNCHANGED script

(* devnet-migrate-and-test.ts: each step's failure is only printed.          *)
MigrateAndTest(u) ==
    \/ /\ script = "start"
       /\ script' = "register"
       /\ MigrateConfig \/ UNCHANGED <<config, ledger, records, prepared, page>>
    \/ /\ script = "register"
       /\ script' = "done"
       /\ \/ RegisterRegulator(u, KeyOf(u))
          \/ UNCHANGED <<config, ledger, records, prepared, page>>

(* What only cryptography gives: an amount does not open to the key of another *)
(* wallet.  Its point is then too far from those of 32-bit numbers, in a      *)
(* group of 2^251 elements.                                                  *)
ASSUME OtherKeysFail ==
    \A d \in Deals, s \in Sides, r \in Randoms, w, v \in Wallets :
        KeyOf(w) # KeyOf(v) =>
            decryptAmount(encryptAmount(Amount[d][s], KeyOf(w), r), SecretKey[v])
                = DecryptionFailed

-----------------------------------------------------------------------------
(* The hook's settlement of a deal, between its proofs and its execute *)

(* The config is looked at, and the amounts are encrypted for its key.       *)
KeySeen == config.size > CONFIG_LEN /\ config.key # NoKey

EncryptForRegulator(d) ==
    /\ d \notin DOMAIN records
    /\ \E r \in Randoms :
          prepared' = [prepared EXCEPT ![d] =
              [status |-> "yes",
               cts |-> IF KeySeen
                       THEN [s \in Sides |-> encryptAmount(Amount[d][s], config.key, r)]
                       ELSE @.cts,
               registered |-> config.key]]
    /\ UNCHANGED <<config, ledger, records, script, page>>

(* The lookup or the encryption throws: a warning, and no chunks.            *)
EncryptFails(d) ==
    /\ d \notin DOMAIN records
    /\ prepared' = [prepared EXCEPT ![d].status = "failed"]
    /\ UNCHANGED <<config, ledger, records, script, page>>

(* The record names the versions that the settlement leaves.                 *)
ExecuteSettle(d) ==
    /\ d \notin DOMAIN records
    /\ prepared[d].status # "no"
    /\ ConfigLoads /\ \A s \in Sides : ledger[LedgerOf[d][s]].size >= LEDGER_LEN
    /\ ledger' = AfterDeal(ledger, d, prepared[d].cts)
    /\ records' = [e \in DOMAIN records \cup {d} |->
                      IF e = d THEN RecordOf(ledger', d) ELSE records[e]]
    /\ UNCHANGED <<config, prepared, script, page>>

(* A deposit into a ledger whose balance is zero bytes advances the version   *)
(* and leaves the regulator's ciphertexts (VaultProgram, Deposit).           *)
OpenBalance(l) ==
    /\ ConfigLoads /\ ledger[l].size >= LEDGER_LEN
    /\ ledger[l].version < MaxVersion
    /\ ledger' = [ledger EXCEPT ![l].version = @ + 1]
    /\ UNCHANGED <<config, records, prepared, script, page>>

-----------------------------------------------------------------------------
(* The regulator's page *)

Chain == <<config, ledger, records, prepared, script>>

(* What the page is asked about: any account.                                *)
Addresses == Deals \cup OtherAccounts

Phases == {"input", "searching", "demandKey", "unsealing", "revealed", "error"}

(* What the panels of the page offer, by phase: the address field and the    *)
(* sample addresses; the two buttons for the key.                            *)
InputOffered == page.phase \in {"input", "error"}
KeyDemanded == page.phase = "demandKey" /\ page.record # NoDeal

(* The panel of a revealed record takes an amount of 0 for a missing key.    *)
Displayed(amount) == IF amount > 0 THEN amount ELSE KeyNotProvided

FetchRecord(d) ==
    /\ InputOffered
    /\ page' = [page EXCEPT !.phase = "searching", !.addr = d]
    /\ UNCHANGED Chain

(* Every account of 194 bytes is parsed as a record.                         *)
RecordFound ==
    /\ page.phase = "searching"
    /\ page.addr \in DOMAIN records \cup OtherAccounts
    /\ page' = [page EXCEPT !.phase = "demandKey", !.record = page.addr,
                            !.addr = NoDeal]
    /\ UNCHANGED Chain

(* No such account, or the request failed.                                   *)
RecordNotFound ==
    /\ page.phase = "searching"
    /\ page' = [page EXCEPT !.phase = "error", !.record = NoDeal, !.addr = NoDeal]
    /\ UNCHANGED Chain

SignWithWallet(w) ==
    /\ KeyDemanded /\ page.key = NoKey /\ page.signing = NoWallet
    /\ page' = [page EXCEPT !.signing = w]
    /\ UNCHANGED Chain

(* The wallet answers or refuses, in whatever phase the page is by then.     *)
Signed ==
    /\ page.signing # NoWallet
    /\ \E k \in {page.key, SecretKey[page.signing]} :
          page' = [page EXCEPT !.key = k, !.signing = NoWallet]
    /\ UNCHANGED Chain

(* unseal takes the record and the key with it.                              *)
Unseal ==
    /\ KeyDemanded /\ page.key # NoKey
    /\ page' = [page EXCEPT !.phase = "unsealing",
                            !.unseal = [record |-> page.record, key |-> page.key,
                                        read |-> [s \in {} |-> 0]]]
    /\ UNCHANGED Chain

(* The two ledgers of the parties and mints that the record names are read   *)
(* by two requests; what is no record names none that exists.                *)
LedgerRead(s) ==
    /\ page.unseal # NotUnsealing
    /\ page.unseal.record \in Deals
    /\ s \notin DOMAIN page.unseal.read
    /\ page' = [page EXCEPT !.unseal.read =
           [t \in DOMAIN @ \cup {s} |->
               IF t = s THEN ledger[LedgerOf[page.unseal.record][s]] ELSE @[t]]]
    /\ UNCHANGED Chain

(* A ledger too short for the field, or one no key opens, is an exception.   *)
Decrypted(l, key) ==
    IF l.size < REGULATOR_END THEN DecryptionFailed ELSE decryptAmount(l.cts, key)

Revealed ==
    LET u == page.unseal
    IN  /\ u # NotUnsealing /\ DOMAIN u.read = Sides
        /\ \A s \in Sides : Decrypted(u.read[s], u.key) # DecryptionFailed
        /\ page' = [page EXCEPT
               !.phase = "revealed", !.unseal = NotUnsealing,
               !.shown = [of |-> u.record, ledgers |-> u.read,
                          amounts |-> [s \in Sides |-> Decrypted(u.read[s], u.key)]]]
        /\ UNCHANGED Chain

(* That, a request that failed, or a ledger that does not exist.             *)
UnsealFails ==
    /\ page.unseal # NotUnsealing
    /\ page' = [page EXCEPT !.phase = "demandKey", !.unseal = NotUnsealing]
    /\ UNCHANGED Chain

(* Mutated form of ResetOffered: CANCEL stays while the ledgers are read.    *)
ResetOfferedAlways == page.phase \in {"demandKey", "unsealing", "revealed"}

(* CANCEL and QUERY ANOTHER.                                                 *)
ResetOffered == page.phase \in {"demandKey", "revealed"}

Cleared == [FreshPage EXCEPT !.signing = page.signing, !.unseal = page.unseal]

(* What is under way is not cancelled.                                       *)
Reset ==
    /\ ResetOffered
    /\ page' = Cleared
    /\ UNCHANGED Chain

(* Leaving the page, or disconnecting the wallet, takes its state along.     *)
Leave ==
    /\ page' = FreshPage
    /\ UNCHANGED Chain

PageNext ==
    \/ \E d \in Addresses : FetchRecord(d)
    \/ RecordFound \/ RecordNotFound
    \/ \E w \in Wallets : SignWithWallet(w)
    \/ Signed \/ Unseal
    \/ \E s \in Sides : LedgerRead(s)
    \/ Revealed \/ UnsealFails \/ Reset \/ Leave

Next ==
    \/ \E u \in Wallets : ReinitConfig(u) \/ MigrateAndTest(u) \/ RegulatorTest(u)
    \/ \E u, w \in Wallets : Register(u, w)
    \/ \E l \in Ledgers : MigrateLedgerScript(l) \/ OpenBalance(l)
    \/ \E d \in Deals : EncryptForRegulator(d) \/ EncryptFails(d) \/ ExecuteSettle(d)
    \/ PageNext

Spec == Init /\ [][Next]_vars

-----------------------------------------------------------------------------
(* Properties *)

StoredCts == [lo: Ciphertexts, hi: Ciphertexts]
Snapshots ==
    [size: OldSizes \cup {LEDGER_LEN}, version: Nat, cts: StoredCts,
     from: Settlements \cup {NoSettlement}]
Reads ==
    [{} -> Snapshots] \cup [{"a"} -> Snapshots] \cup [{"b"} -> Snapshots]
        \cup [Sides -> Snapshots]
Unsealings == [record: Addresses, key: Nat, read: Reads]
Displays == [of: Deals, ledgers: [Sides -> Snapshots], amounts: [Sides -> Nat]]
Pages ==
    [phase: Phases, addr: Addresses \cup {NoDeal}, record: Addresses \cup {NoDeal},
     key: Nat \cup {NoKey}, signing: Wallets \cup {NoWallet},
     unseal: Unsealings \cup {NotUnsealing}, shown: Displays \cup {NotShown}]

(* Type invariant.                                                           *)
RegulatorTypeOK ==
    /\ config \in [size: {0, OLD_CONFIG, CONFIG_SPACE},
                   authority: Wallets \cup {NoWallet}, key: Keys \cup {NoKey}]
    /\ ledger \in [Ledgers -> Snapshots]
    /\ DOMAIN records \subseteq Deals /\ records \in [DOMAIN records -> [Sides -> Nat]]
    /\ prepared \in [Deals -> [status: {"no", "yes", "failed"},
                               cts: [Sides -> StoredCts],
                               registered: Keys \cup {NoKey}]]
    /\ script \in {"start", "register", "done"}
    /\ page \in Pages

(* Amounts on display are of the record on display: each was read, for that  *)
(* record, from its own party's ledger, whatever was cancelled and asked     *)
(* again while ledgers were read (regulator.tsx:430-484).  It is of the      *)
(* record's own settlement if the ledger then had the record's version, and  *)
(* never of an earlier one; but it may be of a LATER one, which the label     *)
(* FORENSIC SNAPSHOT (regulator.tsx:242) denies and the page, which shows    *)
(* only the record's versions, does not tell.                                *)
RevealedBelongsToRecord ==
    page.phase = "revealed" =>
        /\ page.shown.of = page.record
        /\ \A s \in Sides :
              LET l == page.shown.ledgers[s]
                  deal == l.from.deal
              IN  /\ LedgerOf[deal][l.from.side] = LedgerOf[page.record][s]
                  /\ \/ deal = page.record
                     \/ records[deal][l.from.side] > records[page.record][s]
                  /\ l.version = records[page.record][s] => deal = page.record

(* Decryption: an amount on display is the one moved by the settlement that  *)
(* left the ciphertexts read; if that settlement left nothing for a           *)
(* regulator, or moved nothing, no amount is on display, and with a key       *)
(* other than the one it was encrypted for nothing is revealed                *)
(* (elgamal.ts:114-146, regulator.tsx:284, 459-475).  So it is a transfer and *)
(* not the balance that user_ledger.rs:65, README.md:199 and the page's own   *)
(* PARTY A BALANCE name: the hook encrypts the amount moved                  *)
(* (useSchemeB.ts:722-736), and no balance ever reaches the regulator.       *)
RevealedIsSettled ==
    page.phase = "revealed" =>
        \A s \in Sides :
            LET l == page.shown.ledgers[s]
                moved == Amount[l.from.deal][l.from.side]
            IN  Displayed(page.shown.amounts[s]) =
                    IF l.cts = NoCts \/ moved = 0 THEN KeyNotProvided ELSE moved

(* A registered key is never overlooked: a deal whose chunks were prepared   *)
(* without an exception while a key was registered can be opened by that key *)
(* on both sides, also when the config was migrated from an older size       *)
(* (useSchemeB.ts:717, migrate_config.rs:25).                                *)
RegisteredKeyIsUsed ==
    \A d \in Deals :
        prepared[d].status = "yes" /\ prepared[d].registered # NoKey =>
            \E w \in Wallets :
                /\ KeyOf(w) = prepared[d].registered
                /\ \A s \in Sides :
                      decryptAmount(prepared[d].cts[s], SecretKey[w]) = Amount[d][s]
=============================================================================
