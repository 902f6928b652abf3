---------------------------- MODULE SettleClients ----------------------------
(***************************************************************************)
(* The clients of the settlement program other than the trader page: the     *)
(* SDK's initiateCommit, acceptCommit, executeSettle and cancels, and the    *)
(* counterparty's scripts auto-accept.js and devnet-accept.ts.  Each is a    *)
(* process that reads accounts, decides, and sends transactions; between     *)
(* what it read and what lands, every other client and the clock go on.      *)
(*                                                                           *)
(* A call of executeSettle is an element of Runs, and also the encryption it *)
(* makes: its ciphertexts with their randomness.  A commitment hash stands   *)
(* for the amounts under it; its other inputs are fields of the slot.        *)
(***************************************************************************)
EXTENDS SettlementProgram

CONSTANTS
    Runs,           \* calls of executeSettle
    NoRun,          \* null
    Initiators,     \* users that call initiateCommit
    Seconds,        \* expiry_seconds the SDK lets through (30..60)
    OFFSET,         \* seconds initiateCommit adds to it
    Skew,           \* a client's clock is this far from the cluster's at most
    Counterparty,   \* the key in scripts/keys/counterparty.json
    WatchedLedger   \* the ledger auto-accept.js polls

ASSUME RunAssumption == Runs \subseteq Encryptions /\ NoRun \notin Runs
(* The last line: the bounds of SettlementProgram leave out nothing that the  *)
(* clients send.                                                             *)
ASSUME ScriptAssumption ==
    /\ Counterparty \in Users /\ WatchedLedger \in Ledgers
    /\ Initiators \subseteq Users
    /\ Seconds \subseteq Nat /\ OFFSET \in Nat /\ Skew \in Nat
    /\ ProofNonces = Nonces /\ 0..3 \subseteq Chunks

VARIABLES
    lastNonce,  \* Date.now() of each user's latest initiateCommit
    sent,       \* initiate and accept transactions that may still land
    run,        \* calls of executeSettle
    creator,    \* history: the run whose create_proof_data landed, by nonce
    missed,     \* history: runs and steps of theirs refused, taken for done
    daemon      \* auto-accept.js: where it is, and the nonce it has read

clients == <<lastNonce, sent, run, creator, missed, daemon>>
allVars == <<vars, clients>>

-----------------------------------------------------------------------------
(* sdk/src/scheme_b/index.ts: an address is its seeds. *)

findLedgerPDA(owner, mint) == <<owner, mint>>
findCommitSlotPDA(ledgerA, nonce) == <<ledgerA, nonce>>
findSettlementPDA(commitSlot, settlementNonce) == <<commitSlot, settlementNonce>>
findProofDataPDA(nonce) == nonce

NoInitiate == [kind |-> "none"]
Initiates ==
    [kind: {"initiate"}, ledger: Ledgers, nonce: Nonces, counterparty: Users,
     mint: Mints, hash: Hashes, expiry: Nat]
Accepts == [kind: {"accept"}, user: Users, slot: Slots, hash: Hashes]

Idle == [status |-> "Idle"]
Executions ==
    [status: {"Sending", "TimedOut"}, step: 0..5, slot: Slots,
     user: Users, hash: Hashes, settlementNonce: SettlementNonces]
Over ==
    [status: {"Done", "Failed"}, step: 0..5, slot: Slots,
     settlement_id: Slots \X SettlementNonces]

ClientInit ==
    /\ Init
    /\ lastNonce = [u \in Users |-> 0]
    /\ sent = {}
    /\ run = [r \in Runs |-> Idle]
    /\ creator = [n \in Nonces |-> NoRun]
    /\ missed = {}
    /\ daemon = [pc |-> "Poll", nonce |-> 0]

-----------------------------------------------------------------------------
(* Initiate and accept *)

(* A client's Math.floor(Date.now() / 1000) has not passed the deadline.     *)
NotExpired(deadline) == now - Skew <= deadline + CLOCK_TOLERANCE

(* Mutated form of DateNow: whole seconds, so that two calls may agree.      *)
DateNowCoarse(u) == {n \in Nonces : n >= lastNonce[u]}

(* Date.now() in milliseconds: larger than at the user's call before.        *)
DateNow(u) == {n \in Nonces : n > lastNonce[u]}

(* initiateCommit: the expiry counts from the block time it reads.           *)
InitiateClient(u, counterparty, mintA, mintB, hash, seconds) ==
    /\ \A t \in sent : t.kind = "initiate" => t.ledger[1] # u
    /\ \E nonce \in DateNow(u) :
          /\ lastNonce' = [lastNonce EXCEPT ![u] = nonce]
          /\ sent' = sent \cup
                 {[kind |-> "initiate", ledger |-> findLedgerPDA(u, mintA),
                   nonce |-> nonce, counterparty |-> counterparty, mint |-> mintB,
                   hash |-> hash, expiry |-> now + seconds + OFFSET]}
    /\ UNCHANGED <<vars, run, creator, missed, daemon>>

(* acceptCommit: the slot is addressed to u, not expired, and commits to the *)
(* amounts u agreed on.                                                      *)
AcceptClient(u, s, hash) ==
    /\ Exists(s)
    /\ slot[s].counterparty = u
    /\ NotExpired(slot[s].expiry_init)
    /\ slot[s].commitment_hash = hash
    /\ \A t \in sent : t.kind = "accept" => t.user # u
    /\ sent' = sent \cup {[kind |-> "accept", user |-> u, slot |-> s, hash |-> hash]}
    /\ UNCHANGED <<vars, lastNonce, run, creator, missed, daemon>>

Submit(t) ==
    IF t.kind = "initiate"
    THEN InitiateCommit(t.ledger, t.nonce, t.counterparty, t.mint, t.hash, t.expiry)
    ELSE AcceptCommit(t.user, t.slot)

(* A transaction lands, at any time, whatever its sender believes of it.     *)
Land(t) ==
    /\ Submit(t)
    /\ sent' = sent \ {t}
    /\ UNCHANGED <<lastNonce, run, creator, missed, daemon>>

(* It is refused, dropped, or its blockhash expires.                         *)
Drop(t) ==
    /\ sent' = sent \ {t}
    /\ UNCHANGED <<vars, lastNonce, run, creator, missed, daemon>>

-----------------------------------------------------------------------------
(* executeSettle: create_proof_data, four chunks, execute_settle_b *)

(* The caller's proofs are for the slot's hash: others fail at the last step. *)
ExecuteStart(r, u, s) ==
    /\ run[r] = Idle
    /\ slot[s].status = "BothLocked"
    /\ NotExpired(slot[s].execute_expiry)
    /\ \E k \in SettlementNonces :
          run' = [run EXCEPT ![r] =
              [status |-> "Sending", step |-> 0, slot |-> s, user |-> u,
               hash |-> slot[s].commitment_hash, settlementNonce |-> k]]
    /\ UNCHANGED <<vars, lastNonce, sent, creator, missed, daemon>>

(* buildChunks: the proofs, and the ciphertexts made for this call.          *)
Chunk(r, i) == IF i \in {0, 2} THEN run[r].hash ELSE r

(* Mutated form of CreateStep: an account that exists is used as it is.      *)
CreateStepTolerant(r) ==
    LET n == findProofDataPDA(NonceOf(run[r].slot))
    IN  \/ /\ CreateProofData(n)
           /\ creator' = [creator EXCEPT ![n] = r]
        \/ /\ n \in proofAccounts
           /\ UNCHANGED <<vars, creator>>

(* The first transaction; init fails if the account exists.                  *)
CreateStep(r) ==
    LET n == findProofDataPDA(NonceOf(run[r].slot))
    IN  /\ CreateProofData(n)
        /\ creator' = [creator EXCEPT ![n] = r]

(* The transaction of the run's current step takes effect.                   *)
StepLands(r) ==
    LET e == run[r]
    IN  \/ /\ e.step = 0
           /\ CreateStep(r)
        \/ /\ e.step \in 1..4
           /\ WriteProofData(e.user, e.slot, e.step - 1, Chunk(r, e.step - 1))
           /\ UNCHANGED creator
        \/ /\ e.step = 5
           /\ ExecuteSettleB(e.slot, findProofDataPDA(NonceOf(e.slot)), e.settlementNonce, r, r)
           /\ UNCHANGED creator

End(e, status) ==
    [status |-> status, step |-> e.step, slot |-> e.slot,
     settlement_id |-> findSettlementPDA(e.slot, e.settlementNonce)]

(* Mutated form of NextStep: the step after the last one.                    *)
NextStepOver(e) == IF e.step <= 5 THEN [e EXCEPT !.step = @ + 1] ELSE End(e, "Done")

NextStep(e) == IF e.step < 5 THEN [e EXCEPT !.step = @ + 1] ELSE End(e, "Done")

Confirmed(r) ==
    /\ run[r].status = "Sending"
    /\ StepLands(r)
    /\ run' = [run EXCEPT ![r] = NextStep(@)]
    /\ UNCHANGED <<lastNonce, sent, missed, daemon>>

(* sendAndConfirmPolling throws although the transaction may still land.     *)
TimesOut(r) ==
    /\ run[r].status = "Sending"
    /\ run' = [run EXCEPT ![r].status = "TimedOut"]
    /\ UNCHANGED <<vars, lastNonce, sent, creator, missed, daemon>>

LandsLate(r) ==
    /\ run[r].status = "TimedOut"
    /\ StepLands(r)
    /\ run' = [run EXCEPT ![r] = End(@, "Failed")]
    /\ UNCHANGED <<lastNonce, sent, missed, daemon>>

(* The instruction fails, or the transaction never lands.                    *)
Fails(r) ==
    /\ run[r].status \in {"Sending", "TimedOut"}
    /\ run' = [run EXCEPT ![r] = End(@, "Failed")]
    /\ UNCHANGED <<vars, lastNonce, sent, creator, missed, daemon>>

(* What the program refuses of the run's current step.                       *)
Refused(r) ==
    LET e == run[r]
        n == findProofDataPDA(NonceOf(e.slot))
    IN  \/ e.step = 0 /\ n \in proofAccounts
        \/ e.step \in 1..4 /\ ~CanWrite(e.user, e.slot)
        \/ e.step = 5 /\ ~ENABLED ExecuteSettleB(e.slot, n, e.settlementNonce, r, r)

(* send_tx.ts:59-63: a refused transaction, of any of the six steps, whose    *)
(* status shows up after the last poll is returned as a success.             *)
FailsInGap(r) ==
    /\ run[r].status = "Sending"
    /\ Refused(r)
    /\ run' = [run EXCEPT ![r] = NextStep(@)]
    /\ missed' = missed \cup {<<r, run[r].step>>}
    /\ UNCHANGED <<vars, lastNonce, sent, creator, daemon>>

ExecuteNext(r) ==
    \/ Confirmed(r) \/ TimesOut(r) \/ LandsLate(r) \/ Fails(r) \/ FailsInGap(r)

-----------------------------------------------------------------------------
(* cancel.ts: one transaction each, retried by its caller *)

CancelInitiateClient(s) == CancelInitiate(s) /\ UNCHANGED clients
CancelMutualClient(s) == CancelMutual(s) /\ UNCHANGED clients

-----------------------------------------------------------------------------
(* The counterparty's scripts *)

Go(pc) ==
    daemon' = [pc |-> pc,
               nonce |-> IF pc \in {"PollAgain", "Exit"} THEN 0 ELSE daemon.nonce]
Read(pc) == daemon' = [pc |-> pc, nonce |-> pending[WatchedLedger].nonce]
WatchedSlot == findCommitSlotPDA(WatchedLedger, daemon.nonce)
LedgerBPDA == findLedgerPDA(Counterparty, slot[WatchedSlot].asset_b_mint)

(* Waits for PendingInitiator, then looks once for an expired initiate.      *)
DaemonPolls ==
    /\ daemon.pc \in {"Poll", "PollAgain"}
    /\ ledger[WatchedLedger].status = "PendingInitiator"
    /\ Read(IF daemon.pc = "Poll" THEN "CheckExpiry" ELSE "ReadNonce")
    /\ UNCHANGED <<vars, lastNonce, sent, run, creator, missed>>

DaemonChecksExpiry ==
    /\ daemon.pc = "CheckExpiry"
    /\ Go(IF Exists(WatchedSlot) /\ now > slot[WatchedSlot].expiry_init + CLOCK_TOLERANCE
          THEN "Cancel" ELSE "ReadNonce")
    /\ UNCHANGED <<vars, lastNonce, sent, run, creator, missed>>

(* With the default wallet, the owner of the watched ledger.                 *)
DaemonCancels ==
    /\ daemon.pc = "Cancel"
    /\ CancelInitiate(WatchedSlot)
    /\ Go("PollAgain")
    /\ UNCHANGED <<lastNonce, sent, run, creator, missed>>

DaemonReadsNonce ==
    /\ daemon.pc = "ReadNonce"
    /\ Read("ReadSlot")
    /\ UNCHANGED <<vars, lastNonce, sent, run, creator, missed>>

(* The slot exists and names this key; its expiry is only printed.           *)
DaemonReadsSlot ==
    /\ daemon.pc = "ReadSlot"
    /\ daemon.nonce \in Nonces
    /\ Exists(WatchedSlot) /\ slot[WatchedSlot].counterparty = Counterparty
    /\ Go(IF ledger[LedgerBPDA].status = "Absent" THEN "Create" ELSE "Accept")
    /\ UNCHANGED <<vars, lastNonce, sent, run, creator, missed>>

DaemonCreatesLedger ==
    /\ daemon.pc = "Create"
    /\ Exists(WatchedSlot)
    /\ CreateUserLedger(LedgerBPDA)
    /\ Go("Accept")
    /\ UNCHANGED <<lastNonce, sent, run, creator, missed>>

DaemonAccepts ==
    /\ daemon.pc = "Accept"
    /\ AcceptCommit(Counterparty, WatchedSlot)
    /\ Go("Exit")
    /\ UNCHANGED <<lastNonce, sent, run, creator, missed>>

(* A request or an instruction fails, or a check ends the process.           *)
DaemonExits ==
    /\ daemon.pc \notin {"Poll", "PollAgain", "Exit"}
    /\ Go("Exit")
    /\ UNCHANGED <<vars, lastNonce, sent, run, creator, missed>>

DaemonNext ==
    \/ DaemonPolls \/ DaemonChecksExpiry \/ DaemonCancels \/ DaemonReadsNonce
    \/ DaemonReadsSlot \/ DaemonCreatesLedger \/ DaemonAccepts \/ DaemonExits

(* devnet-create-ledger.ts: a missing ledger is created.                     *)
CreateLedgerScript(a) == CreateUserLedger(a) /\ UNCHANGED clients

(* devnet-accept.ts: accepts the slot of the nonce it is given, unseen.      *)
AcceptScript(s) == AcceptCommit(Counterparty, s) /\ UNCHANGED clients

ClientNext ==
    \/ InitializePool /\ UNCHANGED clients
    \/ Tick /\ UNCHANGED clients
    \/ \E a \in Ledgers : CreateLedgerScript(a)
    \/ \E u \in Initiators : \E v \in Users \ {u}, m, k \in Mints, h \in Hashes, w \in Seconds :
          InitiateClient(u, v, m, k, h, w)
    \/ \E u \in Users, s \in Slots, h \in Hashes : AcceptClient(u, s, h)
    \/ \E t \in sent : Land(t) \/ Drop(t)
    \/ \E r \in Runs, u \in Users, s \in Slots : ExecuteStart(r, u, s)
    \/ \E r \in Runs : ExecuteNext(r)
    \/ \E s \in Slots : CancelInitiateClient(s) \/ CancelMutualClient(s)
    \/ \E s \in Slots : AcceptScript(s)
    \/ DaemonNext

ClientSpec == ClientInit /\ [][ClientNext]_allVars

-----------------------------------------------------------------------------
(* Properties *)

(* Type invariant of the clients' state.                                     *)
ClientTypeOK ==
    /\ lastNonce \in [Users -> Nonces \cup {0}]
    /\ sent \subseteq Initiates \cup Accepts
    /\ run \in [Runs -> {Idle} \cup Executions \cup Over]
    /\ creator \in [Nonces -> Runs \cup {NoRun}]
    /\ missed \subseteq Runs \X (0..5)
    /\ daemon \in [pc: {"Poll", "CheckExpiry", "Cancel", "PollAgain", "ReadNonce",
                        "ReadSlot", "Create", "Accept", "Exit"},
                   nonce: Nonces \cup {0}]

(* Some call on this nonce took the refusal of its create_proof_data or of a  *)
(* chunk for a success.                                                      *)
MissedOn(n) == \E g \in missed : g[2] < 5 /\ NonceOf(run[g[1]].slot) = n

(* A settled balance has the randomness it was encrypted with, on both sides *)
(* of every settlement: although proof accounts are addressed by nonce only  *)
(* and both parties may call executeSettle at once, or again after a         *)
(* timeout, the chunks of a settlement and the randomness its execute        *)
(* carries come from one call (execute.ts:169-217, write_proof_data.rs:43;   *)
(* user_ledger.rs:69).  What breaks it is a refusal taken for a success on    *)
(* the very nonce of the settlement (send_tx.ts:61).                         *)
SettledByOneRun ==
    \A l \in Ledgers :
        \/ ledger[l].balance_ct = ledger[l].encryption_r
        \/ \E s \in Slots, k \in SettlementNonces :
              ledger[l].last_settlement_id = <<s, k>> /\ MissedOn(NonceOf(s))

(* Every settlement was carried through by the call that created its proof   *)
(* account: a call that fails after its first transaction landed leaves the  *)
(* deal to cancel_mutual, for no later call gets past create_proof_data.  And *)
(* the settlement record that a successful call returns is on chain          *)
(* (execute.ts:169-179, 207-241).  A refusal taken for a success              *)
(* (send_tx.ts:61) breaks the first on its own nonce, the second only if it   *)
(* is that of the call's own execute_settle_b.                               *)
NoSecondAttempt ==
    /\ \A q \in records :
          LET n == NonceOf(q.id[1])
          IN  \/ MissedOn(n)
              \/ /\ creator[n] # NoRun
                 /\ run[creator[n]].slot = q.id[1] /\ run[creator[n]].step = 5
    /\ \A r \in Runs :
          run[r].status = "Done" =>
              \/ \E q \in records : q.id = run[r].settlement_id
              \/ <<r, 5>> \in missed

(* What acceptCommit verified is what its transaction locks: an accept under *)
(* way can only take effect on a slot with the hash its sender agreed to,    *)
(* although the instruction names no hash and the slot's address is free     *)
(* again after a cancel (accept.ts:34-92, initiate.ts:48).                   *)
AcceptsWhatWasVerified ==
    \A t \in sent :
        t.kind = "accept" /\ CanAccept(t.user, t.slot)
            => slot[t.slot].commitment_hash = t.hash
=============================================================================
