------------------------------ MODULE SettleHook ------------------------------
(***************************************************************************)
(* The trader's browser tab: the hook useSchemeB with the buttons of the    *)
(* trader page, over the settlement program.  The hook runs asynchronous    *)
(* functions that interleave at every await: initiate, executeSettlement    *)
(* (several at once), one cancel, and the callbacks of a countdown and of a *)
(* poll per initiated slot.  Every transaction goes through                 *)
(* sendAndConfirmPolling: it lands or fails on chain at some time, and the  *)
(* function that awaits it may give up before it does.                      *)
(*                                                                          *)
(* The countdown and the poll are not tied to the program's clock: they end *)
(* at any time.  The counterparty accepts at any time.                      *)
(***************************************************************************)
EXTENDS SettlementProgram

CONSTANTS
    Me, Peer, Mint,      \* the trader, the counterparty, the mint of both ledgers
    NoDeal,              \* pendingParams.current = null
    NoTx,                \* nothing awaited
    InitWindow,          \* seconds from the chain time read to expiryInit
    MaxPolls,            \* bound: answers and executions scheduled by them at once
    MaxLate,             \* bound: transactions given up on that may still land
    Unreliable           \* can requests fail and waits end before their answer

ASSUME HookAssumption ==
    /\ Me \in Users /\ Peer \in Users \ {Me} /\ Mint \in Mints
    /\ InitWindow \in Nat /\ MaxPolls \in Nat /\ MaxLate \in Nat
    /\ Unreliable \in BOOLEAN
    /\ SettlementNonces = Encryptions /\ Hashes # {}
    /\ ProofNonces = Nonces /\ 0..3 \subseteq Chunks
    /\ NoDeal \notin Slots
    /\ Encryptions \cap {"initiate", "cancel"} = {}

VARIABLES
    phase,               \* initiatorState
    deal,                \* pendingParams.current.commitSlotId
    countdown,           \* is the interval in countdownRef active
    stray,               \* do intervals that countdownRef has lost still run
    polling,             \* slots whose pollInterval is active
    answers,             \* answers "bothLocked" under way, per slot
    due,                 \* auto-executions scheduled by setTimeout
    settlementTxs,       \* the run whose transactions the page lists
    captured,            \* the deal each execution took from pendingParams
    at,                  \* where each asynchronous function is
    awaited,             \* the transaction each of them awaits
    landed,              \* what became of it: "no", "ok", "err"
    late                 \* transactions given up on that may still land

hookVars == <<phase, deal, countdown, stray, polling, answers, due, settlementTxs>>
taskVars == <<captured, at, awaited, landed, late>>
allVars == <<vars, hookVars, taskVars>>

Runs == Encryptions      \* executions, each with its own fresh ciphertexts
Tasks == Runs \cup {"initiate", "cancel"}
MyLedger == <<Me, Mint>>
MySlots == {<<MyLedger, n>> : n \in Nonces}
TheHash == CHOOSE h \in Hashes : TRUE

Phases == {"IDLE", "GENERATING_HASH", "SUBMITTING_INITIATE", "WAITING_ACCEPT",
           "BOTH_LOCKED", "GENERATING_PROOF", "SUBMITTING_EXECUTE", "SETTLED",
           "TIMEOUT_EXPIRED", "CANCELLED", "ERROR"}

HookInit ==
    /\ now = 0
    /\ config = TRUE
    /\ \E mine \in {"Absent", "Active"} :
          ledger = [l \in Ledgers |-> EmptyLedger(IF l = MyLedger THEN mine ELSE "Active")]
    /\ pending = [l \in Ledgers |-> NoPending]
    /\ slot = [s \in Slots |-> NoSlot]
    /\ proofAccounts = {}
    /\ proofData = [n \in Nonces |-> [c \in 0..5 |-> Zero]]
    /\ records = {}
    /\ phase = "IDLE" /\ deal = NoDeal /\ countdown = FALSE /\ stray = FALSE
    /\ polling = {} /\ answers = [s \in MySlots |-> 0] /\ due = 0
    /\ settlementTxs = NoDeal
    /\ captured = [r \in Runs |-> NoDeal]
    /\ at = [t \in Tasks |-> "idle"]
    /\ awaited = [t \in Tasks |-> NoTx]
    /\ landed = [t \in Tasks |-> "no"]
    /\ late = {}

-----------------------------------------------------------------------------
(* Transactions *)

Tx(op, s, arg) == [op |-> op, slot |-> s, arg |-> arg]

(* The instruction a transaction carries, as the program performs it.        *)
Perform(tx) ==
    LET s == tx.slot
        n == NonceOf(s)
    IN  \/ tx.op = "createLedger" /\ CreateUserLedger(MyLedger)
        \/ tx.op = "initiate" /\ InitiateCommit(MyLedger, n, Peer, Mint, TheHash, tx.arg)
        \/ tx.op = "create" /\ CreateProofData(n)
        \/ tx.op \in {"chunk0", "chunk2"}
             /\ WriteProofData(Me, s, IF tx.op = "chunk0" THEN 0 ELSE 2, TheHash)
        \/ tx.op \in {"chunk1", "chunk3"}
             /\ WriteProofData(Me, s, IF tx.op = "chunk1" THEN 1 ELSE 3, tx.arg)
        \/ tx.op = "execute" /\ ExecuteSettleB(s, n, tx.arg, tx.arg, tx.arg)
        \/ tx.op = "cancelInitiate" /\ CancelInitiate(s)
        \/ tx.op = "cancelMutual" /\ CancelMutual(s)

(* What the program refuses, by the constraints of the proof account's two    *)
(* instructions and otherwise by what they have no step for.                 *)
Refused(tx) ==
    CASE tx.op = "create" -> NonceOf(tx.slot) \in proofAccounts
      [] tx.op \in {"chunk0", "chunk1", "chunk2", "chunk3"} -> ~CanWrite(Me, tx.slot)
      [] OTHER -> ~ENABLED Perform(tx)

(* A transaction lands: the program performs it, or refuses it and changes   *)
(* nothing.                                                                  *)
Land(t) ==
    /\ awaited[t] # NoTx /\ landed[t] = "no"
    /\ \/ Perform(awaited[t]) /\ landed' = [landed EXCEPT ![t] = "ok"]
       \/ /\ Refused(awaited[t])
          /\ landed' = [landed EXCEPT ![t] = "err"]
          /\ UNCHANGED vars
    /\ UNCHANGED <<hookVars, captured, at, awaited, late>>

(* One that nobody awaits any more lands, or its blockhash expires.          *)
LandLate(tx) ==
    /\ tx \in late
    /\ late' = late \ {tx}
    /\ Perform(tx) \/ UNCHANGED vars
    /\ UNCHANGED <<hookVars, captured, at, awaited, landed>>

(* sendAndConfirmPolling hands the transaction to the RPC node and waits.    *)
Send(t, tx, step) ==
    /\ awaited' = [awaited EXCEPT ![t] = tx]
    /\ landed' = [landed EXCEPT ![t] = "no"]
    /\ at' = [at EXCEPT ![t] = step]
    /\ UNCHANGED <<captured, late>>

(* Mutated form of Returns: no final check, the signature is the answer.     *)
ReturnsAnyway(t) == awaited[t] # NoTx

(* It returns a signature: confirmed, or, in the final check after the       *)
(* timeout, known with any status, an error included.                        *)
Returns(t) == landed[t] \in {"ok", "err"}

(* It throws: the wallet refused, a request to the RPC node failed, a poll   *)
(* reads an error, or the time is up with no status known.                   *)
Throws(t) == landed[t] = "err" \/ (Unreliable /\ awaited[t] # NoTx)

Finished(t, step) ==
    /\ at' = [at EXCEPT ![t] = step]
    /\ awaited' = [awaited EXCEPT ![t] = NoTx]
    /\ landed' = [landed EXCEPT ![t] = "no"]
    /\ captured' = captured

(* After a timeout the transaction stays with the network.                   *)
GivesUp(t, step) ==
    /\ Finished(t, step)
    /\ \/ /\ landed[t] = "no" /\ Cardinality(late) < MaxLate
          /\ late' = late \cup {awaited[t]}
       \/ late' = late

-----------------------------------------------------------------------------
(* The trader page shows the phases as nine states and offers buttons by it. *)

VisualState(p) ==
    CASE p \in {"IDLE", "CANCELLED"} -> "idle"
      [] p = "GENERATING_HASH" -> "drafting"
      [] p = "SUBMITTING_INITIATE" -> "committing"
      [] p \in {"WAITING_ACCEPT", "TIMEOUT_EXPIRED"} -> "waiting_accept"
      [] p = "BOTH_LOCKED" -> "both_pending"
      [] p = "GENERATING_PROOF" -> "proving"
      [] p = "SUBMITTING_EXECUTE" -> "executing"
      [] p = "SETTLED" -> "settled"
      [] OTHER -> "error"

InitiateOffered == VisualState(phase) \in {"idle", "settled", "error"}
UnlockOffered == VisualState(phase) = "error"
AbortOffered == VisualState(phase) \notin {"idle", "settled", "error"}
ExecuteOffered == VisualState(phase) = "both_pending"

(* The panel of a settlement lists its transactions and its record.          *)
SettledShown == VisualState(phase) = "settled"
SettlementRecord == <<captured[settlementTxs], settlementTxs>>

-----------------------------------------------------------------------------
(* initiate *)

InitiateCalled ==
    /\ phase' = "GENERATING_HASH"
    /\ at' = [at EXCEPT !["initiate"] = "hashing"]

ClickInitiate ==
    /\ InitiateOffered
    /\ at["initiate"] = "idle"
    /\ InitiateCalled
    /\ UNCHANGED <<vars, deal, countdown, stray, polling, answers, due, settlementTxs,
                   captured, awaited, landed, late>>

(* A trader without a ledger for this mint gets one first.                   *)
CreateLedger ==
    /\ at["initiate"] = "hashing"
    /\ ledger[MyLedger].status = "Absent"
    /\ Send("initiate", Tx("createLedger", NoDeal, 0), "creating")
    /\ UNCHANGED <<vars, hookVars>>

LedgerCreated ==
    /\ at["initiate"] = "creating"
    /\ Returns("initiate")
    /\ Finished("initiate", "ready")
    /\ UNCHANGED <<vars, hookVars, late>>

(* The nonce is the client's clock in milliseconds, hence fresh; the expiry  *)
(* is computed from the chain time read here.                                *)
SubmitInitiate ==
    /\ \/ at["initiate"] = "hashing" /\ ledger[MyLedger].status # "Absent"
       \/ at["initiate"] = "ready"
    /\ \E s \in MySlots :
          /\ \A t \in MySlots :
                Exists(t) \/ deal = t \/ (\E tx \in late : tx.slot = t)
                    => NonceOf(t) < NonceOf(s)
          /\ Send("initiate", Tx("initiate", s, now + InitWindow), "submitted")
    /\ phase' = "SUBMITTING_INITIATE"
    /\ UNCHANGED <<vars, deal, countdown, stray, polling, answers, due, settlementTxs>>

InitiateConfirmed ==
    /\ at["initiate"] = "submitted"
    /\ Returns("initiate")
    /\ deal' = awaited["initiate"].slot
    /\ phase' = "WAITING_ACCEPT"
    /\ countdown' = TRUE /\ stray' = (stray \/ countdown)
    /\ polling' = polling \cup {awaited["initiate"].slot}
    /\ Finished("initiate", "idle")
    /\ UNCHANGED <<vars, answers, due, settlementTxs, late>>

InitiateFails ==
    /\ \/ at["initiate"] \in {"hashing", "ready"}
          /\ Finished("initiate", "idle") /\ late' = late
       \/ Throws("initiate") /\ GivesUp("initiate", "idle")
    /\ phase' = "ERROR"
    /\ UNCHANGED <<vars, deal, countdown, stray, polling, answers, due, settlementTxs>>

(* An interval at its end clears the one countdownRef names.  For the current *)
(* one that is itself; one that a later initiate has overwritten in the ref   *)
(* takes the later's away instead and fires again and again.                  *)
CountdownEnds ==
    /\ countdown \/ stray
    /\ countdown' = FALSE
    /\ phase' = "TIMEOUT_EXPIRED"
    /\ UNCHANGED <<vars, deal, stray, polling, answers, due, settlementTxs, taskVars>>

(* A poll reads the slot; only the answer "bothLocked" has a consequence.    *)
Poll(s) ==
    /\ s \in polling
    /\ slot[s].status = "BothLocked"
    /\ answers[s] + due < MaxPolls
    /\ answers' = [answers EXCEPT ![s] = @ + 1]
    /\ UNCHANGED <<vars, phase, deal, countdown, stray, polling, due, settlementTxs, taskVars>>

PollAnswered(s) ==
    /\ answers[s] > 0
    /\ answers' = [answers EXCEPT ![s] = @ - 1]
    /\ polling' = polling \ {s}
    /\ countdown' = FALSE
    /\ phase' = "BOTH_LOCKED"
    /\ due' = due + 1
    /\ UNCHANGED <<vars, deal, stray, settlementTxs, taskVars>>

(* The poll is stopped after 70 s, when a slot can no longer be accepted;    *)
(* unless its requests failed, it has seen an accept before that.            *)
PollingEnds(s) ==
    /\ s \in polling
    /\ Unreliable \/ ~Exists(s)
    /\ polling' = polling \ {s}
    /\ UNCHANGED <<vars, phase, deal, countdown, stray, answers, due, settlementTxs, taskVars>>

-----------------------------------------------------------------------------
(* executeSettlement, run r *)

StartRun(r) ==
    /\ at[r] = "idle"
    /\ deal # NoDeal
    /\ captured' = [captured EXCEPT ![r] = deal]
    /\ phase' = "GENERATING_PROOF"
    /\ at' = [at EXCEPT ![r] = IF Exists(deal) THEN "proving" ELSE "noSlot"]
    /\ UNCHANGED <<vars, deal, countdown, stray, polling, answers, settlementTxs, awaited, landed, late>>

ClickExecute(r) ==
    /\ ExecuteOffered
    /\ StartRun(r)
    /\ due' = due

AutoExecute(r) ==
    /\ due > 0 /\ due' = due - 1
    /\ StartRun(r)

(* The proofs are generated and the proof account is looked up: created if   *)
(* absent, reused otherwise.                                                 *)
Proved(r) ==
    LET first == IF NonceOf(captured[r]) \in proofAccounts THEN "chunk0" ELSE "create"
    IN  /\ at[r] = "proving"
        /\ phase' = "SUBMITTING_EXECUTE"
        /\ Send(r, Tx(first, captured[r], r), first)
        /\ UNCHANGED <<vars, deal, countdown, stray, polling, answers, due, settlementTxs>>

(* Mutated form of NextStep: the ciphertexts of party B are not written.     *)
NextStepSkipsB(step) ==
    CASE step = "create" -> "chunk0"
      [] step = "chunk0" -> "chunk1"
      [] step = "chunk1" -> "chunk2"
      [] step = "chunk2" -> "execute"
      [] OTHER -> "done"

(* The transactions of a run, one after the other.                           *)
NextStep(step) ==
    CASE step = "create" -> "chunk0"
      [] step = "chunk0" -> "chunk1"
      [] step = "chunk1" -> "chunk2"
      [] step = "chunk2" -> "chunk3"
      [] step = "chunk3" -> "execute"
      [] OTHER -> "done"

RunConfirmed(r) ==
    /\ awaited[r] # NoTx
    /\ Returns(r)
    /\ IF at[r] = "execute"
       THEN /\ phase' = "SETTLED" /\ settlementTxs' = r
            /\ Finished(r, "done") /\ late' = late
       ELSE /\ Send(r, Tx(NextStep(at[r]), captured[r], r), NextStep(at[r]))
            /\ UNCHANGED <<phase, settlementTxs>>
    /\ UNCHANGED <<vars, deal, countdown, stray, polling, answers, due>>

RunFails(r) ==
    /\ \/ Throws(r) /\ GivesUp(r, "done")
       \/ at[r] \in {"proving", "noSlot"} /\ Finished(r, "done") /\ late' = late
    /\ phase' = "ERROR"
    /\ UNCHANGED <<vars, deal, countdown, stray, polling, answers, due, settlementTxs>>

-----------------------------------------------------------------------------
(* The cancels *)

(* ABORT in the phases of a deal.  Nothing happens while it is submitted.    *)
ClickAbort ==
    /\ AbortOffered
    /\ at["cancel"] = "idle"
    /\ deal # NoDeal
    /\ \/ /\ phase \in {"WAITING_ACCEPT", "TIMEOUT_EXPIRED"}
          /\ countdown' = FALSE
          /\ Send("cancel", Tx("cancelInitiate", deal, 0), "abort")
       \/ /\ phase \in {"BOTH_LOCKED", "GENERATING_PROOF"}
          /\ Exists(deal)
          /\ countdown' = countdown
          /\ Send("cancel", Tx("cancelMutual", deal, 0), "abort")
    /\ UNCHANGED <<vars, phase, deal, stray, polling, answers, due, settlementTxs>>

(* UNLOCK LEDGER after an error: the slot is found through the ledger's      *)
(* pending nonce, and cancel_initiate is what is sent, whatever the lock.    *)
ClickUnlock ==
    /\ UnlockOffered
    /\ at["cancel"] = "idle"
    /\ ledger[MyLedger].status # "Absent"
    /\ \/ /\ ledger[MyLedger].status = "Active"
          /\ phase' = "IDLE"
          /\ UNCHANGED taskVars
       \/ /\ ledger[MyLedger].status # "Active"
          /\ phase' = phase
          /\ Send("cancel",
                  Tx("cancelInitiate", <<MyLedger, pending[MyLedger].nonce>>, 0), "unlock")
    /\ UNCHANGED <<vars, deal, countdown, stray, polling, answers, due, settlementTxs>>

CancelConfirmed ==
    /\ at["cancel"] \in {"abort", "unlock"}
    /\ Returns("cancel")
    /\ IF at["cancel"] = "abort"
       THEN phase' = "CANCELLED"
       ELSE phase' = IF ledger[MyLedger].status = "Active" THEN "IDLE" ELSE phase
    /\ Finished("cancel", "idle")
    /\ UNCHANGED <<vars, deal, countdown, stray, polling, answers, due, settlementTxs, late>>

CancelFails ==
    /\ at["cancel"] \in {"abort", "unlock"}
    /\ Throws("cancel")
    /\ GivesUp("cancel", "idle")
    /\ UNCHANGED <<vars, hookVars>>

-----------------------------------------------------------------------------
(* The page is reloaded, or its wallet disconnects: the state of the hook is *)
(* gone and nothing restores it; no function of it signs anything more, but  *)
(* what was handed to the network stays there.                               *)
PageLost ==
    /\ phase' = "IDLE" /\ deal' = NoDeal /\ countdown' = FALSE /\ stray' = FALSE
    /\ polling' = {} /\ answers' = [s \in MySlots |-> 0] /\ due' = 0
    /\ settlementTxs' = NoDeal
    /\ at' = [t \in Tasks |-> IF t \in Runs /\ at[t] # "idle" THEN "done" ELSE "idle"]
    /\ late' = late \cup ({awaited[t] : t \in {u \in Tasks : landed[u] = "no"}} \ {NoTx})
    /\ Cardinality(late') <= MaxLate
    /\ awaited' = [t \in Tasks |-> NoTx]
    /\ landed' = [t \in Tasks |-> "no"]
    /\ UNCHANGED <<vars, captured>>

-----------------------------------------------------------------------------
(* The program's clock and the counterparty *)

Chain ==
    /\ Tick \/ \E s \in MySlots : AcceptCommit(Peer, s)
    /\ UNCHANGED <<hookVars, taskVars>>

HookNext ==
    \/ Chain
    \/ \E t \in Tasks : Land(t)
    \/ \E tx \in late : LandLate(tx)
    \/ ClickInitiate \/ CreateLedger \/ LedgerCreated
    \/ SubmitInitiate \/ InitiateConfirmed \/ InitiateFails
    \/ CountdownEnds
    \/ \E s \in MySlots : Poll(s) \/ PollAnswered(s) \/ PollingEnds(s)
    \/ \E r \in Runs : ClickExecute(r) \/ AutoExecute(r)
    \/ \E r \in Runs : Proved(r) \/ RunConfirmed(r) \/ RunFails(r)
    \/ ClickAbort \/ ClickUnlock \/ CancelConfirmed \/ CancelFails
    \/ PageLost

HookSpec == HookInit /\ [][HookNext]_allVars

-----------------------------------------------------------------------------
(* Properties *)

(* Types of the hook's state, beside those of the accounts.                  *)
HookTypeOK ==
    /\ TypeOK
    /\ phase \in Phases
    /\ deal \in MySlots \cup {NoDeal}
    /\ countdown \in BOOLEAN /\ stray \in BOOLEAN
    /\ polling \subseteq MySlots
    /\ answers \in [MySlots -> 0..MaxPolls]
    /\ due \in Nat
    /\ captured \in [Runs -> MySlots \cup {NoDeal}]
    /\ settlementTxs \in Runs \cup {NoDeal}

(* user_ledger.rs:69 "ElGamal randomness for balance_ct_lo": the stored       *)
(* randomness is that of the stored ciphertext, for both parties.            *)
OwnRandomness ==
    \A l \in Ledgers : ledger[l].encryption_r = ledger[l].balance_ct

(* Deals that more than one execution took up.                               *)
Shared(s) == \E r, q \in Runs : r # q /\ captured[r] = s /\ captured[q] = s

(* One execution keeps ciphertexts and randomness together through retries,  *)
(* late transactions, writes refused unnoticed (send_tx.ts:61) and reloads:   *)
(* they are mixed only where two executions took up the very deal the ledger *)
(* settled last, a click beside a scheduled one (useSchemeB.ts:532).         *)
MixedOnlyWhenShared ==
    \A l \in Ledgers :
        \/ ledger[l].encryption_r = ledger[l].balance_ct
        \/ \E s \in MySlots, r \in Runs :
              ledger[l].last_settlement_id = <<s, r>> /\ Shared(s)

(* trader.tsx:995 "SETTLED - COPY THESE FOR AUDIT": when the page turns to     *)
(* SETTLED, the record whose execute_tx it gives to copy is on chain.        *)
SettledIsOnChain ==
    [][SettledShown' /\ ~SettledShown =>
          \E q \in records : q.id = SettlementRecord']_allVars

(* SETTLED is told with the listed record on chain, CANCELLED with the slot   *)
(* closed (useSchemeB.ts:826-840, 884-910), and a false report has one cause: *)
(* the program refused the very execution or cancel that is reported and the *)
(* final check took its error for a success (send_tx.ts:61).  Nothing that    *)
(* other functions of the tab do, that was refused unnoticed before or that  *)
(* lands late makes one.                                                     *)
FalseReportsOnlyInGap ==
    [][/\ SettledShown' /\ ~SettledShown =>
             \/ \E q \in records : q.id = SettlementRecord'
             \/ landed[settlementTxs'] = "err"
       /\ phase' = "CANCELLED" /\ phase # "CANCELLED" =>
             ~Exists(awaited["cancel"].slot) \/ landed["cancel"] = "err"]_allVars
=============================================================================
