----------------------------- MODULE ClientProofs -----------------------------
(***************************************************************************)
(* Theorems about SettleClients: what the SDK's clients and the scripts do   *)
(* to the accounts are instructions of the program, so that what was proved  *)
(* of it holds in their presence; the chunks of a settlement are of one      *)
(* call; an accept that was verified locks what was verified.                *)
(***************************************************************************)
EXTENDS SettleClients, SettlementProofs

(* What the daemon acts on, it has read from a ledger that waits or checked.  *)
DaemonNonce ==
    daemon.pc \in {"CheckExpiry", "Cancel", "Create", "Accept"} => daemon.nonce \in Nonces

ClientTypes == IInv /\ ClientTypeOK /\ DaemonNonce

(* The slot of a nonce the daemon has read, and the ledger it may create.     *)
LEMMA DaemonAddresses ==
    ASSUME IInv, daemon.nonce \in Nonces
    PROVE  WatchedSlot \in Slots /\ (Exists(WatchedSlot) => LedgerBPDA \in Ledgers)
<1>1. WatchedSlot \in Slots
  BY ScriptAssumption, Addresses DEF WatchedSlot, findCommitSlotPDA
<1>2. ASSUME Exists(WatchedSlot)
      PROVE  slot[WatchedSlot].asset_b_mint \in Mints
  <2>1. slot[WatchedSlot].status \in SlotStatus
    BY <1>1 DEF IInv, TypeOK, SlotAccount
  <2> QED
    BY <1>1, <1>2, <2>1 DEF IInv, LockSlotMatch, WaitingMatchesA, LockedHoldsBoth,
       Waiting, BothLocked, Exists, SlotStatus
<1> QED
  BY <1>1, <1>2, ScriptAssumption, Addresses DEF LedgerBPDA, findLedgerPDA

-----------------------------------------------------------------------------
(* The clients' instructions are the program's *)

LEMMA InitiateIsProgramStep ==
    ASSUME IInv, NEW t \in Initiates, Submit(t)
    PROVE  Next
<1>1. /\ t.ledger \in Ledgers /\ t.nonce \in Nonces /\ t.counterparty \in Users
      /\ t.mint \in Mints /\ t.hash \in Hashes /\ t.expiry \in Nat
      /\ InitiateCommit(t.ledger, t.nonce, t.counterparty, t.mint, t.hash, t.expiry)
  BY DEF Initiates, Submit
<1> DEFINE w == t.expiry - now
<1>2. w \in Int /\ w >= MIN_INIT_WINDOW /\ w <= MAX_INIT_WINDOW /\ now + w = t.expiry
  BY <1>1 DEF InitiateCommit, IInv, TypeOK
<1>3. w \in 0..(MAX_INIT_WINDOW + 1)
  BY <1>2, WindowAssumption
<1> HIDE DEF w
<1>4. InitiateCommit(t.ledger, t.nonce, t.counterparty, t.mint, t.hash, now + w)
  BY <1>1, <1>2
<1>5. Initiate(t.ledger)
  BY <1>1, <1>3, <1>4 DEF Initiate
<1> QED
  BY <1>1, <1>5 DEF Next

LEMMA SubmitIsProgramStep ==
    ASSUME IInv, ClientTypeOK, NEW t \in sent, Submit(t)
    PROVE  Next
<1>1. CASE t \in Initiates
  BY <1>1, InitiateIsProgramStep
<1>2. CASE t \in Accepts
  <2>1. AcceptCommit(t.user, t.slot) /\ t.user \in Users /\ t.slot \in Slots
    BY <1>2 DEF Submit, Accepts
  <2> QED
    BY <2>1 DEF Next
<1> QED
  BY <1>1, <1>2 DEF ClientTypeOK

(* A call that has something under way.                                      *)
LEMMA RunUnderWay ==
    ASSUME ClientTypeOK, NEW r \in Runs, run[r].status \in {"Sending", "TimedOut"}
    PROVE  /\ run[r] \in Executions
           /\ NonceOf(run[r].slot) \in Nonces /\ r \in Encryptions
<1>1. run[r] \in {Idle} \cup Executions \cup Over
  BY DEF ClientTypeOK
<1>2. run[r] \in Executions
  BY <1>1 DEF Idle, Over
<1> QED
  BY <1>2, Addresses, RunAssumption DEF Executions

LEMMA StepIsProgramStep ==
    ASSUME IInv, ClientTypeOK, NEW r \in Runs, run[r].status \in {"Sending", "TimedOut"},
           StepLands(r)
    PROVE  Next
<1> DEFINE e == run[r]
<1>1. /\ e.slot \in Slots /\ e.user \in Users /\ e.hash \in Hashes
      /\ e.settlementNonce \in SettlementNonces /\ e.step \in 0..5
      /\ NonceOf(e.slot) \in Nonces /\ r \in Encryptions
  BY RunUnderWay DEF Executions
<1>2. CASE e.step = 0 /\ CreateStep(r)
  <2>1. CreateProofData(NonceOf(e.slot))
    BY <1>2 DEF CreateStep, findProofDataPDA
  <2> QED
    BY <1>1, <2>1, ScriptAssumption DEF Next
<1>3. CASE e.step \in 1..4 /\ WriteProofData(e.user, e.slot, e.step - 1, Chunk(r, e.step - 1))
  <2> DEFINE c == e.step - 1
  <2>1. c \in 0..3 /\ c \in Chunks
    BY <1>1, <1>3, ScriptAssumption
  <2>2. Chunk(r, c) \in IF c \in {0, 2} THEN Hashes ELSE Encryptions
    BY <1>1 DEF Chunk
  <2>3. WriteProofData(e.user, e.slot, c, Chunk(r, c))
    BY <1>3
  <2> HIDE DEF c
  <2>4. WriteChunk(e.slot)
    BY <1>1, <2>1, <2>2, <2>3 DEF WriteChunk
  <2> QED
    BY <1>1, <2>4 DEF Next
<1>4. CASE ExecuteSettleB(e.slot, findProofDataPDA(NonceOf(e.slot)), e.settlementNonce, r, r)
  <2>1. Execute(e.slot)
    BY <1>1, <1>4 DEF Execute, findProofDataPDA
  <2> QED
    BY <1>1, <2>1 DEF Next
<1> QED
  BY <1>2, <1>3, <1>4 DEF StepLands

LEMMA DaemonIsProgramStep ==
    ASSUME ClientTypes, DaemonNext
    PROVE  [Next]_vars
<1>1. CASE DaemonCancels
  <2>1. WatchedSlot \in Slots /\ CancelInitiate(WatchedSlot)
    BY <1>1, DaemonAddresses DEF DaemonCancels, ClientTypes, DaemonNonce
  <2> QED
    BY <2>1 DEF Next
<1>2. CASE DaemonCreatesLedger
  <2>1. LedgerBPDA \in Ledgers /\ CreateUserLedger(LedgerBPDA)
    BY <1>2, DaemonAddresses DEF DaemonCreatesLedger, ClientTypes, DaemonNonce
  <2> QED
    BY <2>1 DEF Next
<1>3. CASE DaemonAccepts
  <2>1. WatchedSlot \in Slots /\ AcceptCommit(Counterparty, WatchedSlot)
    BY <1>3, DaemonAddresses DEF DaemonAccepts, ClientTypes, DaemonNonce
  <2> QED
    BY <2>1, ScriptAssumption DEF Next
<1>4. DaemonPolls \/ DaemonChecksExpiry \/ DaemonReadsNonce \/ DaemonReadsSlot \/ DaemonExits
        => UNCHANGED vars
  BY DEF DaemonPolls, DaemonChecksExpiry, DaemonReadsNonce, DaemonReadsSlot, DaemonExits
<1> QED
  BY <1>1, <1>2, <1>3, <1>4 DEF DaemonNext

(* Every step of a client or a script is a step of the program or leaves its  *)
(* accounts alone.                                                           *)
LEMMA ClientIsProgramStep ==
    ASSUME ClientTypes, [ClientNext]_allVars
    PROVE  [Next]_vars
<1> USE DEF ClientTypes
<1>1. CASE UNCHANGED allVars
  BY <1>1 DEF allVars
<1>2. ASSUME NEW t \in sent, Land(t) \/ Drop(t)
      PROVE  [Next]_vars
  BY <1>2, SubmitIsProgramStep DEF Land, Drop
<1>3. ASSUME NEW r \in Runs, ExecuteNext(r)
      PROVE  [Next]_vars
  <2>1. CASE Confirmed(r) \/ LandsLate(r)
    BY <2>1, StepIsProgramStep DEF Confirmed, LandsLate
  <2>2. CASE TimesOut(r) \/ Fails(r) \/ FailsInGap(r)
    BY <2>2 DEF TimesOut, Fails, FailsInGap
  <2> QED
    BY <1>3, <2>1, <2>2 DEF ExecuteNext
<1>4. ASSUME NEW u, NEW v, NEW m, NEW k, NEW h, NEW w,
             InitiateClient(u, v, m, k, h, w)
      PROVE  UNCHANGED vars
  BY <1>4 DEF InitiateClient
<1>5. ASSUME NEW u, NEW s, NEW h, AcceptClient(u, s, h)
      PROVE  UNCHANGED vars
  BY <1>5 DEF AcceptClient
<1>6. ASSUME NEW r, NEW u, NEW s, ExecuteStart(r, u, s)
      PROVE  UNCHANGED vars
  BY <1>6 DEF ExecuteStart
<1>7. ASSUME \/ \E s \in Slots : \/ CancelInitiateClient(s) \/ CancelMutualClient(s)
                                 \/ AcceptScript(s)
             \/ \E a \in Ledgers : CreateLedgerScript(a)
             \/ InitializePool \/ Tick
      PROVE  Next
  BY <1>7, ScriptAssumption DEF CancelInitiateClient, CancelMutualClient, AcceptScript,
     CreateLedgerScript, Next
<1> QED
  BY <1>1, <1>2, <1>3, <1>4, <1>5, <1>6, <1>7, DaemonIsProgramStep, Zenon DEF ClientNext

-----------------------------------------------------------------------------
(* Types *)

(* What a call is after a step that landed.                                   *)
LEMMA NextAfter ==
    ASSUME ClientTypeOK, NEW r \in Runs, run[r].status \in {"Sending", "TimedOut"}
    PROVE  /\ run[r].step < 5 =>
                 /\ NextStep(run[r]) \in Executions
                 /\ NextStep(run[r]).status = run[r].status
                 /\ NextStep(run[r]).step = run[r].step + 1
                 /\ NextStep(run[r]).slot = run[r].slot
                 /\ NextStep(run[r]).hash = run[r].hash
           /\ run[r].step >= 5 => NextStep(run[r]) = End(run[r], "Done") /\ run[r].step = 5
           /\ [run[r] EXCEPT !.status = "TimedOut"] \in Executions
<1>1. run[r] \in Executions
  BY RunUnderWay
<1> QED
  BY <1>1 DEF End, NextStep, Executions

(* What it is after it ended.                                                *)
LEMMA RunAfter ==
    ASSUME ClientTypeOK, NEW r \in Runs, run[r].status \in {"Sending", "TimedOut"},
           NEW status \in {"Done", "Failed"}
    PROVE  /\ End(run[r], status) \in Over
           /\ End(run[r], status).status = status
           /\ End(run[r], status).step = run[r].step
           /\ End(run[r], status).slot = run[r].slot
           /\ End(run[r], status).settlement_id = <<run[r].slot, run[r].settlementNonce>>
<1>1. run[r] \in Executions
  BY RunUnderWay
<1> QED
  BY <1>1 DEF End, Executions, Over, findSettlementPDA

LEMMA RunsTyped ==
    ASSUME IInv, ClientTypeOK, NEW r \in Runs, ExecuteNext(r)
    PROVE  ClientTypeOK'
<1>1. run' = [run EXCEPT ![r] = run'[r]]
  BY DEF ExecuteNext, Confirmed, TimesOut, LandsLate, Fails, FailsInGap, ClientTypeOK
<1>2. run[r].status \in {"Sending", "TimedOut"}
  BY DEF ExecuteNext, Confirmed, TimesOut, LandsLate, Fails, FailsInGap
<1>3. run'[r] \in {NextStep(run[r]), End(run[r], "Failed"), [run[r] EXCEPT !.status = "TimedOut"]}
  BY DEF ExecuteNext, Confirmed, TimesOut, LandsLate, Fails, FailsInGap, ClientTypeOK
<1>4. run'[r] \in Executions \cup Over
  <2>1. run[r].step \in 0..5
    BY <1>2, RunUnderWay DEF Executions
  <2>2. End(run[r], "Failed") \in Over /\ End(run[r], "Done") \in Over
    BY <1>2, RunAfter
  <2>3. NextStep(run[r]) \in Executions \cup Over
    <3>1. /\ run[r].step < 5 => NextStep(run[r]) \in Executions
          /\ run[r].step >= 5 => NextStep(run[r]) = End(run[r], "Done")
      BY <1>2, NextAfter
    <3> QED
      BY <2>1, <2>2, <3>1
  <2>4. [run[r] EXCEPT !.status = "TimedOut"] \in Executions
    BY <1>2, NextAfter
  <2> QED
    BY <1>3, <2>2, <2>3, <2>4
<1>5. run' \in [Runs -> {Idle} \cup Executions \cup Over]
  BY <1>1, <1>4 DEF ClientTypeOK
<1>6. creator' \in [Nonces -> Runs \cup {NoRun}]
  <2>1. creator' = creator \/ creator' = [creator EXCEPT ![NonceOf(run[r].slot)] = r]
    BY DEF ExecuteNext, Confirmed, TimesOut, LandsLate, Fails, FailsInGap, StepLands,
       CreateStep, findProofDataPDA
  <2> QED
    BY <2>1 DEF ClientTypeOK
<1>7. missed' \subseteq Runs \X (0..5)
  <2>1. run[r].step \in 0..5
    BY <1>2, RunUnderWay DEF Executions
  <2> QED
    BY <2>1 DEF ExecuteNext, Confirmed, TimesOut, LandsLate, Fails, FailsInGap, ClientTypeOK
<1>8. UNCHANGED <<lastNonce, sent, daemon>>
  BY DEF ExecuteNext, Confirmed, TimesOut, LandsLate, Fails, FailsInGap
<1> QED
  BY <1>5, <1>6, <1>7, <1>8 DEF ClientTypeOK

LEMMA StartTyped ==
    ASSUME IInv, ClientTypeOK, NEW r \in Runs, NEW u \in Users, NEW s \in Slots,
           ExecuteStart(r, u, s)
    PROVE  ClientTypeOK'
<1>1. PICK k \in SettlementNonces :
        run' = [run EXCEPT ![r] =
            [status |-> "Sending", step |-> 0, slot |-> s, user |-> u,
             hash |-> slot[s].commitment_hash, settlementNonce |-> k]]
  BY DEF ExecuteStart
<1>2. slot[s].commitment_hash \in Hashes
  BY DEF ExecuteStart, IInv, LockSlotMatch, TermsAgree, Exists
<1>3. [status |-> "Sending", step |-> 0, slot |-> s, user |-> u,
       hash |-> slot[s].commitment_hash, settlementNonce |-> k] \in Executions
  BY <1>2 DEF Executions
<1> QED
  BY <1>1, <1>3 DEF ExecuteStart, ClientTypeOK

LEMMA SentTyped ==
    ASSUME IInv, ClientTypeOK
    PROVE  /\ \A u \in Initiators : \A v \in Users, m, k \in Mints, h \in Hashes, w \in Seconds :
                 InitiateClient(u, v, m, k, h, w) => ClientTypeOK'
           /\ \A u \in Users, s \in Slots, h \in Hashes :
                 AcceptClient(u, s, h) => ClientTypeOK'
           /\ \A t \in sent : Land(t) \/ Drop(t) => ClientTypeOK'
<1>1. ASSUME NEW u \in Initiators, NEW v \in Users, NEW m \in Mints, NEW k \in Mints,
             NEW h \in Hashes, NEW w \in Seconds, InitiateClient(u, v, m, k, h, w)
      PROVE  ClientTypeOK'
  <2>1. PICK nonce \in DateNow(u) :
          /\ lastNonce' = [lastNonce EXCEPT ![u] = nonce]
          /\ sent' = sent \cup
                 {[kind |-> "initiate", ledger |-> findLedgerPDA(u, m),
                   nonce |-> nonce, counterparty |-> v, mint |-> k,
                   hash |-> h, expiry |-> now + w + OFFSET]}
    BY <1>1 DEF InitiateClient
  <2>2. nonce \in Nonces /\ now + w + OFFSET \in Nat /\ findLedgerPDA(u, m) \in Ledgers
    <3>1. now \in Nat /\ w \in Nat /\ OFFSET \in Nat
      BY ScriptAssumption DEF IInv, TypeOK
    <3> QED
      BY <3>1, ScriptAssumption, Addresses DEF DateNow, findLedgerPDA
  <2>3. [kind |-> "initiate", ledger |-> findLedgerPDA(u, m), nonce |-> nonce,
         counterparty |-> v, mint |-> k, hash |-> h, expiry |-> now + w + OFFSET] \in Initiates
    BY <2>2 DEF Initiates
  <2> QED
    BY <1>1, <2>1, <2>2, <2>3 DEF InitiateClient, ClientTypeOK
<1>2. ASSUME NEW u \in Users, NEW s \in Slots, NEW h \in Hashes, AcceptClient(u, s, h)
      PROVE  ClientTypeOK'
  BY <1>2 DEF AcceptClient, ClientTypeOK, Accepts
<1>3. ASSUME NEW t \in sent, Land(t) \/ Drop(t)
      PROVE  ClientTypeOK'
  BY <1>3 DEF Land, Drop, ClientTypeOK
<1> QED
  BY <1>1, <1>2, <1>3

LEMMA DaemonTyped ==
    ASSUME ClientTypes, DaemonNext
    PROVE  ClientTypeOK' /\ DaemonNonce'
<1>1. /\ pending[WatchedLedger].nonce \in Nonces \cup {0}
      /\ ledger[WatchedLedger].status = "PendingInitiator"
            => pending[WatchedLedger].nonce \in Nonces
  BY PendingNonce, ScriptAssumption DEF ClientTypes
<1>2. /\ daemon.nonce \in Nonces \cup {0}
      /\ daemon.pc \in {"CheckExpiry", "Cancel", "Create", "Accept"} => daemon.nonce \in Nonces
  BY DEF ClientTypes, ClientTypeOK, DaemonNonce
<1>3. UNCHANGED <<lastNonce, sent, run, creator, missed>>
  BY DEF DaemonNext, DaemonPolls, DaemonChecksExpiry, DaemonCancels, DaemonReadsNonce,
     DaemonReadsSlot, DaemonCreatesLedger, DaemonAccepts, DaemonExits
<1>4. /\ daemon'.pc \in {"Poll", "CheckExpiry", "Cancel", "PollAgain", "ReadNonce",
                         "ReadSlot", "Create", "Accept", "Exit"}
      /\ daemon'.nonce \in Nonces \cup {0}
      /\ daemon' = [pc |-> daemon'.pc, nonce |-> daemon'.nonce]
      /\ daemon'.pc \in {"CheckExpiry", "Cancel", "Create", "Accept"} => daemon'.nonce \in Nonces
  <2>1. CASE DaemonPolls
    BY <1>1, <2>1 DEF DaemonPolls, Read
  <2>2. CASE DaemonChecksExpiry
    BY <1>2, <2>2 DEF DaemonChecksExpiry, Go
  <2>3. CASE DaemonCancels
    BY <1>2, <2>3 DEF DaemonCancels, Go
  <2>4. CASE DaemonReadsNonce
    BY <1>1, <2>4 DEF DaemonReadsNonce, Read
  <2>5. CASE DaemonReadsSlot
    BY <1>2, <2>5 DEF DaemonReadsSlot, Go
  <2>6. CASE DaemonCreatesLedger
    BY <1>2, <2>6 DEF DaemonCreatesLedger, Go
  <2>7. CASE DaemonAccepts
    BY <1>2, <2>7 DEF DaemonAccepts, Go
  <2>8. CASE DaemonExits
    BY <1>2, <2>8 DEF DaemonExits, Go
  <2> QED
    BY <2>1, <2>2, <2>3, <2>4, <2>5, <2>6, <2>7, <2>8 DEF DaemonNext
<1> QED
  BY <1>3, <1>4 DEF ClientTypes, ClientTypeOK, DaemonNonce

LEMMA InitClients ==
    ASSUME ClientInit
    PROVE  ClientTypes
<1>1. IInv
  BY InitTypeOK, InitLockSlotMatch DEF ClientInit, IInv
<1>2. ClientTypeOK /\ DaemonNonce
  BY DEF ClientInit, ClientTypeOK, DaemonNonce
<1> QED
  BY <1>1, <1>2 DEF ClientTypes

LEMMA StepTypes ==
    ASSUME ClientTypes, [ClientNext]_allVars
    PROVE  ClientTypes'
<1>1. IInv'
  BY ClientIsProgramStep, NextTypeOK, NextLockSlotMatch DEF ClientTypes, IInv
<1>2. ASSUME DaemonNext
      PROVE  ClientTypeOK' /\ DaemonNonce'
  BY <1>2, DaemonTyped
<1>3. ASSUME UNCHANGED daemon
      PROVE  DaemonNonce'
  BY <1>3 DEF ClientTypes, DaemonNonce
<1>4. ClientTypeOK' /\ (DaemonNext \/ UNCHANGED daemon)
  <2>1. CASE UNCHANGED clients
    BY <2>1 DEF clients, ClientTypes, ClientTypeOK
  <2>2. /\ \A u, v, m, k, h, w : InitiateClient(u, v, m, k, h, w) => UNCHANGED daemon
        /\ \A u, s, h : AcceptClient(u, s, h) => UNCHANGED daemon
        /\ \A t : Land(t) \/ Drop(t) => UNCHANGED daemon
        /\ \A r, u, s : ExecuteStart(r, u, s) => UNCHANGED daemon
        /\ \A r : ExecuteNext(r) => UNCHANGED daemon
        /\ UNCHANGED clients => UNCHANGED daemon
        /\ UNCHANGED allVars => UNCHANGED clients
        /\ \A s : CancelInitiateClient(s) \/ CancelMutualClient(s) \/ AcceptScript(s)
              => UNCHANGED clients
        /\ \A a : CreateLedgerScript(a) => UNCHANGED clients
    BY DEF InitiateClient, AcceptClient, Land, Drop, ExecuteStart, ExecuteNext, Confirmed,
       TimesOut, LandsLate, Fails, FailsInGap, clients, allVars, CancelInitiateClient,
       CancelMutualClient, AcceptScript, CreateLedgerScript
  <2> QED
    BY <1>2, <2>1, <2>2, SentTyped, StartTyped, RunsTyped, Zenon DEF ClientNext, ClientTypes
<1> QED
  BY <1>1, <1>2, <1>3, <1>4 DEF ClientTypes

(* What the clients do is a behaviour of the program: the theorems about Spec *)
(* hold of the program in their hands.                                       *)
THEOREM ClientsRunTheProgram == ClientSpec => Spec
<1>1. ClientInit => ClientTypes /\ Init
  BY InitClients DEF ClientInit
<1>2. ClientTypes /\ [ClientNext]_allVars => ClientTypes' /\ [Next]_vars
  BY StepTypes, ClientIsProgramStep
<1> QED
  BY <1>1, <1>2, PTL DEF ClientSpec, Spec

(* Retried calls, transactions that land late and scripts that do not look    *)
(* included, the clients make the bilateral deals of OtcDeals: two ledgers    *)
(* lock, settle and leave together (accept_commit.rs:83).                     *)
THEOREM ClientsMakeBilateralDeals ==
    ClientSpec => RefinesOtcDeals /\ NeitherWalksAway
  BY ClientsRunTheProgram, ImplementsOtcDeals, NobodyWalksAway

(* Calls, transactions on their way and the daemon keep their types.         *)
THEOREM ClientTypesCorrect == ClientSpec => []ClientTypeOK
<1>1. ClientInit => ClientTypes
  BY InitClients
<1>2. ClientTypes /\ [ClientNext]_allVars => ClientTypes'
  BY StepTypes
<1>3. ClientTypes => ClientTypeOK
  BY DEF ClientTypes
<1> QED
  BY <1>1, <1>2, <1>3, PTL DEF ClientSpec

-----------------------------------------------------------------------------
(* The calls of executeSettle *)

(* A proof account is there once its creation landed: accounts are not closed. *)
CreatorHasAccount == \A n \in Nonces : creator[n] # NoRun => n \in proofAccounts

(* A refused create_proof_data or chunk on nonce n was taken for a success.   *)
MissedAt(m, f, n) == \E g \in m : g[2] < 5 /\ NonceOf(f[g[1]].slot) = n

MissedStarted == \A g \in missed : run[g[1]].status # "Idle"

(* A call past its first step created the account of its nonce, and the       *)
(* chunks it has written are still those it wrote.                           *)
ChunksOfCreator ==
    \A r \in Runs :
        run[r].status \in {"Sending", "TimedOut"} /\ run[r].step >= 1 =>
            \/ MissedAt(missed, run, NonceOf(run[r].slot))
            \/ /\ NonceOf(run[r].slot) \in proofAccounts
               /\ creator[NonceOf(run[r].slot)] = r
               /\ \A i \in 0..3 :
                     i + 1 < run[r].step => proofData[NonceOf(run[r].slot)][i] = Chunk(r, i)

(* The call a record comes from has ended with the record's slot.            *)
RecordsOfRuns ==
    \A q \in records :
        \/ MissedAt(missed, run, NonceOf(q.id[1]))
        \/ /\ creator[NonceOf(q.id[1])] # NoRun
           /\ run[creator[NonceOf(q.id[1])]].status \in {"Done", "Failed"}
           /\ run[creator[NonceOf(q.id[1])]].slot = q.id[1]
           /\ run[creator[NonceOf(q.id[1])]].step = 5

DoneRecorded ==
    \A r \in Runs :
        run[r].status = "Done" =>
            (\E s \in records : s.id = run[r].settlement_id) \/ <<r, 5>> \in missed

BalancesOfOneRun ==
    \A l \in Ledgers :
        \/ ledger[l].balance_ct = ledger[l].encryption_r
        \/ \E s \in Slots, k \in SettlementNonces :
              ledger[l].last_settlement_id = <<s, k>> /\ MissedAt(missed, run, NonceOf(s))

CallInv ==
    /\ ClientTypes
    /\ CreatorHasAccount
    /\ MissedStarted
    /\ ChunksOfCreator
    /\ RecordsOfRuns
    /\ DoneRecorded
    /\ BalancesOfOneRun

(* What went wrong on a nonce stays so, for a call keeps its slot.           *)
LEMMA MissesStay ==
    ASSUME CallInv, missed \subseteq missed',
           \A r \in Runs : run[r].status # "Idle" =>
              run'[r].slot = run[r].slot /\ run'[r].status # "Idle"
    PROVE  /\ \A n : MissedAt(missed, run, n) => MissedAt(missed', run', n)
           /\ (\A g \in missed' : g \in missed \/ run'[g[1]].status # "Idle")
                  => MissedStarted'
<1>1. \A g \in missed : g[1] \in Runs /\ run[g[1]].status # "Idle"
  BY DEF CallInv, ClientTypes, ClientTypeOK, MissedStarted
<1> QED
  BY <1>1 DEF MissedAt, MissedStarted

(* The nonce of a record and the call its account is of.                     *)
LEMMA RecordNonce ==
    ASSUME CallInv, NEW q \in records
    PROVE  NonceOf(q.id[1]) \in Nonces /\ creator[NonceOf(q.id[1])] \in Runs \cup {NoRun}
<1>1. q.id[1] \in Slots
  BY DEF CallInv, ClientTypes, IInv, TypeOK, RecordType
<1> QED
  BY <1>1, Addresses DEF CallInv, ClientTypes, ClientTypeOK

(* A ledger keeps its balance and what it was settled by, or has none yet.    *)
Undisturbed(l) ==
    \/ ledger'[l].balance_ct = ledger'[l].encryption_r
    \/ /\ ledger'[l].balance_ct = ledger[l].balance_ct
       /\ ledger'[l].encryption_r = ledger[l].encryption_r
       /\ ledger'[l].last_settlement_id = ledger[l].last_settlement_id

(* A step that executes nothing and leaves the proof accounts alone.          *)
LEMMA CalmStep ==
    ASSUME CallInv, ClientTypes',
           UNCHANGED <<run, creator, missed, proofAccounts, proofData, records>>,
           \A l \in Ledgers : Undisturbed(l)
    PROVE  CallInv'
<1>1. BalancesOfOneRun'
  BY DEF CallInv, BalancesOfOneRun, Undisturbed
<1>2. ChunksOfCreator'
  BY DEF CallInv, ChunksOfCreator, Chunk
<1> QED
  BY <1>1, <1>2 DEF CallInv, CreatorHasAccount, MissedStarted, RecordsOfRuns, DoneRecorded

(* What the instructions of the other clients do to a balance: nothing.      *)
LEMMA BalancesKept ==
    ASSUME TypeOK, NEW l \in Ledgers
    PROVE  /\ \A a \in Ledgers : CreateUserLedger(a) => Undisturbed(l)
           /\ \A a \in Ledgers : \A n, u, m, h, e :
                 InitiateCommit(a, n, u, m, h, e) => Undisturbed(l)
           /\ \A u, s : AcceptCommit(u, s) => Undisturbed(l)
           /\ \A s : CancelInitiate(s) \/ CancelMutual(s) => Undisturbed(l)
<1>1. ledger \in [Ledgers -> LedgerAccount]
  BY DEF TypeOK
<1>2. \A x \in LedgerAccount : \A st :
         /\ WithStatus(x, st).balance_ct = x.balance_ct
         /\ WithStatus(x, st).encryption_r = x.encryption_r
         /\ WithStatus(x, st).last_settlement_id = x.last_settlement_id
  BY DEF WithStatus, LedgerAccount
<1>3. \A st : EmptyLedger(st).balance_ct = EmptyLedger(st).encryption_r
  BY DEF EmptyLedger
<1>4. ASSUME NEW a \in Ledgers, CreateUserLedger(a)
      PROVE  Undisturbed(l)
  <2>1. ledger'[l] = ledger[l] \/ \E st : ledger'[l] = EmptyLedger(st)
    BY <1>1, <1>4 DEF CreateUserLedger
  <2> QED
    BY <1>3, <2>1 DEF Undisturbed
<1>5. ASSUME NEW a \in Ledgers, NEW n, NEW u, NEW m, NEW h, NEW e,
             InitiateCommit(a, n, u, m, h, e)
      PROVE  Undisturbed(l)
  BY <1>1, <1>2, <1>5 DEF InitiateCommit, Undisturbed
<1>6. ASSUME NEW u, NEW s, AcceptCommit(u, s)
      PROVE  Undisturbed(l)
  <2> DEFINE a == LedgerA(s)
             b == <<u, slot[s].asset_b_mint>>
  <2>1. ledger' = [ledger EXCEPT ![a] = WithStatus(@, "BothPending"),
                                 ![b] = WithStatus(@, "PendingCounterparty")]
    BY <1>6 DEF AcceptCommit
  <2> HIDE DEF a, b
  <2>2. ledger'[l] \in {ledger[l], WithStatus(ledger[l], "BothPending"),
                       WithStatus(ledger[l], "PendingCounterparty"),
                       WithStatus(WithStatus(ledger[l], "BothPending"), "PendingCounterparty")}
    BY <1>1, <2>1
  <2>3. WithStatus(ledger[l], "BothPending") \in LedgerAccount
    BY <1>1, StatusChanged DEF LedgerStatus
  <2> QED
    BY <1>1, <1>2, <2>2, <2>3 DEF Undisturbed
<1>7. ASSUME NEW s, CancelInitiate(s)
      PROVE  Undisturbed(l)
  BY <1>1, <1>2, <1>7 DEF CancelInitiate, Undisturbed
<1>8. ASSUME NEW s, CancelMutual(s)
      PROVE  Undisturbed(l)
  BY <1>1, <1>2, <1>8 DEF CancelMutual, Undisturbed
<1> QED
  BY <1>4, <1>5, <1>6, <1>7, <1>8

(* An accept or a cancel settles nothing, nor does a transaction given up on. *)
LEMMA OthersAreCalm ==
    ASSUME CallInv, ClientTypes', [ClientNext]_allVars,
           ~(\E r \in Runs : ExecuteNext(r)),
           ~(\E r \in Runs, u \in Users, s \in Slots : ExecuteStart(r, u, s))
    PROVE  CallInv'
<1> DEFINE Kept == \A l \in Ledgers : Undisturbed(l)
           Same == UNCHANGED <<run, creator, missed, proofAccounts, proofData, records>>
<1>1. TypeOK
  BY DEF CallInv, ClientTypes, IInv
<1>2. ASSUME UNCHANGED ledger
      PROVE  Kept
  BY <1>2 DEF Undisturbed
<1>3. ASSUME NEW a \in Ledgers, CreateUserLedger(a)
      PROVE  Kept /\ UNCHANGED <<proofAccounts, proofData, records>>
  BY <1>1, <1>3, BalancesKept DEF CreateUserLedger
<1>4. ASSUME NEW u, NEW s, AcceptCommit(u, s)
      PROVE  Kept /\ UNCHANGED <<proofAccounts, proofData, records>>
  BY <1>1, <1>4, BalancesKept DEF AcceptCommit
<1>5. ASSUME NEW s, CancelInitiate(s) \/ CancelMutual(s)
      PROVE  Kept /\ UNCHANGED <<proofAccounts, proofData, records>>
  <2>1. Kept
    BY <1>1, <1>5, BalancesKept
  <2>2. UNCHANGED <<proofAccounts, proofData, records>>
    BY <1>5 DEF CancelInitiate, CancelMutual
  <2> QED
    BY <2>1, <2>2
<1>6. ASSUME NEW t \in sent, Submit(t)
      PROVE  Kept /\ UNCHANGED <<proofAccounts, proofData, records>>
  <2>1. CASE t \in Initiates
    <3>1. t.ledger \in Ledgers
          /\ InitiateCommit(t.ledger, t.nonce, t.counterparty, t.mint, t.hash, t.expiry)
      BY <1>6, <2>1 DEF Submit, Initiates
    <3>2. Kept
      BY <1>1, <3>1, BalancesKept
    <3>3. UNCHANGED <<proofAccounts, proofData, records>>
      BY <3>1 DEF InitiateCommit
    <3> QED
      BY <3>2, <3>3
  <2>2. CASE t \in Accepts
    <3>1. AcceptCommit(t.user, t.slot)
      BY <1>6, <2>2 DEF Submit, Accepts
    <3> QED
      BY <3>1, <1>4
  <2> QED
    BY <2>1, <2>2 DEF CallInv, ClientTypes, ClientTypeOK
<1> HIDE DEF Kept
<1>7. CASE DaemonNext
  <2>1. UNCHANGED <<run, creator, missed>>
    BY <1>7 DEF DaemonNext, DaemonPolls, DaemonChecksExpiry, DaemonCancels,
       DaemonReadsNonce, DaemonReadsSlot, DaemonCreatesLedger, DaemonAccepts, DaemonExits
  <2>2. Kept /\ UNCHANGED <<proofAccounts, proofData, records>>
    <3>1. CASE DaemonCancels
      BY <1>5, <3>1 DEF DaemonCancels
    <3>2. CASE DaemonCreatesLedger
      <4>1. LedgerBPDA \in Ledgers /\ CreateUserLedger(LedgerBPDA)
        BY <3>2, DaemonAddresses DEF DaemonCreatesLedger, CallInv, ClientTypes, DaemonNonce
      <4> QED
        BY <1>3, <4>1
    <3>3. CASE DaemonAccepts
      BY <1>4, <3>3 DEF DaemonAccepts
    <3>4. DaemonPolls \/ DaemonChecksExpiry \/ DaemonReadsNonce \/ DaemonReadsSlot
            \/ DaemonExits => UNCHANGED vars
      BY DEF DaemonPolls, DaemonChecksExpiry, DaemonReadsNonce, DaemonReadsSlot, DaemonExits
    <3>5. UNCHANGED vars => Kept /\ UNCHANGED <<proofAccounts, proofData, records>>
      BY <1>2 DEF vars
    <3> QED
      BY <1>7, <3>1, <3>2, <3>3, <3>4, <3>5 DEF DaemonNext
  <2> QED
    BY <2>1, <2>2, CalmStep DEF Kept
<1>8. CASE UNCHANGED vars /\ UNCHANGED <<run, creator, missed>>
  BY <1>2, <1>8, CalmStep DEF vars, Kept
<1>9. ASSUME NEW t \in sent, Land(t)
      PROVE  CallInv'
  <2>1. Submit(t) /\ UNCHANGED <<run, creator, missed>>
    BY <1>9 DEF Land
  <2> QED
    BY <1>6, <2>1, CalmStep DEF Kept
<1>10. ASSUME NEW s, CancelInitiateClient(s) \/ CancelMutualClient(s)
       PROVE  CallInv'
  BY <1>5, <1>10, CalmStep DEF CancelInitiateClient, CancelMutualClient, clients, Kept
<1>11. ASSUME NEW s, AcceptScript(s)
       PROVE  CallInv'
  BY <1>4, <1>11, CalmStep DEF AcceptScript, clients, Kept
<1>12. ASSUME NEW a \in Ledgers, CreateLedgerScript(a)
       PROVE  CallInv'
  BY <1>3, <1>12, CalmStep DEF CreateLedgerScript, clients, Kept
<1>13. ASSUME InitializePool \/ Tick, UNCHANGED clients
       PROVE  CallInv'
  <2>1. UNCHANGED <<ledger, proofAccounts, proofData, records>>
    BY <1>13 DEF InitializePool, Tick
  <2> QED
    BY <1>2, <1>13, <2>1, CalmStep DEF clients, Kept
<1>14. /\ \A u, v, m, k, h, w : InitiateClient(u, v, m, k, h, w)
                => UNCHANGED vars /\ UNCHANGED <<run, creator, missed>>
       /\ \A u, s, h : AcceptClient(u, s, h)
                => UNCHANGED vars /\ UNCHANGED <<run, creator, missed>>
       /\ \A t : Drop(t) => UNCHANGED vars /\ UNCHANGED <<run, creator, missed>>
       /\ UNCHANGED allVars => UNCHANGED vars /\ UNCHANGED <<run, creator, missed>>
  BY DEF InitiateClient, AcceptClient, Drop, allVars, clients
<1> QED
  BY <1>7, <1>8, <1>9, <1>10, <1>11, <1>12, <1>13, <1>14, Zenon DEF ClientNext

(* A call that starts has written nothing, and is of no record.              *)
LEMMA StartKeepsCalls ==
    ASSUME CallInv, ClientTypes', NEW r \in Runs, NEW u, NEW s, ExecuteStart(r, u, s)
    PROVE  CallInv'
<1>1. /\ run[r].status = "Idle"
      /\ run'[r].status = "Sending" /\ run'[r].step = 0
      /\ \A q \in Runs : q # r => run'[q] = run[q]
  BY DEF ExecuteStart, Idle, CallInv, ClientTypes, ClientTypeOK
<1>2. UNCHANGED <<vars, creator, missed>>
  BY DEF ExecuteStart
<1>3. UNCHANGED <<ledger, proofAccounts, proofData, records>>
  BY <1>2 DEF vars
<1>m. /\ \A n : MissedAt(missed, run, n) => MissedAt(missed', run', n)
      /\ MissedStarted'
  BY <1>1, <1>2, MissesStay
<1>4. ChunksOfCreator'
  <2> SUFFICES ASSUME NEW q \in Runs,
                      run'[q].status \in {"Sending", "TimedOut"}, run'[q].step >= 1
               PROVE  \/ MissedAt(missed', run', NonceOf(run'[q].slot))
                      \/ /\ NonceOf(run'[q].slot) \in proofAccounts'
                         /\ creator'[NonceOf(run'[q].slot)] = q
                         /\ \A i \in 0..3 : i + 1 < run'[q].step
                               => proofData'[NonceOf(run'[q].slot)][i] = Chunk(q, i)'
    BY DEF ChunksOfCreator
  <2>1. run'[q] = run[q] /\ \A i : Chunk(q, i)' = Chunk(q, i)
    BY <1>1 DEF Chunk
  <2> QED
    BY <1>2, <1>3, <1>m, <2>1 DEF CallInv, ChunksOfCreator
<1>5. RecordsOfRuns'
  <2> SUFFICES ASSUME NEW q \in records', ~MissedAt(missed', run', NonceOf(q.id[1]))
               PROVE  /\ creator'[NonceOf(q.id[1])] # NoRun
                      /\ run'[creator'[NonceOf(q.id[1])]].status \in {"Done", "Failed"}
                      /\ run'[creator'[NonceOf(q.id[1])]].slot = q.id[1]
                      /\ run'[creator'[NonceOf(q.id[1])]].step = 5
    BY DEF RecordsOfRuns
  <2> DEFINE c == creator[NonceOf(q.id[1])]
  <2>1. c # NoRun /\ run[c].status \in {"Done", "Failed"} /\ run[c].slot = q.id[1]
        /\ run[c].step = 5
    BY <1>3, <1>m DEF CallInv, RecordsOfRuns
  <2>2. c \in Runs /\ c # r
    BY <1>1, <1>3, <2>1, RecordNonce
  <2> QED
    BY <1>1, <1>2, <2>1, <2>2
<1>6. DoneRecorded'
  BY <1>1, <1>2, <1>3 DEF CallInv, DoneRecorded
<1>7. CreatorHasAccount'
  BY <1>2, <1>3 DEF CallInv, CreatorHasAccount
<1>8. BalancesOfOneRun'
  BY <1>2, <1>3, <1>m DEF CallInv, BalancesOfOneRun
<1> QED
  BY <1>4, <1>5, <1>6, <1>7, <1>8, <1>m DEF CallInv

(* A call that gives up, or takes a refusal for a success, changes no         *)
(* account; the refusal is held against the nonce, or against its record.    *)
LEMMA GivingUpKeepsCalls ==
    ASSUME CallInv, ClientTypes', NEW r \in Runs, TimesOut(r) \/ Fails(r) \/ FailsInGap(r)
    PROVE  CallInv'
<1>1. run[r].status \in {"Sending", "TimedOut"} /\ ClientTypeOK
      /\ run \in [Runs -> {Idle} \cup Executions \cup Over]
  BY DEF CallInv, TimesOut, Fails, FailsInGap, ClientTypes, ClientTypeOK
<1>2. UNCHANGED <<vars, creator>> /\ \A q \in Runs : q # r => run'[q] = run[q]
  BY <1>1 DEF TimesOut, Fails, FailsInGap
<1>3. UNCHANGED <<ledger, proofAccounts, proofData, records>>
  BY <1>2 DEF vars
<1>4. run[r] \in Executions /\ run[r].step \in 0..5
  BY <1>1, RunUnderWay DEF Executions
<1>5. /\ run'[r].slot = run[r].slot
      /\ run'[r].status \in {"Sending", "TimedOut", "Done", "Failed"}
      /\ \/ /\ missed' = missed /\ run'[r].status # "Done"
            /\ run'[r].status \in {"Sending", "TimedOut"} =>
                  run'[r].step = run[r].step /\ run'[r].hash = run[r].hash
         \/ /\ missed' = missed \cup {<<r, run[r].step>>}
            /\ run[r].step = 5 => run'[r].status = "Done"
            /\ run[r].step < 5 => run'[r].status = "Sending"
  <2>1. CASE TimesOut(r)
    <3>1. run'[r] = [run[r] EXCEPT !.status = "TimedOut"]
      BY <1>1, <2>1 DEF TimesOut
    <3> QED
      BY <1>4, <2>1, <3>1 DEF Executions, TimesOut
  <2>2. CASE Fails(r)
    <3>1. run'[r] = End(run[r], "Failed") /\ missed' = missed
      BY <1>1, <2>2 DEF Fails
    <3>2. End(run[r], "Failed").status = "Failed" /\ End(run[r], "Failed").slot = run[r].slot
      BY <1>1, RunAfter
    <3> QED
      BY <3>1, <3>2
  <2>3. CASE FailsInGap(r)
    <3>1. /\ run'[r] = NextStep(run[r]) /\ run[r].status = "Sending"
          /\ missed' = missed \cup {<<r, run[r].step>>}
      BY <1>1, <2>3 DEF FailsInGap
    <3>2. /\ run[r].step < 5 => NextStep(run[r]).status = run[r].status
                                 /\ NextStep(run[r]).slot = run[r].slot
          /\ run[r].step >= 5 => NextStep(run[r]) = End(run[r], "Done")
      BY <1>1, NextAfter
    <3>3. End(run[r], "Done").status = "Done" /\ End(run[r], "Done").slot = run[r].slot
      BY <1>1, RunAfter
    <3>4. CASE run[r].step < 5
      BY <3>1, <3>2, <3>4
    <3>5. CASE run[r].step = 5
      BY <3>1, <3>2, <3>3, <3>5
    <3> QED
      BY <1>4, <3>4, <3>5
  <2> QED
    BY <2>1, <2>2, <2>3
<1>6. missed \subseteq missed'
  BY <1>5
<1>7. \A q \in Runs : run[q].status # "Idle" =>
         run'[q].slot = run[q].slot /\ run'[q].status # "Idle"
  BY <1>2, <1>5
<1>m. /\ \A n : MissedAt(missed, run, n) => MissedAt(missed', run', n)
      /\ MissedStarted'
  <2>1. \A g \in missed' : g \in missed \/ run'[g[1]].status # "Idle"
    BY <1>5
  <2> QED
    BY <1>6, <1>7, <2>1, MissesStay
<1>8. ChunksOfCreator'
  <2> SUFFICES ASSUME NEW q \in Runs, ~MissedAt(missed', run', NonceOf(run'[q].slot)),
                      run'[q].status \in {"Sending", "TimedOut"}, run'[q].step >= 1
               PROVE  /\ NonceOf(run'[q].slot) \in proofAccounts'
                      /\ creator'[NonceOf(run'[q].slot)] = q
                      /\ \A i \in 0..3 : i + 1 < run'[q].step
                            => proofData'[NonceOf(run'[q].slot)][i] = Chunk(q, i)'
    BY DEF ChunksOfCreator
  <2>1. run'[q].slot = run[q].slot
    BY <1>2, <1>5
  <2>2. /\ run[q].status \in {"Sending", "TimedOut"} /\ run'[q].step = run[q].step
        /\ run'[q].hash = run[q].hash
    <3>1. CASE q # r
      BY <1>2, <3>1
    <3>2. CASE /\ q = r
               /\ run'[r].status \in {"Sending", "TimedOut"} =>
                     run'[r].step = run[r].step /\ run'[r].hash = run[r].hash
      BY <1>1, <3>2
    <3>3. CASE q = r /\ missed' = missed \cup {<<r, run[r].step>>} /\ run[r].step < 5
      <4>1. <<r, run[r].step>> \in missed' /\ NonceOf(run'[r].slot) = NonceOf(run'[q].slot)
        BY <3>3
      <4> QED
        BY <3>3, <4>1 DEF MissedAt
    <3>4. run[r].step = 5 => q # r \/ run'[r].status # "Done"
      OBVIOUS
    <3> QED
      BY <1>4, <1>5, <3>1, <3>2, <3>3, <3>4
  <2>3. \A i : Chunk(q, i)' = Chunk(q, i)
    BY <2>2 DEF Chunk
  <2>4. ~MissedAt(missed, run, NonceOf(run[q].slot))
    BY <1>m, <2>1
  <2> QED
    BY <1>2, <1>3, <2>1, <2>2, <2>3, <2>4 DEF CallInv, ChunksOfCreator
<1>9. RecordsOfRuns'
  <2> SUFFICES ASSUME NEW q \in records', ~MissedAt(missed', run', NonceOf(q.id[1]))
               PROVE  /\ creator'[NonceOf(q.id[1])] # NoRun
                      /\ run'[creator'[NonceOf(q.id[1])]].status \in {"Done", "Failed"}
                      /\ run'[creator'[NonceOf(q.id[1])]].slot = q.id[1]
                      /\ run'[creator'[NonceOf(q.id[1])]].step = 5
    BY DEF RecordsOfRuns
  <2> DEFINE c == creator[NonceOf(q.id[1])]
  <2>1. c # NoRun /\ run[c].status \in {"Done", "Failed"} /\ run[c].slot = q.id[1]
        /\ run[c].step = 5
    BY <1>3, <1>m DEF CallInv, RecordsOfRuns
  <2>2. c \in Runs /\ c # r
    BY <1>1, <1>3, <2>1, RecordNonce
  <2> QED
    BY <1>2, <2>1, <2>2
<1>10. DoneRecorded'
  <2> SUFFICES ASSUME NEW q \in Runs, run'[q].status = "Done"
               PROVE  (\E x \in records' : x.id = run'[q].settlement_id) \/ <<q, 5>> \in missed'
    BY DEF DoneRecorded
  <2>1. CASE q = r
    BY <1>4, <1>5, <2>1
  <2>2. CASE q # r
    BY <1>2, <1>3, <1>6, <2>2 DEF CallInv, DoneRecorded
  <2> QED
    BY <2>1, <2>2
<1>11. CreatorHasAccount'
  BY <1>2, <1>3 DEF CallInv, CreatorHasAccount
<1>12. BalancesOfOneRun'
  BY <1>3, <1>m DEF CallInv, BalancesOfOneRun
<1> QED
  BY <1>8, <1>9, <1>10, <1>11, <1>12, <1>m DEF CallInv

(* What a call is once the transaction of its step has landed.               *)
LEMMA LandingRun ==
    ASSUME CallInv, NEW r \in Runs, Confirmed(r) \/ LandsLate(r)
    PROVE  /\ run[r].status \in {"Sending", "TimedOut"} /\ StepLands(r) /\ missed' = missed
           /\ run[r].slot \in Slots /\ NonceOf(run[r].slot) \in Nonces
           /\ run[r].step \in 0..5
           /\ \A q \in Runs : q # r => run'[q] = run[q]
           /\ run'[r].slot = run[r].slot
           /\ \/ /\ run'[r].status = "Sending" /\ run[r].step < 5
                 /\ run'[r].step = run[r].step + 1 /\ run'[r].hash = run[r].hash
              \/ /\ run'[r].status \in {"Done", "Failed"} /\ run'[r].step = run[r].step
                 /\ run'[r].settlement_id = <<run[r].slot, run[r].settlementNonce>>
                 /\ run'[r].status = "Done" => run[r].step = 5
           /\ run[r].step = 5 => run'[r].status \in {"Done", "Failed"}
<1>1. ClientTypeOK /\ run \in [Runs -> {Idle} \cup Executions \cup Over]
  BY DEF CallInv, ClientTypes, ClientTypeOK
<1>2. /\ run[r].status \in {"Sending", "TimedOut"} /\ StepLands(r) /\ missed' = missed
      /\ \A q \in Runs : q # r => run'[q] = run[q]
  BY <1>1 DEF Confirmed, LandsLate
<1>3. run[r] \in Executions /\ NonceOf(run[r].slot) \in Nonces
  BY <1>1, <1>2, RunUnderWay
<1>4. run[r].step \in 0..5 /\ run[r].slot \in Slots
  BY <1>3 DEF Executions
<1>5. "Done" \in {"Done", "Failed"} /\ "Failed" \in {"Done", "Failed"}
  OBVIOUS
<1>6. \A status \in {"Done", "Failed"} :
         /\ End(run[r], status).status = status
         /\ End(run[r], status).step = run[r].step
         /\ End(run[r], status).slot = run[r].slot
         /\ End(run[r], status).settlement_id = <<run[r].slot, run[r].settlementNonce>>
  BY <1>1, <1>2, RunAfter
<1>7. CASE LandsLate(r)
  <2>1. run'[r] = End(run[r], "Failed")
    BY <1>1, <1>7 DEF LandsLate
  <2> QED
    BY <1>2, <1>3, <1>4, <1>5, <1>6, <2>1
<1>8. CASE Confirmed(r)
  <2>1. run'[r] = NextStep(run[r]) /\ run[r].status = "Sending"
    BY <1>1, <1>8 DEF Confirmed
  <2>2. /\ run[r].step < 5 => /\ NextStep(run[r]).status = run[r].status
                              /\ NextStep(run[r]).step = run[r].step + 1
                              /\ NextStep(run[r]).slot = run[r].slot
                              /\ NextStep(run[r]).hash = run[r].hash
        /\ run[r].step >= 5 => NextStep(run[r]) = End(run[r], "Done")
    BY <1>1, <1>2, NextAfter
  <2>3. CASE run[r].step < 5
    BY <1>2, <1>3, <1>4, <2>1, <2>2, <2>3
  <2>4. CASE run[r].step >= 5
    <3>1. run'[r] = End(run[r], "Done") /\ run[r].step = 5
      BY <1>4, <2>1, <2>2, <2>4
    <3> QED
      BY <1>2, <1>3, <1>4, <1>5, <1>6, <3>1
  <2> QED
    BY <1>4, <2>3, <2>4
<1> QED
  BY <1>7, <1>8

(* The call that creates a proof account is its only creator: the calls past  *)
(* that step, and the records, have other nonces.                            *)
LEMMA CreationKeepsCalls ==
    ASSUME CallInv, ClientTypes', NEW r \in Runs, Confirmed(r) \/ LandsLate(r),
           run[r].step = 0, CreateStep(r)
    PROVE  CallInv'
<1> DEFINE n == NonceOf(run[r].slot)
<1>1. /\ n \in Nonces /\ n \notin proofAccounts
      /\ proofAccounts' = proofAccounts \cup {n}
      /\ \A m \in Nonces : m # n => proofData'[m] = proofData[m]
      /\ UNCHANGED <<ledger, records, slot>> /\ missed' = missed
      /\ creator' = [creator EXCEPT ![n] = r] /\ creator \in [Nonces -> Runs \cup {NoRun}]
  BY LandingRun DEF CreateStep, CreateProofData, findProofDataPDA, CallInv, ClientTypes,
     ClientTypeOK, IInv, TypeOK
<1>2. /\ \A q \in Runs : q # r => run'[q] = run[q]
      /\ run[r].status \in {"Sending", "TimedOut"} /\ run'[r].status # "Done"
      /\ run'[r].slot = run[r].slot
      /\ run'[r].status \in {"Sending", "TimedOut"} => run'[r].step = 1
  BY LandingRun
<1>m. /\ \A x : MissedAt(missed, run, x) => MissedAt(missed', run', x)
      /\ MissedStarted'
  <2>1. \A q \in Runs : run[q].status # "Idle" =>
           run'[q].slot = run[q].slot /\ run'[q].status # "Idle"
    BY LandingRun
  <2> QED
    BY LandingRun, <2>1, MissesStay
<1>3. \A m \in Nonces : creator[m] # NoRun => m # n
  BY <1>1 DEF CallInv, CreatorHasAccount
<1>4. CreatorHasAccount'
  BY <1>1 DEF CallInv, CreatorHasAccount
<1>5. ChunksOfCreator'
  <2> SUFFICES ASSUME NEW q \in Runs, ~MissedAt(missed', run', NonceOf(run'[q].slot)),
                      run'[q].status \in {"Sending", "TimedOut"}, run'[q].step >= 1
               PROVE  /\ NonceOf(run'[q].slot) \in proofAccounts'
                      /\ creator'[NonceOf(run'[q].slot)] = q
                      /\ \A i \in 0..3 : i + 1 < run'[q].step
                            => proofData'[NonceOf(run'[q].slot)][i] = Chunk(q, i)'
    BY DEF ChunksOfCreator
  <2>1. CASE q = r
    <3>1. run'[q].step = 1 /\ NonceOf(run'[q].slot) = n
      BY <1>2, <2>1
    <3>2. \A i \in 0..3 : ~(i + 1 < 1)
      OBVIOUS
    <3> QED
      BY <1>1, <2>1, <3>1, <3>2
  <2>2. CASE q # r
    <3>1. run'[q] = run[q] /\ \A i : Chunk(q, i)' = Chunk(q, i)
      BY <1>2, <2>2 DEF Chunk
    <3>2. /\ NonceOf(run[q].slot) \in proofAccounts
          /\ creator[NonceOf(run[q].slot)] = q
          /\ \A i \in 0..3 : i + 1 < run[q].step
                => proofData[NonceOf(run[q].slot)][i] = Chunk(q, i)
      BY <1>1, <1>m, <3>1 DEF CallInv, ChunksOfCreator
    <3>3. NonceOf(run[q].slot) \in Nonces /\ NonceOf(run[q].slot) # n
      BY <1>1, <3>2 DEF CallInv, ClientTypes, IInv, TypeOK
    <3> QED
      BY <1>1, <3>1, <3>2, <3>3
  <2> QED
    BY <2>1, <2>2
<1>6. RecordsOfRuns'
  <2> SUFFICES ASSUME NEW q \in records', ~MissedAt(missed', run', NonceOf(q.id[1]))
               PROVE  /\ creator'[NonceOf(q.id[1])] # NoRun
                      /\ run'[creator'[NonceOf(q.id[1])]].status \in {"Done", "Failed"}
                      /\ run'[creator'[NonceOf(q.id[1])]].slot = q.id[1]
                      /\ run'[creator'[NonceOf(q.id[1])]].step = 5
    BY DEF RecordsOfRuns
  <2> DEFINE m == NonceOf(q.id[1])
             c == creator[m]
  <2>1. c # NoRun /\ run[c].status \in {"Done", "Failed"} /\ run[c].slot = q.id[1]
        /\ run[c].step = 5
    BY <1>1, <1>m DEF CallInv, RecordsOfRuns
  <2>2. m \in Nonces /\ c \in Runs /\ c # r
    BY <1>1, <1>2, <2>1, RecordNonce
  <2>3. creator'[m] = c
    BY <1>1, <1>3, <2>1, <2>2
  <2> QED
    BY <1>2, <2>1, <2>2, <2>3
<1>7. DoneRecorded'
  BY <1>1, <1>2 DEF CallInv, DoneRecorded
<1>8. BalancesOfOneRun'
  BY <1>1, <1>m DEF CallInv, BalancesOfOneRun
<1> QED
  BY <1>4, <1>5, <1>6, <1>7, <1>8, <1>m DEF CallInv

(* A chunk that lands is the creator's own.                                  *)
LEMMA WritingKeepsCalls ==
    ASSUME CallInv, ClientTypes', NEW r \in Runs, Confirmed(r) \/ LandsLate(r),
           run[r].step \in 1..4, UNCHANGED creator,
           WriteProofData(run[r].user, run[r].slot, run[r].step - 1, Chunk(r, run[r].step - 1))
    PROVE  CallInv'
<1> DEFINE n == NonceOf(run[r].slot)
           c == run[r].step - 1
<1>1. /\ n \in Nonces /\ c \in 0..3 /\ c \in 0..5 /\ run[r].step = c + 1
      /\ proofData' = [proofData EXCEPT ![n] = [@ EXCEPT ![c] = Chunk(r, c)]]
      /\ UNCHANGED <<ledger, records, slot, proofAccounts>> /\ missed' = missed
      /\ proofData \in [Nonces -> [0..5 -> Payloads]]
  BY LandingRun DEF WriteProofData, CallInv, ClientTypes, IInv, TypeOK
<1>2. /\ \A q \in Runs : q # r => run'[q] = run[q]
      /\ run[r].status \in {"Sending", "TimedOut"} /\ run'[r].status # "Done"
      /\ run'[r].slot = run[r].slot
      /\ run'[r].status \in {"Sending", "TimedOut"} =>
            run'[r].step = run[r].step + 1 /\ run'[r].hash = run[r].hash
  BY LandingRun
<1>m. /\ \A x : MissedAt(missed, run, x) => MissedAt(missed', run', x)
      /\ MissedStarted'
  <2>1. \A q \in Runs : run[q].status # "Idle" =>
           run'[q].slot = run[q].slot /\ run'[q].status # "Idle"
    BY LandingRun
  <2> QED
    BY LandingRun, <2>1, MissesStay
<1>3. /\ \A m \in Nonces : m # n => proofData'[m] = proofData[m]
      /\ \A i \in 0..5 : i # c => proofData'[n][i] = proofData[n][i]
      /\ proofData'[n][c] = Chunk(r, c)
  BY <1>1
<1> HIDE DEF c
<1>4. ~MissedAt(missed, run, n) => /\ n \in proofAccounts /\ creator[n] = r
                     /\ \A i \in 0..3 : i < c => proofData[n][i] = Chunk(r, i)
  <2>1. run[r].step >= 1 /\ \A i \in 0..3 : i < c => i + 1 < run[r].step
    BY <1>1
  <2> QED
    BY <1>2, <2>1 DEF CallInv, ChunksOfCreator
<1>5. ChunksOfCreator'
  <2> SUFFICES ASSUME NEW q \in Runs, ~MissedAt(missed', run', NonceOf(run'[q].slot)),
                      run'[q].status \in {"Sending", "TimedOut"}, run'[q].step >= 1
               PROVE  /\ NonceOf(run'[q].slot) \in proofAccounts'
                      /\ creator'[NonceOf(run'[q].slot)] = q
                      /\ \A i \in 0..3 : i + 1 < run'[q].step
                            => proofData'[NonceOf(run'[q].slot)][i] = Chunk(q, i)'
    BY DEF ChunksOfCreator
  <2>1. CASE q = r
    <3>1. run'[q].step = run[r].step + 1 /\ NonceOf(run'[q].slot) = n
          /\ \A i : Chunk(q, i)' = Chunk(r, i)
      BY <1>2, <2>1 DEF Chunk
    <3>0. ~MissedAt(missed, run, n)
      BY <1>m, <3>1
    <3>2. ASSUME NEW i \in 0..3, i + 1 < run'[q].step
          PROVE  proofData'[n][i] = Chunk(r, i)
      <4>1. i < c \/ i = c
        BY <1>1, <3>1, <3>2
      <4>2. i < c => i # c /\ i \in 0..5
        BY <1>1
      <4> QED
        BY <1>1, <1>3, <1>4, <3>0, <4>1, <4>2
    <3> QED
      BY <1>1, <1>4, <2>1, <3>0, <3>1, <3>2
  <2>2. CASE q # r
    <3>1. run'[q] = run[q] /\ \A i : Chunk(q, i)' = Chunk(q, i)
      BY <1>2, <2>2 DEF Chunk
    <3>2. /\ NonceOf(run[q].slot) \in proofAccounts
          /\ creator[NonceOf(run[q].slot)] = q
          /\ \A i \in 0..3 : i + 1 < run[q].step
                => proofData[NonceOf(run[q].slot)][i] = Chunk(q, i)
      BY <1>1, <1>m, <3>1 DEF CallInv, ChunksOfCreator
    <3>3. NonceOf(run[q].slot) \in Nonces /\ NonceOf(run[q].slot) # n
      <4>1. NonceOf(run[q].slot) = n => ~MissedAt(missed, run, n)
        BY <1>m, <3>1
      <4> QED
        BY <1>1, <1>4, <2>2, <3>2, <4>1 DEF CallInv, ClientTypes, IInv, TypeOK
    <3> QED
      BY <1>1, <1>3, <3>1, <3>2, <3>3
  <2> QED
    BY <2>1, <2>2
<1>6. RecordsOfRuns'
  <2> SUFFICES ASSUME NEW q \in records', ~MissedAt(missed', run', NonceOf(q.id[1]))
               PROVE  /\ creator'[NonceOf(q.id[1])] # NoRun
                      /\ run'[creator'[NonceOf(q.id[1])]].status \in {"Done", "Failed"}
                      /\ run'[creator'[NonceOf(q.id[1])]].slot = q.id[1]
                      /\ run'[creator'[NonceOf(q.id[1])]].step = 5
    BY DEF RecordsOfRuns
  <2> DEFINE k == creator[NonceOf(q.id[1])]
  <2>1. k # NoRun /\ run[k].status \in {"Done", "Failed"} /\ run[k].slot = q.id[1]
        /\ run[k].step = 5
    BY <1>1, <1>m DEF CallInv, RecordsOfRuns
  <2>2. k \in Runs /\ k # r
    BY <1>1, <1>2, <2>1, RecordNonce
  <2> QED
    BY <1>2, <2>1, <2>2
<1>7. DoneRecorded'
  BY <1>1, <1>2 DEF CallInv, DoneRecorded
<1>8. CreatorHasAccount'
  BY <1>1 DEF CallInv, CreatorHasAccount
<1>9. BalancesOfOneRun'
  BY <1>1, <1>m DEF CallInv, BalancesOfOneRun
<1> QED
  BY <1>5, <1>6, <1>7, <1>8, <1>9, <1>m DEF CallInv

(* A settlement takes both ciphertexts and both randomness values from the    *)
(* call that created the proof account, and is that call's last step.         *)
LEMMA SettlingKeepsCalls ==
    ASSUME CallInv, ClientTypes', NEW r \in Runs, Confirmed(r) \/ LandsLate(r),
           run[r].step = 5, UNCHANGED creator,
           ExecuteSettleB(run[r].slot, NonceOf(run[r].slot), run[r].settlementNonce, r, r)
    PROVE  CallInv'
<1> DEFINE sl == run[r].slot
           n == NonceOf(sl)
           a == LedgerA(sl)
           b == LedgerB(sl)
           id == <<sl, run[r].settlementNonce>>
           sa == Settled(ledger[a], proofData[n][1], r, proofData[n][4], id)
           new == [id |-> id, ledger_a |-> a, ledger_b |-> b,
                   commitment_hash |-> slot[sl].commitment_hash,
                   version_a |-> ledger[a].version + 1,
                   version_b |-> ledger[b].version + 1, settled_at |-> now]
<1>1. /\ n \in Nonces /\ sl \in Slots /\ missed' = missed
      /\ run[r].status \in {"Sending", "TimedOut"}
      /\ \A q \in Runs : q # r => run'[q] = run[q]
      /\ run'[r].slot = sl /\ run'[r].status \in {"Done", "Failed"}
      /\ run'[r].step = 5 /\ run'[r].settlement_id = id
  BY LandingRun
<1>m. /\ \A x : MissedAt(missed, run, x) => MissedAt(missed', run', x)
      /\ MissedStarted'
  <2>1. \A q \in Runs : run[q].status # "Idle" =>
           run'[q].slot = run[q].slot /\ run'[q].status # "Idle"
    BY LandingRun
  <2> QED
    BY LandingRun, <2>1, MissesStay
<1>2. /\ ledger' = [ledger EXCEPT
             ![a] = Settled(@, proofData[n][1], r, proofData[n][4], id),
             ![b] = Settled(@, proofData[n][3], r, proofData[n][5], id)]
      /\ records' = records \cup {new}
      /\ UNCHANGED <<proofAccounts, proofData>>
  BY DEF ExecuteSettleB
<1>3. ledger \in [Ledgers -> LedgerAccount]
  BY DEF CallInv, ClientTypes, IInv, TypeOK
<1>4. ~MissedAt(missed, run, n) => /\ n \in proofAccounts /\ creator[n] = r
                     /\ proofData[n][1] = r /\ proofData[n][3] = r
  <2>1. 1 \in 0..3 /\ 3 \in 0..3 /\ 1 + 1 < 5 /\ 3 + 1 < 5 /\ 5 >= 1
    OBVIOUS
  <2>2. Chunk(r, 1) = r /\ Chunk(r, 3) = r
    BY DEF Chunk
  <2> QED
    BY <1>1, <2>1, <2>2 DEF CallInv, ChunksOfCreator
<1>5. BalancesOfOneRun'
  <2> SUFFICES ASSUME NEW l \in Ledgers
               PROVE  \/ ledger'[l].balance_ct = ledger'[l].encryption_r
                      \/ \E s \in Slots, k \in SettlementNonces :
                            /\ ledger'[l].last_settlement_id = <<s, k>>
                            /\ MissedAt(missed', run', NonceOf(s))
    BY DEF BalancesOfOneRun
  <2>k. run[r].settlementNonce \in SettlementNonces
    BY <1>1, RunUnderWay DEF CallInv, ClientTypes, Executions
  <2>1. \A x, y, z, g : /\ Settled(x, y, z, g, id).balance_ct = y
                        /\ Settled(x, y, z, g, id).encryption_r = z
                        /\ Settled(x, y, z, g, id).last_settlement_id = id
    BY DEF Settled
  <2>2. ~MissedAt(missed, run, n) => proofData[n][1] = r /\ proofData[n][3] = r
    BY <1>4
  <2> HIDE DEF a, b, n
  <2>3. \/ ledger'[l] = ledger[l]
        \/ \E x, g : \/ ledger'[l] = Settled(x, proofData[n][1], r, g, id)
                     \/ ledger'[l] = Settled(x, proofData[n][3], r, g, id)
    <3> HIDE DEF id
    <3> QED
      BY <1>2, <1>3
  <2>4. CASE ledger'[l] = ledger[l]
    BY <1>m, <2>4 DEF CallInv, BalancesOfOneRun
  <2>5. CASE ledger'[l] # ledger[l]
    <3>1. /\ ledger'[l].balance_ct \in {proofData[n][1], proofData[n][3]}
          /\ ledger'[l].encryption_r = r /\ ledger'[l].last_settlement_id = id
      <4> HIDE DEF id
      <4> QED
        BY <2>1, <2>3, <2>5
    <3>2. CASE MissedAt(missed, run, n)
      <4>1. MissedAt(missed', run', NonceOf(sl))
        BY <1>m, <3>2 DEF n
      <4> QED
        BY <1>1, <2>k, <3>1, <4>1
    <3>3. CASE ~MissedAt(missed, run, n)
      BY <2>2, <3>1, <3>3
    <3> QED
      BY <3>2, <3>3
  <2> QED
    BY <2>4, <2>5
<1>6. ChunksOfCreator'
  <2> SUFFICES ASSUME NEW q \in Runs, ~MissedAt(missed', run', NonceOf(run'[q].slot)),
                      run'[q].status \in {"Sending", "TimedOut"}, run'[q].step >= 1
               PROVE  /\ NonceOf(run'[q].slot) \in proofAccounts'
                      /\ creator'[NonceOf(run'[q].slot)] = q
                      /\ \A i \in 0..3 : i + 1 < run'[q].step
                            => proofData'[NonceOf(run'[q].slot)][i] = Chunk(q, i)'
    BY DEF ChunksOfCreator
  <2>1. run'[q] = run[q] /\ \A i : Chunk(q, i)' = Chunk(q, i)
    <3>1. q # r
      BY <1>1
    <3> QED
      BY <1>1, <3>1 DEF Chunk
  <2> QED
    BY <1>1, <1>2, <1>m, <2>1 DEF CallInv, ChunksOfCreator
<1>7. RecordsOfRuns'
  <2> SUFFICES ASSUME NEW q \in records', ~MissedAt(missed', run', NonceOf(q.id[1]))
               PROVE  /\ creator'[NonceOf(q.id[1])] # NoRun
                      /\ run'[creator'[NonceOf(q.id[1])]].status \in {"Done", "Failed"}
                      /\ run'[creator'[NonceOf(q.id[1])]].slot = q.id[1]
                      /\ run'[creator'[NonceOf(q.id[1])]].step = 5
    BY DEF RecordsOfRuns
  <2>1. CASE q \in records
    <3> DEFINE k == creator[NonceOf(q.id[1])]
    <3>1. k # NoRun /\ run[k].status \in {"Done", "Failed"} /\ run[k].slot = q.id[1]
          /\ run[k].step = 5
      BY <1>1, <1>m, <2>1 DEF CallInv, RecordsOfRuns
    <3>2. k \in Runs /\ k # r
      BY <1>1, <2>1, <3>1, RecordNonce
    <3> QED
      BY <1>1, <3>1, <3>2
  <2>2. CASE q = new
    <3>1. q.id[1] = sl
      BY <2>2
    <3>2. creator'[NonceOf(q.id[1])] = r /\ r # NoRun
      <4>1. ~MissedAt(missed, run, n)
        BY <1>m, <3>1
      <4> QED
        BY <1>1, <1>4, <3>1, <4>1, RunAssumption
    <3> QED
      BY <1>1, <3>1, <3>2
  <2> QED
    BY <1>2, <2>1, <2>2
<1>8. DoneRecorded'
  <2> SUFFICES ASSUME NEW q \in Runs, run'[q].status = "Done"
               PROVE  (\E x \in records' : x.id = run'[q].settlement_id) \/ <<q, 5>> \in missed'
    BY DEF DoneRecorded
  <2>1. CASE q = r
    <3>1. new \in records' /\ new.id = id
      BY <1>2
    <3> QED
      BY <1>1, <2>1, <3>1
  <2>2. CASE q # r
    <3>1. (\E x \in records : x.id = run[q].settlement_id) \/ <<q, 5>> \in missed
      BY <1>1, <2>2 DEF CallInv, DoneRecorded
    <3> QED
      BY <1>1, <1>2, <2>2, <3>1
  <2> QED
    BY <2>1, <2>2
<1>9. CreatorHasAccount'
  BY <1>2 DEF CallInv, CreatorHasAccount
<1> QED
  BY <1>5, <1>6, <1>7, <1>8, <1>9, <1>m DEF CallInv

LEMMA ExecuteKeepsCalls ==
    ASSUME CallInv, ClientTypes', NEW r \in Runs, ExecuteNext(r)
    PROVE  CallInv'
<1>1. CASE Confirmed(r) \/ LandsLate(r)
  <2>1. CASE run[r].step = 0 /\ CreateStep(r)
    BY <1>1, <2>1, CreationKeepsCalls
  <2>2. CASE /\ run[r].step \in 1..4 /\ UNCHANGED creator
             /\ WriteProofData(run[r].user, run[r].slot, run[r].step - 1,
                               Chunk(r, run[r].step - 1))
    BY <1>1, <2>2, WritingKeepsCalls
  <2>3. CASE /\ run[r].step = 5 /\ UNCHANGED creator
             /\ ExecuteSettleB(run[r].slot, NonceOf(run[r].slot),
                               run[r].settlementNonce, r, r)
    BY <1>1, <2>3, SettlingKeepsCalls
  <2> QED
    BY <1>1, <2>1, <2>2, <2>3 DEF Confirmed, LandsLate, StepLands, findProofDataPDA
<1>2. CASE TimesOut(r) \/ Fails(r) \/ FailsInGap(r)
  BY <1>2, GivingUpKeepsCalls
<1> QED
  BY <1>1, <1>2 DEF ExecuteNext

LEMMA CallsKept == CallInv /\ [ClientNext]_allVars => CallInv'
<1> SUFFICES ASSUME CallInv, [ClientNext]_allVars
             PROVE  CallInv'
  OBVIOUS
<1>1. ClientTypes'
  BY StepTypes DEF CallInv
<1>2. ASSUME NEW r \in Runs, ExecuteNext(r)
      PROVE  CallInv'
  BY <1>1, <1>2, ExecuteKeepsCalls
<1>3. ASSUME NEW r \in Runs, NEW u \in Users, NEW s \in Slots, ExecuteStart(r, u, s)
      PROVE  CallInv'
  BY <1>1, <1>3, StartKeepsCalls
<1> QED
  BY <1>1, <1>2, <1>3, OthersAreCalm

LEMMA CallsInit == ClientInit => CallInv
<1> SUFFICES ASSUME ClientInit
             PROVE  CallInv
  OBVIOUS
<1>1. ClientTypes
  BY InitClients
<1>2. /\ \A r \in Runs : run[r].status = "Idle"
      /\ \A n \in Nonces : creator[n] = NoRun
      /\ records = {}
  BY DEF ClientInit, Idle, Init
<1>3. \A l \in Ledgers : ledger[l].balance_ct = ledger[l].encryption_r
  BY DEF ClientInit, Init, EmptyLedger
<1>4. missed = {}
  BY DEF ClientInit
<1> QED
  BY <1>1, <1>2, <1>3, <1>4 DEF CallInv, CreatorHasAccount, MissedStarted, ChunksOfCreator,
     RecordsOfRuns, DoneRecorded, BalancesOfOneRun

(* Both sides of every settlement hold the ciphertext and the randomness of   *)
(* one call of executeSettle, whatever calls, retries and late landings there *)
(* are on the same nonce, unless a refusal on that nonce was taken for a      *)
(* success.                                                                  *)
THEOREM OneCallSettles == ClientSpec => []SettledByOneRun
<1>1. CallInv => SettledByOneRun
  BY DEF CallInv, BalancesOfOneRun, MissedAt, SettledByOneRun, MissedOn
<1> QED
  BY <1>1, CallsInit, CallsKept, PTL DEF ClientSpec

(* The call that created a proof account is the one that settled, unless a    *)
(* refusal on its nonce was taken for a success; what a call that succeeded   *)
(* returns is on chain, unless its own execute_settle_b was refused so.       *)
THEOREM NoCallResumesAnother == ClientSpec => []NoSecondAttempt
<1>1. CallInv => NoSecondAttempt
  BY DEF CallInv, RecordsOfRuns, DoneRecorded, MissedAt, NoSecondAttempt, MissedOn
<1> QED
  BY <1>1, CallsInit, CallsKept, PTL DEF ClientSpec

-----------------------------------------------------------------------------
(* Accepts *)

(* The nonce of initiateCommit grows from a user's call to the next: an        *)
(* address once used, or given up, is past.                                  *)
Awaited(s) == \E t \in sent : t.kind = "initiate" /\ <<t.ledger, t.nonce>> = s
Past(s) == NonceOf(s) <= lastNonce[Initiator(s)] /\ ~Awaited(s)

(* A user has one initiate on its way at most, and it is the user's latest.   *)
OneInitiate ==
    \A t, q \in sent :
        t.kind = "initiate" /\ q.kind = "initiate" /\ t.ledger[1] = q.ledger[1] => t = q
LatestInitiate ==
    \A t \in sent : t.kind = "initiate" => t.nonce = lastNonce[t.ledger[1]]

SlotsArePast == \A s \in Slots : Exists(s) => Past(s)

(* The slot of an accept that is on its way cannot be opened again.           *)
AcceptsArePast ==
    \A t \in sent :
        t.kind = "accept" =>
            /\ Past(t.slot)
            /\ Exists(t.slot) => slot[t.slot].commitment_hash = t.hash

AcceptInv ==
    ClientTypes /\ OneInitiate /\ LatestInitiate /\ SlotsArePast /\ AcceptsArePast

(* A step after which nothing is on its way, and no slot is there, that was   *)
(* not before.                                                               *)
LEMMA NothingNew ==
    ASSUME AcceptInv, ClientTypes', sent' \subseteq sent, UNCHANGED lastNonce,
           \A s \in Slots : Exists(s)' =>
              Exists(s) /\ slot'[s].commitment_hash = slot[s].commitment_hash
    PROVE  AcceptInv'
<1>1. \A s : Past(s) => Past(s)'
  BY DEF Past, Awaited
<1>2. \A t \in sent : t.kind = "accept" => t.slot \in Slots
  BY DEF AcceptInv, ClientTypes, ClientTypeOK, Accepts, Initiates
<1>3. OneInitiate' /\ LatestInitiate'
  BY DEF AcceptInv, OneInitiate, LatestInitiate
<1>4. SlotsArePast'
  BY <1>1 DEF AcceptInv, SlotsArePast
<1>5. AcceptsArePast'
  BY <1>1, <1>2 DEF AcceptInv, AcceptsArePast
<1> QED
  BY <1>3, <1>4, <1>5 DEF AcceptInv

(* Only initiate_commit opens a slot, and no instruction changes its hash.    *)
LEMMA SlotsKept ==
    ASSUME TypeOK, NEW s \in Slots,
           \/ \E u, t : AcceptCommit(u, t)
           \/ \E t : CancelInitiate(t) \/ CancelMutual(t)
           \/ \E t, n, k, x, y : ExecuteSettleB(t, n, k, x, y)
           \/ UNCHANGED slot
    PROVE  Exists(s)' => Exists(s) /\ slot'[s].commitment_hash = slot[s].commitment_hash
<1>1. slot \in [Slots -> SlotAccount]
  BY DEF TypeOK
<1>2. ASSUME NEW u, NEW t, AcceptCommit(u, t)
      PROVE  Exists(s)' => Exists(s) /\ slot'[s].commitment_hash = slot[s].commitment_hash
  BY <1>1, <1>2 DEF AcceptCommit, CanAccept, Exists, SlotAccount
<1>3. ASSUME NEW t, slot' = [slot EXCEPT ![t] = NoSlot]
      PROVE  Exists(s)' => Exists(s) /\ slot'[s].commitment_hash = slot[s].commitment_hash
  BY <1>1, <1>3 DEF Exists, NoSlot
<1>4. /\ \A t : CancelInitiate(t) \/ CancelMutual(t) => slot' = [slot EXCEPT ![t] = NoSlot]
      /\ \A t, n, k, x, y : ExecuteSettleB(t, n, k, x, y) => slot' = [slot EXCEPT ![t] = NoSlot]
  BY DEF CancelInitiate, CancelMutual, ExecuteSettleB
<1>5. UNCHANGED slot
        => (Exists(s)' => Exists(s) /\ slot'[s].commitment_hash = slot[s].commitment_hash)
  BY DEF Exists
<1> QED
  BY <1>2, <1>3, <1>4, <1>5

LEMMA OtherStepsAddNothing ==
    ASSUME AcceptInv, ClientTypes', [ClientNext]_allVars,
           ~(\E t \in sent : Land(t)),
           ~(\E u \in Initiators : \E v \in Users \ {u}, m, k \in Mints, h \in Hashes,
                w \in Seconds : InitiateClient(u, v, m, k, h, w)),
           ~(\E u \in Users, s \in Slots, h \in Hashes : AcceptClient(u, s, h))
    PROVE  AcceptInv'
<1> DEFINE Closing ==
              \/ \E u, t : AcceptCommit(u, t)
              \/ \E t : CancelInitiate(t) \/ CancelMutual(t)
              \/ \E t, n, k, x, y : ExecuteSettleB(t, n, k, x, y)
              \/ UNCHANGED slot
<1>1. ASSUME Closing, sent' \subseteq sent, UNCHANGED lastNonce
      PROVE  AcceptInv'
  <2>1. TypeOK
    BY DEF AcceptInv, ClientTypes, IInv
  <2>2. \A s \in Slots : Exists(s)' =>
           Exists(s) /\ slot'[s].commitment_hash = slot[s].commitment_hash
    BY <1>1, <2>1, SlotsKept
  <2> QED
    BY <1>1, <2>2, NothingNew
<1>2. CASE DaemonNext
  <2>1. UNCHANGED <<sent, lastNonce>>
    BY <1>2 DEF DaemonNext, DaemonPolls, DaemonChecksExpiry, DaemonCancels,
       DaemonReadsNonce, DaemonReadsSlot, DaemonCreatesLedger, DaemonAccepts, DaemonExits
  <2>2. Closing
    BY <1>2 DEF DaemonNext, DaemonPolls, DaemonChecksExpiry, DaemonCancels, vars,
       DaemonReadsNonce, DaemonReadsSlot, DaemonCreatesLedger, DaemonAccepts, DaemonExits,
       CreateUserLedger
  <2> QED
    BY <1>1, <2>1, <2>2
<1>3. ASSUME NEW r, ExecuteNext(r)
      PROVE  AcceptInv'
  <2>1. UNCHANGED <<sent, lastNonce>>
    BY <1>3 DEF ExecuteNext, Confirmed, TimesOut, LandsLate, Fails, FailsInGap
  <2>2. UNCHANGED vars => UNCHANGED slot
    BY DEF vars
  <2>3. StepLands(r) => Closing
    BY DEF StepLands, CreateStep, CreateProofData, WriteProofData
  <2>4. Closing
    BY <1>3, <2>2, <2>3 DEF ExecuteNext, Confirmed, TimesOut, LandsLate, Fails, FailsInGap
  <2> QED
    BY <1>1, <2>1, <2>4
<1>4. ASSUME NEW r, NEW u, NEW s, ExecuteStart(r, u, s)
      PROVE  AcceptInv'
  BY <1>1, <1>4 DEF ExecuteStart, vars
<1>5. ASSUME NEW s, CancelInitiateClient(s) \/ CancelMutualClient(s) \/ AcceptScript(s)
      PROVE  AcceptInv'
  BY <1>1, <1>5 DEF CancelInitiateClient, CancelMutualClient, AcceptScript, clients
<1>6. ASSUME NEW a, CreateLedgerScript(a)
      PROVE  AcceptInv'
  BY <1>1, <1>6 DEF CreateLedgerScript, CreateUserLedger, clients
<1>7. ASSUME InitializePool \/ Tick, UNCHANGED clients
      PROVE  AcceptInv'
  BY <1>1, <1>7 DEF InitializePool, Tick, clients
<1>8. ASSUME NEW t, Drop(t)
      PROVE  AcceptInv'
  BY <1>1, <1>8 DEF Drop, vars
<1>9. ASSUME UNCHANGED allVars
      PROVE  AcceptInv'
  BY <1>1, <1>9 DEF allVars, vars, clients
<1> HIDE DEF Closing
<1> QED
  BY <1>2, <1>3, <1>4, <1>5, <1>6, <1>7, <1>8, <1>9, Zenon DEF ClientNext

(* A new initiate has a nonce its user has not used: its slot is not there,    *)
(* and no accept is on its way to it.                                        *)
LEMMA InitiateKeepsAccepts ==
    ASSUME AcceptInv, ClientTypes', NEW u \in Users, NEW v \in Users, NEW m \in Mints,
           NEW k \in Mints, NEW h \in Hashes, NEW w \in Nat,
           InitiateClient(u, v, m, k, h, w)
    PROVE  AcceptInv'
<1>1. PICK nonce \in DateNow(u) :
         /\ lastNonce' = [lastNonce EXCEPT ![u] = nonce]
         /\ sent' = sent \cup
                 {[kind |-> "initiate", ledger |-> findLedgerPDA(u, m),
                   nonce |-> nonce, counterparty |-> v, mint |-> k,
                   hash |-> h, expiry |-> now + w + OFFSET]}
  BY DEF InitiateClient
<1> DEFINE new == [kind |-> "initiate", ledger |-> findLedgerPDA(u, m),
                   nonce |-> nonce, counterparty |-> v, mint |-> k,
                   hash |-> h, expiry |-> now + w + OFFSET]
<1>2. /\ new.kind = "initiate" /\ new.ledger = <<u, m>> /\ new.ledger[1] = u
      /\ new.nonce = nonce /\ sent' = sent \cup {new}
  BY <1>1 DEF findLedgerPDA
<1> HIDE DEF new
<1>3. /\ lastNonce \in [Users -> Nonces \cup {0}] /\ nonce \in Nonces
      /\ lastNonce[u] < nonce /\ lastNonce[u] \in Nat /\ nonce \in Nat
      /\ lastNonce'[u] = nonce
      /\ \A x \in Users : x # u => lastNonce'[x] = lastNonce[x]
  <2>1. lastNonce \in [Users -> Nonces \cup {0}]
    BY DEF AcceptInv, ClientTypes, ClientTypeOK
  <2>2. nonce \in Nonces /\ nonce > lastNonce[u]
    BY DEF DateNow
  <2>3. nonce \in Nat /\ lastNonce[u] \in Nat
    <3>1. Nonces \cup {0} \subseteq Nat
      BY NonceAssumption
    <3>2. lastNonce[u] \in Nonces \cup {0}
      BY <2>1
    <3> QED
      BY <2>2, <3>1, <3>2
  <2> QED
    BY <1>1, <2>1, <2>2, <2>3
<1>4. \A t \in sent : t.kind = "initiate" => t.ledger[1] # u /\ t.ledger[1] \in Users
  BY Addresses DEF InitiateClient, AcceptInv, ClientTypes, ClientTypeOK, Initiates, Accepts
<1>5. UNCHANGED slot
  BY DEF InitiateClient, vars
<1>6. ASSUME NEW s \in Slots, Past(s)
      PROVE  Past(s)'
  <2>1. Initiator(s) \in Users /\ NonceOf(s) \in Nonces /\ NonceOf(s) \in Nat
    BY Addresses, NonceAssumption
  <2>2. NonceOf(s) <= lastNonce'[Initiator(s)]
    <3>1. NonceOf(s) <= lastNonce[Initiator(s)]
      BY <1>6 DEF Past
    <3>2. CASE Initiator(s) = u
      BY <1>3, <2>1, <3>1, <3>2
    <3>3. CASE Initiator(s) # u
      BY <1>3, <2>1, <3>1, <3>3
    <3> QED
      BY <3>2, <3>3
  <2>3. <<new.ledger, new.nonce>> # s
    <3> SUFFICES ASSUME s = <<new.ledger, new.nonce>>
                 PROVE  FALSE
      OBVIOUS
    <3>1. NonceOf(s) = nonce /\ Initiator(s) = u
      BY <1>2 DEF NonceOf, Initiator
    <3> QED
      BY <1>3, <1>6, <3>1 DEF Past
  <2> QED
    BY <1>2, <1>6, <2>2, <2>3 DEF Past, Awaited
<1>7. OneInitiate'
  BY <1>2, <1>4 DEF AcceptInv, OneInitiate
<1>8. LatestInitiate'
  BY <1>2, <1>3, <1>4 DEF AcceptInv, LatestInitiate
<1>9. SlotsArePast'
  BY <1>5, <1>6 DEF AcceptInv, SlotsArePast, Exists
<1>10. AcceptsArePast'
  <2>1. \A t \in sent : t.kind = "accept" => t.slot \in Slots
    BY DEF AcceptInv, ClientTypes, ClientTypeOK, Accepts, Initiates
  <2> QED
    BY <1>2, <1>5, <1>6, <2>1 DEF AcceptInv, AcceptsArePast, Exists
<1> QED
  BY <1>7, <1>8, <1>9, <1>10 DEF AcceptInv

(* An accept is sent for a slot that is there, with the hash it has.          *)
LEMMA AcceptKeepsAccepts ==
    ASSUME AcceptInv, ClientTypes', NEW u \in Users, NEW s \in Slots, NEW h \in Hashes,
           AcceptClient(u, s, h)
    PROVE  AcceptInv'
<1> DEFINE new == [kind |-> "accept", user |-> u, slot |-> s, hash |-> h]
<1>1. /\ sent' = sent \cup {new} /\ UNCHANGED lastNonce /\ UNCHANGED slot
      /\ Exists(s) /\ slot[s].commitment_hash = h
  BY DEF AcceptClient, vars
<1>2. new.kind = "accept" /\ new.kind # "initiate" /\ new.slot = s /\ new.hash = h
  OBVIOUS
<1> HIDE DEF new
<1>3. \A x : Past(x) => Past(x)'
  BY <1>1, <1>2 DEF Past, Awaited
<1>4. OneInitiate' /\ LatestInitiate'
  BY <1>1, <1>2 DEF AcceptInv, OneInitiate, LatestInitiate
<1>5. SlotsArePast'
  BY <1>1, <1>3 DEF AcceptInv, SlotsArePast, Exists
<1>6. AcceptsArePast'
  BY <1>1, <1>2, <1>3 DEF AcceptInv, AcceptsArePast, SlotsArePast, Exists
<1> QED
  BY <1>4, <1>5, <1>6 DEF AcceptInv

(* The slot an initiate opens is past from then on, for it was the only one.  *)
LEMMA LandingKeepsAccepts ==
    ASSUME AcceptInv, ClientTypes', NEW t \in sent, Land(t)
    PROVE  AcceptInv'
<1>1. /\ Submit(t) /\ sent' = sent \ {t} /\ UNCHANGED lastNonce
      /\ t \in Initiates \cup Accepts
  BY DEF Land, AcceptInv, ClientTypes, ClientTypeOK
<1>2. CASE t \in Accepts
  <2>1. TypeOK /\ \E u, s : AcceptCommit(u, s)
    BY <1>1, <1>2 DEF Submit, Accepts, AcceptInv, ClientTypes, IInv
  <2> QED
    BY <1>1, <2>1, NothingNew, SlotsKept
<1>3. CASE t \in Initiates
  <2> DEFINE s == <<t.ledger, t.nonce>>
  <2>1. /\ t.kind = "initiate" /\ t.ledger \in Ledgers /\ t.nonce \in Nonces
        /\ InitiateCommit(t.ledger, t.nonce, t.counterparty, t.mint, t.hash, t.expiry)
    BY <1>1, <1>3 DEF Submit, Initiates
  <2>2. s \in Slots /\ NonceOf(s) = t.nonce /\ Initiator(s) = t.ledger[1]
    BY <2>1, Addresses DEF Initiator
  <2>3. \A x \in Slots : x # s => slot'[x] = slot[x]
    BY <2>1, <2>2 DEF InitiateCommit, AcceptInv, ClientTypes, IInv, TypeOK
  <2>4. Awaited(s)
    BY <2>1 DEF Awaited
  <2> HIDE DEF s
  <2>5. \A x : Past(x) => Past(x)' /\ x # s
    BY <1>1, <2>4 DEF Past, Awaited
  <2>6. Past(s)'
    <3>1. t.nonce = lastNonce[t.ledger[1]] /\ t.nonce \in Nat
      BY <2>1, NonceAssumption DEF AcceptInv, LatestInitiate
    <3>2. \A q \in sent : q.kind = "initiate" /\ q # t => <<q.ledger, q.nonce>> # s
      <4> SUFFICES ASSUME NEW q \in sent, q.kind = "initiate", q # t,
                          <<q.ledger, q.nonce>> = s
                   PROVE  FALSE
        OBVIOUS
      <4>1. q.ledger = t.ledger
        BY DEF s
      <4> QED
        BY <2>1, <4>1 DEF AcceptInv, OneInitiate
    <3> QED
      BY <1>1, <2>2, <3>1, <3>2 DEF Past, Awaited
  <2>7. OneInitiate' /\ LatestInitiate'
    BY <1>1 DEF AcceptInv, OneInitiate, LatestInitiate
  <2>8. SlotsArePast'
    BY <2>3, <2>5, <2>6 DEF AcceptInv, SlotsArePast, Exists
  <2>9. AcceptsArePast'
    <3>1. \A q \in sent : q.kind = "accept" => q.slot \in Slots
      BY DEF AcceptInv, ClientTypes, ClientTypeOK, Accepts, Initiates
    <3> QED
      BY <1>1, <2>3, <2>5, <3>1 DEF AcceptInv, AcceptsArePast, Exists
  <2> QED
    BY <2>7, <2>8, <2>9 DEF AcceptInv
<1> QED
  BY <1>1, <1>2, <1>3

(* What acceptCommit verified is what its transaction locks, for every number *)
(* of users, deals and transactions on their way.                            *)
THEOREM AcceptsLockWhatWasVerified == ClientSpec => []AcceptsWhatWasVerified
<1>1. ClientInit => AcceptInv
  <2> SUFFICES ASSUME ClientInit PROVE AcceptInv
    OBVIOUS
  <2>1. sent = {} /\ \A s \in Slots : slot[s].status = "Absent"
    BY DEF ClientInit, Init, NoSlot
  <2> QED
    BY <2>1, InitClients DEF AcceptInv, OneInitiate, LatestInitiate, SlotsArePast,
       AcceptsArePast, Exists
<1>2. AcceptInv /\ [ClientNext]_allVars => AcceptInv'
  <2> SUFFICES ASSUME AcceptInv, [ClientNext]_allVars PROVE AcceptInv'
    OBVIOUS
  <2>1. ClientTypes'
    BY StepTypes DEF AcceptInv
  <2>2. ASSUME NEW u \in Initiators, NEW v \in Users \ {u}, NEW m \in Mints,
               NEW k \in Mints, NEW h \in Hashes, NEW w \in Seconds,
               InitiateClient(u, v, m, k, h, w)
        PROVE  AcceptInv'
    <3>1. u \in Users /\ v \in Users /\ w \in Nat
      BY ScriptAssumption
    <3> QED
      BY <2>1, <2>2, <3>1, InitiateKeepsAccepts
  <2>3. ASSUME NEW u \in Users, NEW s \in Slots, NEW h \in Hashes, AcceptClient(u, s, h)
        PROVE  AcceptInv'
    BY <2>1, <2>3, AcceptKeepsAccepts
  <2>4. ASSUME NEW t \in sent, Land(t)
        PROVE  AcceptInv'
    BY <2>1, <2>4, LandingKeepsAccepts
  <2> QED
    BY <2>1, <2>2, <2>3, <2>4, OtherStepsAddNothing
<1>3. AcceptInv => AcceptsWhatWasVerified
  BY DEF AcceptInv, ClientTypes, ClientTypeOK, AcceptsArePast, AcceptsWhatWasVerified,
     CanAccept, Exists
<1> QED
  BY <1>1, <1>2, <1>3, PTL DEF ClientSpec
=============================================================================
