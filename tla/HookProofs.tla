------------------------------ MODULE HookProofs ------------------------------
(***************************************************************************)
(* Theorems about SettleHook: what a trader's tab does to the accounts are   *)
(* instructions of the program; what it reports is so, but for one cause;    *)
(* and the stored randomness is that of the stored ciphertext wherever the   *)
(* deal settled was not taken up by two executions.                          *)
(***************************************************************************)
EXTENDS SettleHook, SettlementProofs

RunSteps == {"create", "chunk0", "chunk1", "chunk2", "chunk3", "execute"}
Steps == {"idle", "hashing", "creating", "ready", "submitted", "proving",
          "noSlot", "done", "abort", "unlock"} \cup RunSteps

(* The transactions of the asynchronous functions.  Those of a run are about  *)
(* the deal it captured.                                                     *)
LedgerTx(tx) == tx.op = "createLedger"
InitiateTx(tx) == tx.op = "initiate" /\ tx.slot \in MySlots /\ tx.arg \in Int
RunTx(tx) ==
    /\ tx.op \in RunSteps /\ tx.arg \in Runs
    /\ tx.slot \in MySlots /\ tx.slot = captured[tx.arg]
CancelTx(tx) == tx.op \in {"cancelInitiate", "cancelMutual"} /\ tx.slot \in MySlots
IsTx(tx) == LedgerTx(tx) \/ InitiateTx(tx) \/ RunTx(tx) \/ CancelTx(tx)

(* Every function awaits the transaction of the step it is at.               *)
Resting(t) == awaited[t] = NoTx /\ landed[t] = "no"

InitiateOK ==
    /\ at["initiate"] \in {"idle", "hashing", "creating", "ready", "submitted"}
    /\ at["initiate"] = "creating" => LedgerTx(awaited["initiate"])
    /\ at["initiate"] = "submitted" => InitiateTx(awaited["initiate"])
    /\ at["initiate"] \in {"idle", "hashing", "ready"} => Resting("initiate")

RunOK(r) ==
    /\ at[r] \in {"idle", "proving", "noSlot", "done"} \cup RunSteps
    /\ at[r] = "idle" => captured[r] = NoDeal
    /\ at[r] = "proving" => captured[r] \in MySlots
    /\ at[r] \in RunSteps =>
          RunTx(awaited[r]) /\ awaited[r].op = at[r] /\ awaited[r].arg = r
    /\ at[r] \notin RunSteps => Resting(r)

CancelOK ==
    /\ at["cancel"] \in {"idle", "abort", "unlock"}
    /\ at["cancel"] # "idle" => CancelTx(awaited["cancel"])
    /\ at["cancel"] = "idle" => Resting("cancel")

TaskTypes ==
    /\ at \in [Tasks -> Steps] /\ landed \in [Tasks -> {"no", "ok", "err"}]
    /\ awaited = [t \in Tasks |-> awaited[t]]
    /\ captured \in [Runs -> MySlots \cup {NoDeal}]

TasksOK ==
    /\ TaskTypes
    /\ InitiateOK /\ CancelOK
    /\ \A r \in Runs : RunOK(r)
    /\ \A tx \in late : IsTx(tx)

(* The names of the functions are different, and the trader's addresses are   *)
(* the program's.                                                            *)
LEMMA Names ==
    /\ "initiate" \in Tasks /\ "cancel" \in Tasks
    /\ \A r \in Runs : r \in Tasks /\ r # "initiate" /\ r # "cancel"
    /\ \A t \in Tasks : t \in Runs \/ t = "initiate" \/ t = "cancel"
    /\ MyLedger \in Ledgers
    /\ \A s \in MySlots : s \in Slots /\ NonceOf(s) \in Nonces /\ s = <<MyLedger, NonceOf(s)>>
    /\ \A n \in Nonces : <<MyLedger, n>> \in MySlots
    /\ NoDeal \notin MySlots
    /\ \A s \in MySlots : s # NoDeal
<1>1. MyLedger \in Ledgers
  BY HookAssumption, Addresses DEF MyLedger
<1>2. \A s \in MySlots : s \in Slots /\ NonceOf(s) \in Nonces /\ s = <<MyLedger, NonceOf(s)>>
  BY <1>1, Addresses DEF MySlots
<1> QED
  BY <1>1, <1>2, HookAssumption DEF Tasks, Runs, MySlots

-----------------------------------------------------------------------------
(* The tab's transactions are instructions of the program *)

(* Whatever the tab has handed to the network, when it lands, is an           *)
(* instruction with the arguments the program's clients use.                 *)
LEMMA PerformIsProgramStep ==
    ASSUME TypeOK, NEW tx, IsTx(tx), Perform(tx)
    PROVE  Next
<1> DEFINE s == tx.slot
           n == NonceOf(s)
<1>1. CASE tx.op = "createLedger"
  BY <1>1, Names DEF Perform, Next
<1>2. CASE tx.op = "initiate"
  <2>1. n \in Nonces /\ tx.arg \in Int
    BY <1>2, Names DEF IsTx, LedgerTx, InitiateTx, RunTx, CancelTx, RunSteps
  <2>2. InitiateCommit(MyLedger, n, Peer, Mint, TheHash, tx.arg)
    BY <1>2 DEF Perform
  <2>3. tx.arg - now \in 0..(MAX_INIT_WINDOW + 1)
    <3>1. now \in Nat /\ MIN_INIT_WINDOW \in Nat /\ MAX_INIT_WINDOW \in Nat
      BY WindowAssumption DEF TypeOK
    <3>2. tx.arg - now >= MIN_INIT_WINDOW /\ tx.arg - now <= MAX_INIT_WINDOW
      BY <2>2 DEF InitiateCommit
    <3> QED
      BY <2>1, <3>1, <3>2
  <2>4. tx.arg = now + (tx.arg - now)
    BY <2>1 DEF TypeOK
  <2>5. Peer \in Users /\ Mint \in Mints /\ TheHash \in Hashes \cup {Zero}
    BY HookAssumption DEF TheHash
  <2>6. InitiateCommit(MyLedger, n, Peer, Mint, TheHash, now + (tx.arg - now))
    BY <2>2, <2>4
  <2>7. Initiate(MyLedger)
    BY <2>1, <2>3, <2>5, <2>6 DEF Initiate
  <2> QED
    BY <2>7, Names DEF Next
<1>3. ASSUME tx.op \in RunSteps
      PROVE  /\ s \in Slots /\ n \in Nonces
             /\ tx.arg \in Encryptions /\ tx.arg \in SettlementNonces
             /\ Me \in Users /\ TheHash \in Hashes
  BY <1>3, Names, HookAssumption
     DEF IsTx, LedgerTx, InitiateTx, RunTx, CancelTx, RunSteps, TheHash, Runs
<1>4. CASE tx.op = "create"
  <2>1. CreateProofData(n)
    BY <1>4 DEF Perform
  <2> QED
    BY <1>3, <1>4, <2>1, HookAssumption DEF RunSteps, Next
<1>5. CASE tx.op \in {"chunk0", "chunk2"}
  <2>1. PICK c \in {0, 2} : WriteProofData(Me, s, c, TheHash)
    BY <1>5 DEF Perform
  <2>2. c \in Chunks
    BY HookAssumption
  <2>3. WriteChunk(s)
    BY <1>3, <1>5, <2>1, <2>2 DEF WriteChunk, RunSteps
  <2> QED
    BY <1>3, <1>5, <2>3 DEF Next, RunSteps
<1>6. CASE tx.op \in {"chunk1", "chunk3"}
  <2>1. PICK c \in {1, 3} : WriteProofData(Me, s, c, tx.arg)
    BY <1>6 DEF Perform
  <2>2. c \in Chunks /\ c \notin {0, 2}
    BY HookAssumption
  <2>3. WriteChunk(s)
    BY <1>3, <1>6, <2>1, <2>2 DEF WriteChunk, RunSteps
  <2> QED
    BY <1>3, <1>6, <2>3 DEF Next, RunSteps
<1>7. CASE tx.op = "execute"
  <2>1. ExecuteSettleB(s, n, tx.arg, tx.arg, tx.arg)
    BY <1>7 DEF Perform
  <2>2. Execute(s)
    BY <1>3, <1>7, <2>1 DEF Execute, RunSteps
  <2> QED
    BY <1>3, <1>7, <2>2 DEF Next, RunSteps
<1>8. CASE tx.op \in {"cancelInitiate", "cancelMutual"}
  <2>1. CancelInitiate(s) \/ CancelMutual(s)
    BY <1>8 DEF Perform
  <2>2. s \in Slots
    BY <1>8, Names DEF IsTx, LedgerTx, InitiateTx, RunTx, CancelTx, RunSteps
  <2> QED
    BY <2>1, <2>2 DEF Next
<1> QED
  BY <1>1, <1>2, <1>4, <1>5, <1>6, <1>7, <1>8
     DEF IsTx, LedgerTx, InitiateTx, RunTx, CancelTx, RunSteps

(* A function that awaits something awaits a transaction.                    *)
LEMMA Awaited ==
    ASSUME TasksOK, NEW t \in Tasks, awaited[t] # NoTx
    PROVE  IsTx(awaited[t])
BY Names DEF TasksOK, InitiateOK, RunOK, CancelOK, Resting, IsTx

(* The accounts change only when a transaction lands, the clock ticks or the  *)
(* counterparty accepts.                                                     *)
LEMMA OthersLeaveAccounts ==
    ASSUME [HookNext]_allVars
    PROVE  \/ Chain \/ \E t \in Tasks : Land(t)
           \/ \E tx \in late : LandLate(tx)
           \/ UNCHANGED vars
<1>1. CASE \/ ClickInitiate \/ CreateLedger \/ LedgerCreated
           \/ SubmitInitiate \/ InitiateConfirmed \/ InitiateFails
           \/ CountdownEnds
           \/ \E s \in MySlots : Poll(s) \/ PollAnswered(s) \/ PollingEnds(s)
  BY <1>1 DEF ClickInitiate, CreateLedger, LedgerCreated, SubmitInitiate,
              InitiateConfirmed, InitiateFails, CountdownEnds, Poll, PollAnswered,
              PollingEnds
<1>2. CASE \/ \E r \in Runs : ClickExecute(r) \/ AutoExecute(r)
           \/ \E r \in Runs : Proved(r) \/ RunConfirmed(r) \/ RunFails(r)
  BY <1>2 DEF ClickExecute, AutoExecute, StartRun, Proved, RunConfirmed, RunFails
<1>3. CASE \/ ClickAbort \/ ClickUnlock \/ CancelConfirmed \/ CancelFails
           \/ PageLost
           \/ UNCHANGED allVars
  BY <1>3 DEF ClickAbort, ClickUnlock, CancelConfirmed, CancelFails, PageLost, allVars
<1> QED
  BY <1>1, <1>2, <1>3 DEF HookNext

(* Every step of the tab is a step of the program or leaves it alone.         *)
LEMMA HookIsProgramStep ==
    ASSUME TypeOK, TasksOK, [HookNext]_allVars
    PROVE  [Next]_vars
<1>1. CASE Chain
  BY <1>1, Names, HookAssumption DEF Chain, Next
<1>2. ASSUME NEW t \in Tasks, Land(t)
      PROVE  [Next]_vars
  BY <1>2, Awaited, PerformIsProgramStep DEF Land
<1>3. ASSUME NEW tx \in late, LandLate(tx)
      PROVE  [Next]_vars
  BY <1>3, PerformIsProgramStep DEF LandLate, TasksOK
<1> QED
  BY <1>1, <1>2, <1>3, OthersLeaveAccounts

-----------------------------------------------------------------------------
(* Every function awaits the transaction of its step *)

(* A step of one function t, that leaves the deal captured, is right if the   *)
(* function is, and what it leaves behind.                                   *)
LEMMA OneTask ==
    ASSUME TasksOK, TaskTypes', captured' = captured,
           NEW t \in Tasks,
           \A u \in Tasks \ {t} : /\ at'[u] = at[u] /\ awaited'[u] = awaited[u]
                                  /\ landed'[u] = landed[u],
           t = "initiate" => InitiateOK',
           t = "cancel" => CancelOK',
           \A r \in Runs : t = r => RunOK(r)',
           \A tx \in late' : IsTx(tx)
    PROVE  TasksOK'
<1>1. InitiateOK'
  BY Names DEF TasksOK, InitiateOK, Resting, InitiateTx, LedgerTx
<1>2. CancelOK'
  BY Names DEF TasksOK, CancelOK, Resting, CancelTx
<1>3. ASSUME NEW r \in Runs PROVE RunOK(r)'
  BY <1>3, Names DEF TasksOK, RunOK, Resting, RunTx
<1>4. \A tx \in late' : IsTx(tx)'
  BY DEF IsTx, LedgerTx, InitiateTx, RunTx, CancelTx
<1> QED
  BY <1>1, <1>2, <1>3, <1>4 DEF TasksOK

(* What Send, Finished and GivesUp do, function by function.                 *)
LEMMA Sent ==
    ASSUME TaskTypes, NEW t \in Tasks, NEW tx, NEW step \in Steps, Send(t, tx, step)
    PROVE  /\ TaskTypes' /\ captured' = captured /\ late' = late
           /\ at'[t] = step /\ awaited'[t] = tx /\ landed'[t] = "no"
           /\ \A u \in Tasks \ {t} : /\ at'[u] = at[u] /\ awaited'[u] = awaited[u]
                                     /\ landed'[u] = landed[u]
<1>1. /\ at' \in [Tasks -> Steps] /\ landed' \in [Tasks -> {"no", "ok", "err"}]
      /\ captured' \in [Runs -> MySlots \cup {NoDeal}]
  BY DEF Send, TaskTypes
<1>2. DOMAIN awaited = Tasks
  BY DEF TaskTypes
<1>3. awaited' = [u \in Tasks |-> awaited'[u]]
  BY <1>2 DEF Send
<1> QED
  BY <1>1, <1>2, <1>3 DEF Send, TaskTypes

LEMMA Ended ==
    ASSUME TaskTypes, NEW t \in Tasks, NEW step \in Steps, Finished(t, step)
    PROVE  /\ TaskTypes' /\ captured' = captured
           /\ at'[t] = step /\ awaited'[t] = NoTx /\ landed'[t] = "no"
           /\ \A u \in Tasks \ {t} : /\ at'[u] = at[u] /\ awaited'[u] = awaited[u]
                                     /\ landed'[u] = landed[u]
<1>1. /\ at' \in [Tasks -> Steps] /\ landed' \in [Tasks -> {"no", "ok", "err"}]
      /\ captured' \in [Runs -> MySlots \cup {NoDeal}]
  BY DEF Finished, TaskTypes
<1>2. DOMAIN awaited = Tasks
  BY DEF TaskTypes
<1>3. awaited' = [u \in Tasks |-> awaited'[u]]
  BY <1>2 DEF Finished
<1> QED
  BY <1>1, <1>2, <1>3 DEF Finished, TaskTypes

(* What is given up on is what was awaited.                                  *)
LEMMA GivenUp ==
    ASSUME TasksOK, NEW t \in Tasks, NEW step \in Steps, Throws(t), GivesUp(t, step)
    PROVE  /\ Finished(t, step)
           /\ \A tx \in late' : tx \in late \/ (tx = awaited[t] /\ awaited[t] # NoTx
                                                  /\ landed[t] = "no")
           /\ \A tx \in late' : IsTx(tx)
<1>1. \A tx \in late' : tx \in late \/ (tx = awaited[t] /\ awaited[t] # NoTx
                                                  /\ landed[t] = "no")
  BY DEF GivesUp, Throws
<1> QED
  BY <1>1, Awaited DEF GivesUp, TasksOK

LEMMA LandKeepsTasks ==
    ASSUME TasksOK, NEW t \in Tasks, Land(t)
    PROVE  TasksOK'
<1>1. TaskTypes' /\ captured' = captured
  BY DEF Land, TasksOK, TaskTypes
<1>2. /\ \A u \in Tasks : at'[u] = at[u] /\ awaited'[u] = awaited[u]
      /\ \A u \in Tasks \ {t} : landed'[u] = landed[u]
  BY DEF Land, TasksOK, TaskTypes
<1>3. awaited[t] # NoTx
  BY DEF Land
<1>4. t = "initiate" => InitiateOK'
  BY <1>2, <1>3 DEF TasksOK, InitiateOK, Resting, InitiateTx, LedgerTx
<1>5. t = "cancel" => CancelOK'
  BY <1>2, <1>3 DEF TasksOK, CancelOK, Resting, CancelTx
<1>6. \A r \in Runs : t = r => RunOK(r)'
  BY <1>1, <1>2, <1>3 DEF TasksOK, RunOK, Resting, RunTx
<1>7. \A tx \in late' : IsTx(tx)
  BY DEF Land, TasksOK
<1> QED
  BY <1>1, <1>2, <1>4, <1>5, <1>6, <1>7, OneTask

LEMMA InitiateKeepsTasks ==
    ASSUME TypeOK, TasksOK,
           \/ ClickInitiate \/ CreateLedger \/ LedgerCreated
           \/ SubmitInitiate \/ InitiateConfirmed \/ InitiateFails
    PROVE  TasksOK'
<1> DEFINE t == "initiate"
<1> t \in Tasks /\ t # "cancel" /\ \A r \in Runs : t # r
  BY Names
<1> SUFFICES /\ TaskTypes' /\ captured' = captured
             /\ \A u \in Tasks \ {t} : /\ at'[u] = at[u] /\ awaited'[u] = awaited[u]
                                       /\ landed'[u] = landed[u]
             /\ InitiateOK' /\ \A tx \in late' : IsTx(tx)
  BY OneTask
<1> TaskTypes /\ \A tx \in late : IsTx(tx)
  BY DEF TasksOK
<1>1. CASE ClickInitiate
  <2>1. TaskTypes'
    BY <1>1 DEF ClickInitiate, InitiateCalled, TaskTypes, Steps
  <2> QED
    BY <1>1, <2>1 DEF ClickInitiate, InitiateCalled, TaskTypes, TasksOK, InitiateOK, Resting
<1>2. CASE CreateLedger
  <2>1. Send(t, Tx("createLedger", NoDeal, 0), "creating") /\ "creating" \in Steps
    BY <1>2 DEF CreateLedger, Steps
  <2> QED
    BY <2>1, Sent DEF InitiateOK, LedgerTx, Tx
<1>3. CASE LedgerCreated
  <2>1. Finished(t, "ready") /\ "ready" \in Steps /\ late' = late
    BY <1>3 DEF LedgerCreated, Steps
  <2> QED
    BY <2>1, Ended DEF InitiateOK, Resting
<1>4. CASE SubmitInitiate
  <2>1. PICK s \in MySlots : Send(t, Tx("initiate", s, now + InitWindow), "submitted")
    BY <1>4 DEF SubmitInitiate
  <2>2. now + InitWindow \in Int
    BY HookAssumption DEF TypeOK
  <2>3. InitiateTx(Tx("initiate", s, now + InitWindow)) /\ "submitted" \in Steps
    BY <2>2 DEF InitiateTx, Tx, Steps
  <2>4. /\ TaskTypes' /\ captured' = captured /\ late' = late
        /\ at'[t] = "submitted" /\ InitiateTx(awaited'[t])
        /\ \A u \in Tasks \ {t} : /\ at'[u] = at[u] /\ awaited'[u] = awaited[u]
                                  /\ landed'[u] = landed[u]
    BY <2>1, <2>3, Sent
  <2>5. InitiateOK'
    BY <2>4 DEF InitiateOK, InitiateTx
  <2> QED
    BY <2>4, <2>5
<1>5. CASE InitiateConfirmed
  <2>1. Finished(t, "idle") /\ "idle" \in Steps /\ late' = late
    BY <1>5 DEF InitiateConfirmed, Steps
  <2> QED
    BY <2>1, Ended DEF InitiateOK, Resting
<1>6. CASE InitiateFails
  <2>1. "idle" \in Steps
    BY DEF Steps
  <2>2. Finished(t, "idle") /\ \A tx \in late' : IsTx(tx)
    <3>1. CASE Finished(t, "idle") /\ late' = late
      BY <3>1
    <3>2. CASE Throws(t) /\ GivesUp(t, "idle")
      BY <3>2, <2>1, GivenUp
    <3> QED
      BY <1>6, <3>1, <3>2 DEF InitiateFails
  <2> QED
    BY <2>1, <2>2, Ended DEF InitiateOK, Resting
<1> QED
  BY <1>1, <1>2, <1>3, <1>4, <1>5, <1>6

LEMMA CancelKeepsTasks ==
    ASSUME IInv, TasksOK, deal \in MySlots \cup {NoDeal},
           ClickAbort \/ ClickUnlock \/ CancelConfirmed \/ CancelFails
    PROVE  TasksOK'
<1> DEFINE t == "cancel"
<1> t \in Tasks /\ t # "initiate" /\ \A r \in Runs : t # r
  BY Names
<1> {"idle", "abort", "unlock"} \subseteq Steps
  BY DEF Steps
<1>1. CASE ClickUnlock /\ UNCHANGED taskVars
  BY <1>1 DEF taskVars, TasksOK, TaskTypes, InitiateOK, CancelOK, RunOK, Resting,
              IsTx, LedgerTx, InitiateTx, RunTx, CancelTx
<1> SUFFICES ASSUME ~(ClickUnlock /\ UNCHANGED taskVars)
             PROVE  /\ TaskTypes' /\ captured' = captured
                    /\ \A u \in Tasks \ {t} : /\ at'[u] = at[u] /\ awaited'[u] = awaited[u]
                                              /\ landed'[u] = landed[u]
                    /\ CancelOK' /\ \A tx \in late' : IsTx(tx)
  BY <1>1, OneTask
<1> TaskTypes /\ \A tx \in late : IsTx(tx)
  BY DEF TasksOK
<1>2. CASE ClickAbort \/ ClickUnlock
  <2>1. PICK op \in {"cancelInitiate", "cancelMutual"}, s \in MySlots,
             step \in {"abort", "unlock"} : Send(t, Tx(op, s, 0), step)
    <3>1. CASE ClickAbort
      BY <3>1 DEF ClickAbort
    <3>2. CASE ClickUnlock
      <4>1. /\ ledger[MyLedger].status \notin {"Absent", "Active"}
            /\ Send(t, Tx("cancelInitiate", <<MyLedger, pending[MyLedger].nonce>>, 0), "unlock")
        BY <3>2 DEF ClickUnlock
      <4>2. <<MyLedger, pending[MyLedger].nonce>> \in MySlots
        BY <4>1, PendingNonce, Names
      <4> QED
        BY <4>1, <4>2
    <3> QED
      BY <1>2, <3>1, <3>2
  <2>2. CancelTx(Tx(op, s, 0))
    BY <2>1 DEF CancelTx, Tx
  <2>3. /\ TaskTypes' /\ captured' = captured /\ late' = late
        /\ at'[t] = step /\ CancelTx(awaited'[t])
        /\ \A u \in Tasks \ {t} : /\ at'[u] = at[u] /\ awaited'[u] = awaited[u]
                                  /\ landed'[u] = landed[u]
    BY <2>1, <2>2, Sent
  <2>4. CancelOK'
    BY <2>3 DEF CancelOK, CancelTx
  <2> QED
    BY <2>3, <2>4
<1>3. CASE CancelConfirmed
  <2>1. Finished(t, "idle") /\ late' = late
    BY <1>3 DEF CancelConfirmed
  <2> QED
    BY <2>1, Ended DEF CancelOK, Resting
<1>4. CASE CancelFails
  <2>1. Throws(t) /\ GivesUp(t, "idle")
    BY <1>4 DEF CancelFails
  <2>2. Finished(t, "idle") /\ \A tx \in late' : IsTx(tx)
    BY <2>1, GivenUp
  <2> QED
    BY <2>2, Ended DEF CancelOK, Resting
<1> QED
  BY <1>2, <1>3, <1>4

(* A run begins: the deal it captures was none before, so that the           *)
(* transactions already about are not affected.                              *)
LEMMA StartKeepsTasks ==
    ASSUME TasksOK, deal \in MySlots \cup {NoDeal}, NEW r \in Runs, StartRun(r)
    PROVE  TasksOK'
<1>1. /\ at[r] = "idle" /\ captured[r] = NoDeal /\ deal \in MySlots
      /\ Resting(r)
  BY DEF StartRun, TasksOK, RunOK, RunSteps
<1>2. TaskTypes'
  BY <1>1 DEF StartRun, TasksOK, TaskTypes, Steps
<1>3. /\ at'[r] \in {"proving", "noSlot"} /\ captured'[r] = deal
      /\ awaited' = awaited /\ landed' = landed /\ late' = late
      /\ \A t \in Tasks \ {r} : at'[t] = at[t]
      /\ \A q \in Runs \ {r} : captured'[q] = captured[q]
  BY Names DEF StartRun, TasksOK, TaskTypes
<1>4. \A tx : RunTx(tx) => tx.arg # r /\ RunTx(tx)'
  BY <1>1, <1>3, Names DEF RunTx
<1>5. InitiateOK' /\ CancelOK'
  BY <1>3, Names DEF TasksOK, InitiateOK, CancelOK, Resting, InitiateTx, LedgerTx, CancelTx
<1>6. ASSUME NEW q \in Runs PROVE RunOK(q)'
  <2>1. CASE q = r
    BY <1>1, <1>3, <2>1 DEF RunOK, Resting, RunSteps
  <2>2. CASE q # r
    <3>1. /\ at'[q] = at[q] /\ captured'[q] = captured[q]
          /\ awaited'[q] = awaited[q] /\ landed'[q] = landed[q]
      BY <1>3, <2>2, Names
    <3>2. RunOK(q)
      BY DEF TasksOK
    <3>3. RunTx(awaited[q]) => RunTx(awaited[q])'
      BY <1>3, <1>4 DEF RunTx
    <3> QED
      BY <3>1, <3>2, <3>3 DEF RunOK, Resting, RunTx
  <2> QED
    BY <2>1, <2>2
<1>7. \A tx \in late' : IsTx(tx)'
  BY <1>3, <1>4 DEF TasksOK, IsTx, LedgerTx, InitiateTx, CancelTx
<1> QED
  BY <1>2, <1>5, <1>6, <1>7 DEF TasksOK

(* The transactions of a run, and its end.                                   *)
LEMMA RunKeepsTasks ==
    ASSUME TasksOK, NEW r \in Runs, Proved(r) \/ RunConfirmed(r) \/ RunFails(r)
    PROVE  TasksOK'
<1> r \in Tasks /\ r # "initiate" /\ r # "cancel"
  BY Names
<1> SUFFICES /\ TaskTypes' /\ captured' = captured
             /\ \A u \in Tasks \ {r} : /\ at'[u] = at[u] /\ awaited'[u] = awaited[u]
                                       /\ landed'[u] = landed[u]
             /\ RunOK(r)' /\ \A tx \in late' : IsTx(tx)
  BY OneTask
<1>1. TaskTypes /\ RunOK(r) /\ \A tx \in late : IsTx(tx)
  BY DEF TasksOK
<1>2. ASSUME NEW step \in RunSteps, captured[r] \in MySlots,
             Send(r, Tx(step, captured[r], r), step)
      PROVE  /\ TaskTypes' /\ captured' = captured
             /\ \A u \in Tasks \ {r} : /\ at'[u] = at[u] /\ awaited'[u] = awaited[u]
                                       /\ landed'[u] = landed[u]
             /\ RunOK(r)' /\ \A tx \in late' : IsTx(tx)
  <2>1. step \in Steps /\ step \notin {"idle", "proving", "noSlot", "done"}
    BY DEF Steps, RunSteps
  <2>2. /\ TaskTypes' /\ captured' = captured /\ late' = late
        /\ at'[r] = step /\ awaited'[r] = Tx(step, captured[r], r)
        /\ \A u \in Tasks \ {r} : /\ at'[u] = at[u] /\ awaited'[u] = awaited[u]
                                  /\ landed'[u] = landed[u]
    BY <1>1, <1>2, <2>1, Sent
  <2>3. RunOK(r)'
    BY <1>2, <2>1, <2>2 DEF RunOK, RunTx, Tx
  <2> QED
    BY <1>1, <2>2, <2>3
<1>3. ASSUME Finished(r, "done"), \A tx \in late' : IsTx(tx)
      PROVE  /\ TaskTypes' /\ captured' = captured
             /\ \A u \in Tasks \ {r} : /\ at'[u] = at[u] /\ awaited'[u] = awaited[u]
                                       /\ landed'[u] = landed[u]
             /\ RunOK(r)' /\ \A tx \in late' : IsTx(tx)
  <2>1. "done" \in Steps
    BY DEF Steps
  <2>2. RunOK(r)'
    BY <1>1, <1>3, <2>1, Ended DEF RunOK, Resting, RunSteps
  <2> QED
    BY <1>1, <1>3, <2>1, <2>2, Ended
<1>4. CASE Proved(r)
  <2>1. PICK step \in {"chunk0", "create"} : Send(r, Tx(step, captured[r], r), step)
    BY <1>4 DEF Proved
  <2>2. captured[r] \in MySlots
    BY <1>1, <1>4 DEF Proved, RunOK
  <2> QED
    BY <1>2, <2>1, <2>2 DEF RunSteps
<1>5. CASE RunConfirmed(r)
  <2>1. at[r] \in RunSteps /\ captured[r] \in MySlots
    BY <1>1, <1>5 DEF RunConfirmed, RunOK, Resting, RunTx
  <2>2. CASE at[r] = "execute"
    BY <1>1, <1>3, <1>5, <2>2 DEF RunConfirmed
  <2>3. CASE at[r] # "execute"
    <3>1. NextStep(at[r]) \in RunSteps
      BY <2>1, <2>3 DEF NextStep, RunSteps
    <3>2. Send(r, Tx(NextStep(at[r]), captured[r], r), NextStep(at[r]))
      BY <1>5, <2>3 DEF RunConfirmed
    <3> QED
      BY <1>2, <2>1, <3>1, <3>2
  <2> QED
    BY <2>2, <2>3
<1>6. CASE RunFails(r)
  <2>1. CASE Throws(r) /\ GivesUp(r, "done")
    <3>1. "done" \in Steps
      BY DEF Steps
    <3> QED
      BY <1>3, <2>1, <3>1, GivenUp
  <2>2. CASE Finished(r, "done") /\ late' = late
    BY <1>1, <1>3, <2>2
  <2> QED
    BY <1>6, <2>1, <2>2 DEF RunFails
<1> QED
  BY <1>4, <1>5, <1>6

(* The page is lost: what was awaited is with the network.                   *)
LEMMA LossKeepsTasks ==
    ASSUME TasksOK, PageLost
    PROVE  TasksOK'
<1>1. TaskTypes'
  BY Names DEF PageLost, TasksOK, TaskTypes, Steps
<1>2. /\ \A t \in Tasks : awaited'[t] = NoTx /\ landed'[t] = "no"
      /\ at'["initiate"] = "idle" /\ at'["cancel"] = "idle"
      /\ \A r \in Runs : at'[r] = IF at[r] = "idle" THEN "idle" ELSE "done"
      /\ captured' = captured
  BY Names DEF PageLost
<1>3. InitiateOK' /\ CancelOK'
  BY <1>2, Names DEF InitiateOK, CancelOK, Resting
<1>4. \A r \in Runs : RunOK(r)'
  BY <1>2, Names DEF TasksOK, RunOK, Resting, RunSteps
<1>5. \A tx \in late' : IsTx(tx)
  BY Awaited DEF PageLost, TasksOK
<1>6. \A tx \in late' : IsTx(tx)'
  BY <1>2, <1>5 DEF IsTx, LedgerTx, InitiateTx, RunTx, CancelTx
<1> QED
  BY <1>1, <1>3, <1>4, <1>6 DEF TasksOK

(* Every step of the tab.                                                    *)
LEMMA HookKeepsTasks ==
    ASSUME IInv, TasksOK, deal \in MySlots \cup {NoDeal}, [HookNext]_allVars
    PROVE  TasksOK'
<1>1. CASE \/ Chain \/ CountdownEnds
           \/ \E s \in MySlots : Poll(s) \/ PollAnswered(s) \/ PollingEnds(s)
           \/ UNCHANGED allVars
           \/ \E tx \in late : LandLate(tx)
  <2>1. UNCHANGED <<captured, at, awaited, landed>> /\ late' \subseteq late
    BY <1>1 DEF Chain, CountdownEnds, Poll, PollAnswered, PollingEnds, allVars, taskVars,
                LandLate
  <2> QED
    BY <2>1 DEF TasksOK, TaskTypes, InitiateOK, CancelOK, RunOK, Resting,
                IsTx, LedgerTx, InitiateTx, RunTx, CancelTx
<1>2. ASSUME NEW t \in Tasks, Land(t)
      PROVE  TasksOK'
  BY <1>2, LandKeepsTasks
<1>3. CASE \/ ClickInitiate \/ CreateLedger \/ LedgerCreated
           \/ SubmitInitiate \/ InitiateConfirmed \/ InitiateFails
  BY <1>3, InitiateKeepsTasks DEF IInv
<1>4. ASSUME NEW r \in Runs, ClickExecute(r) \/ AutoExecute(r)
      PROVE  TasksOK'
  BY <1>4, StartKeepsTasks DEF ClickExecute, AutoExecute
<1>5. ASSUME NEW r \in Runs, Proved(r) \/ RunConfirmed(r) \/ RunFails(r)
      PROVE  TasksOK'
  BY <1>5, RunKeepsTasks
<1>6. CASE ClickAbort \/ ClickUnlock \/ CancelConfirmed \/ CancelFails
  BY <1>6, CancelKeepsTasks
<1>7. CASE PageLost
  BY <1>7, LossKeepsTasks
<1> QED
  BY <1>1, <1>2, <1>3, <1>4, <1>5, <1>6, <1>7 DEF HookNext

-----------------------------------------------------------------------------
(* Types *)

(* HookTypeOK without the accounts.                                          *)
HookVarsOK ==
    /\ phase \in Phases
    /\ deal \in MySlots \cup {NoDeal}
    /\ countdown \in BOOLEAN /\ stray \in BOOLEAN
    /\ polling \subseteq MySlots
    /\ answers \in [MySlots -> 0..MaxPolls]
    /\ due \in Nat
    /\ captured \in [Runs -> MySlots \cup {NoDeal}]
    /\ settlementTxs \in Runs \cup {NoDeal}

LEMMA HookKeepsVars ==
    ASSUME HookVarsOK, TasksOK, TasksOK', [HookNext]_allVars
    PROVE  HookVarsOK'
<1> captured' \in [Runs -> MySlots \cup {NoDeal}]
  BY DEF TasksOK, TaskTypes
<1> USE DEF HookVarsOK, Phases
<1>1. CASE \/ Chain \/ \E tx \in late : LandLate(tx)
           \/ \E t \in Tasks : Land(t)
           \/ UNCHANGED allVars
  BY <1>1 DEF Chain, LandLate, Land, hookVars, allVars
<1>2. CASE ClickInitiate \/ CreateLedger \/ LedgerCreated \/ SubmitInitiate \/ InitiateFails
  BY <1>2 DEF ClickInitiate, InitiateCalled, CreateLedger, LedgerCreated,
              SubmitInitiate, InitiateFails, hookVars
<1>3. CASE InitiateConfirmed
  <2>1. awaited["initiate"].slot \in MySlots
    BY <1>3 DEF InitiateConfirmed, TasksOK, InitiateOK, InitiateTx
  <2> QED
    BY <1>3, <2>1 DEF InitiateConfirmed
<1>4. CASE CountdownEnds
  BY <1>4 DEF CountdownEnds
<1>5. ASSUME NEW s \in MySlots, Poll(s) \/ PollAnswered(s) \/ PollingEnds(s)
      PROVE  HookVarsOK'
  <2>1. answers[s] \in 0..MaxPolls /\ MaxPolls \in Nat
    BY HookAssumption
  <2>2. CASE Poll(s)
    <3>1. answers[s] + 1 \in 0..MaxPolls
      BY <2>1, <2>2 DEF Poll
    <3> QED
      BY <2>2, <3>1 DEF Poll
  <2>3. CASE PollAnswered(s)
    <3>1. answers[s] - 1 \in 0..MaxPolls
      BY <2>1, <2>3 DEF PollAnswered
    <3>2. due' \in Nat
      BY <2>3 DEF PollAnswered
    <3>3. answers' \in [MySlots -> 0..MaxPolls]
      BY <2>3, <3>1 DEF PollAnswered
    <3> QED
      BY <2>3, <3>2, <3>3 DEF PollAnswered
  <2>4. CASE PollingEnds(s)
    BY <2>4 DEF PollingEnds
  <2> QED
    BY <1>5, <2>2, <2>3, <2>4
<1>6. ASSUME NEW r \in Runs, ClickExecute(r) \/ AutoExecute(r)
      PROVE  HookVarsOK'
  BY <1>6 DEF ClickExecute, AutoExecute, StartRun
<1>7. ASSUME NEW r \in Runs, Proved(r) \/ RunConfirmed(r) \/ RunFails(r)
      PROVE  HookVarsOK'
  BY <1>7 DEF Proved, RunConfirmed, RunFails
<1>8. CASE ClickAbort \/ ClickUnlock \/ CancelConfirmed \/ CancelFails
  BY <1>8 DEF ClickAbort, ClickUnlock, CancelConfirmed, CancelFails, hookVars
<1>9. CASE PageLost
  <2>1. 0 \in 0..MaxPolls
    BY HookAssumption
  <2>2. answers' \in [MySlots -> 0..MaxPolls]
    BY <1>9, <2>1 DEF PageLost
  <2> QED
    BY <1>9, <2>2 DEF PageLost
<1> QED
  BY <1>1, <1>2, <1>3, <1>4, <1>5, <1>6, <1>7, <1>8, <1>9 DEF HookNext

-----------------------------------------------------------------------------
(* The inductive invariant *)

HookInv == IInv /\ HookVarsOK /\ TasksOK

(* The tab opens on a pool without deals: nothing is locked, nothing under    *)
(* way.                                                                      *)
LEMMA HookInitInv == HookInit => HookInv
<1> SUFFICES ASSUME HookInit PROVE HookInv
  OBVIOUS
<1>1. /\ \A l \in Ledgers : /\ ledger[l] \in LedgerAccount
                            /\ ledger[l].status \in {"Absent", "Active"}
                            /\ pending[l] = NoPending
      /\ ledger \in [Ledgers -> LedgerAccount]
  <2>1. PICK mine \in {"Absent", "Active"} :
               ledger = [l \in Ledgers |-> EmptyLedger(IF l = MyLedger THEN mine ELSE "Active")]
    BY DEF HookInit
  <2> QED
    BY <2>1, BlankAccounts DEF HookInit, LedgerStatus
<1>2. TypeOK
  <2>1. proofData \in [Nonces -> [0..5 -> Payloads]]
    BY DEF HookInit, Payloads
  <2> QED
    BY <1>1, <2>1, BlankAccounts DEF HookInit, TypeOK
<1>3. LockSlotMatch
  <2>1. \A s \in Slots : slot[s].status = "Absent"
    BY BlankAccounts DEF HookInit
  <2> QED
    BY <1>1, <2>1
       DEF LockSlotMatch, WaitingMatchesA, LockedHoldsBoth, TermsAgree, NothingStale,
           EveryLockHasSlot, OneDealPerCounterparty, Waiting, BothLocked, Exists
<1>4. HookVarsOK
  <2>1. 0 \in 0..MaxPolls
    BY HookAssumption
  <2>2. answers \in [MySlots -> 0..MaxPolls]
    BY <2>1 DEF HookInit
  <2> QED
    BY <2>2 DEF HookInit, HookVarsOK, Phases
<1>5. TasksOK
  <2>1. TaskTypes
    BY DEF HookInit, TaskTypes, Steps
  <2> QED
    BY <2>1, Names DEF HookInit, TasksOK, InitiateOK, CancelOK, RunOK, Resting, RunSteps
<1> QED
  BY <1>2, <1>3, <1>4, <1>5 DEF HookInv, IInv

LEMMA HookInvKept == HookInv /\ [HookNext]_allVars => HookInv' /\ [Next]_vars
<1> SUFFICES ASSUME HookInv, [HookNext]_allVars PROVE HookInv' /\ [Next]_vars
  OBVIOUS
<1>1. [Next]_vars
  BY HookIsProgramStep DEF HookInv, IInv
<1>2. IInv'
  BY <1>1, NextTypeOK, NextLockSlotMatch DEF HookInv, IInv
<1>3. TasksOK'
  BY HookKeepsTasks DEF HookInv, HookVarsOK
<1>4. HookVarsOK'
  BY <1>3, HookKeepsVars DEF HookInv
<1> QED
  BY <1>1, <1>2, <1>3, <1>4 DEF HookInv

LEMMA HookInvariant == HookSpec => []HookInv
<1> QED
  BY HookInitInv, HookInvKept, PTL DEF HookSpec

(* The state of the hook and of the accounts is well typed, whatever is       *)
(* clicked, lost, late or reloaded: the deal the page works on, the slots it  *)
(* polls and the deals its executions took up are slots of its own ledger    *)
(* (useSchemeB.ts:318-349).                                                  *)
THEOREM HookTypesCorrect == HookSpec => []HookTypeOK
<1>1. HookInv => HookTypeOK
  BY DEF HookInv, IInv, HookVarsOK, HookTypeOK
<1> QED
  BY <1>1, HookInvariant, PTL

(* Transactions given up on, retried and landing late included, a tab does    *)
(* nothing to the accounts but instructions of the program, so its slots and  *)
(* ledgers match as they do for the program's other clients, and no deal is   *)
(* left by one of its parties alone (accept_commit.rs:83).                   *)
THEOREM HookRunsTheProgram ==
    HookSpec => [][Next]_vars /\ []LockSlotMatch /\ NeitherWalksAway
<1>1. HookInv => LockSlotMatch
  BY DEF HookInv, IInv
<1>2. HookInv /\ [Next]_vars => [\A l \in Ledgers : LeavesTogether(l)]_vars
  BY StepLeavesTogether DEF HookInv, IInv
<1> QED
  BY <1>1, <1>2, HookInvariant, HookInvKept, PTL DEF HookSpec, NeitherWalksAway

(* Whatever is clicked twice, given up on, retried, lost or late, the tab and *)
(* its counterparties make the bilateral deals of OtcDeals                    *)
(* (useSchemeB.ts:598-846, execute_settle_b.rs:181-211).                      *)
THEOREM HookMakesBilateralDeals == HookSpec => RefinesOtcDeals
<1>1. HookInit => DealsInv /\ Abs!DealsInit
  <2> SUFFICES ASSUME HookInit PROVE DealsInv /\ Abs!DealsInit
    OBVIOUS
  <2>1. TypeOK /\ LockSlotMatch
    BY HookInitInv DEF HookInv, IInv
  <2>2. PICK mine \in {"Absent", "Active"} :
          ledger = [l \in Ledgers |-> EmptyLedger(IF l = MyLedger THEN mine ELSE "Active")]
    BY DEF HookInit
  <2>3. /\ \A l \in Ledgers : ledger[l].version = 0 /\ ledger[l].status \in {"Absent", "Active"}
        /\ \A s \in Slots : slot[s].status = "Absent"
        /\ records = {}
    BY <2>2, BlankAccounts DEF HookInit, EmptyLedger
  <2>4. NoPastBeforeLedger
    BY <2>3 DEF NoPastBeforeLedger
  <2>5. Abs!DealsInit
    BY <2>3 DEF Abs!DealsInit, Offers, Deals, Settlements, BothLocked
  <2> QED
    BY <2>1, <2>4, <2>5 DEF DealsInv
<1>2. HookInv /\ [HookNext]_allVars => [Next]_vars
  BY HookInvKept
<1>3. DealsInv /\ [Next]_vars => DealsInv' /\ [Abs!DealsNext]_(Abs!dealVars)
  BY NextDealsInv, StepRefines
<1> QED
  BY <1>1, <1>2, <1>3, HookInvariant, PTL DEF HookSpec, RefinesOtcDeals, Abs!DealsSpec

-----------------------------------------------------------------------------
(* Reports *)

(* Only its landing settles what a function awaits; otherwise the function    *)
(* stays where it is, with what it captured, or has nothing on chain.        *)
LEMMA OnlyLandingLands ==
    ASSUME HookInv, [HookNext]_allVars, NEW t \in Tasks, landed'[t] # "no"
    PROVE  /\ at'[t] = at[t] /\ awaited'[t] = awaited[t]
           /\ t \in Runs => captured'[t] = captured[t]
           /\ landed'[t] = landed[t] \/ Land(t)
<1> TasksOK /\ TaskTypes
  BY DEF HookInv, TasksOK
<1>1. CASE \/ Chain \/ CountdownEnds \/ \E tx \in late : LandLate(tx)
           \/ \E s \in MySlots : Poll(s) \/ PollAnswered(s) \/ PollingEnds(s)
           \/ UNCHANGED allVars
  BY <1>1 DEF Chain, CountdownEnds, Poll, PollAnswered, PollingEnds, allVars, taskVars,
              LandLate
<1>2. ASSUME NEW u \in Tasks, Land(u)
      PROVE  /\ UNCHANGED <<at, awaited, captured>>
             /\ landed'[t] = landed[t] \/ Land(t)
  <2>1. UNCHANGED <<at, awaited, captured>> /\ (u # t => landed'[t] = landed[t])
    BY <1>2 DEF Land, TaskTypes
  <2> QED
    BY <1>2, <2>1
<1>3. ASSUME NEW u \in Tasks, NEW tx, NEW step, Send(u, tx, step)
      PROVE  /\ at'[t] = at[t] /\ awaited'[t] = awaited[t] /\ landed'[t] = landed[t]
             /\ captured' = captured
  BY <1>3 DEF Send, TaskTypes
<1>4. ASSUME NEW u \in Tasks, NEW step, Finished(u, step)
      PROVE  /\ at'[t] = at[t] /\ awaited'[t] = awaited[t] /\ landed'[t] = landed[t]
             /\ captured' = captured
  BY <1>4 DEF Finished, TaskTypes
<1>5. CASE ClickInitiate
  BY <1>5, Names DEF ClickInitiate, InitiateCalled, TasksOK, TaskTypes, InitiateOK, Resting
<1>6. CASE CreateLedger \/ LedgerCreated \/ SubmitInitiate \/ InitiateConfirmed \/ InitiateFails
  BY <1>3, <1>4, <1>6, Names
     DEF CreateLedger, LedgerCreated, SubmitInitiate, InitiateConfirmed, InitiateFails, GivesUp
<1>7. ASSUME NEW r \in Runs, ClickExecute(r) \/ AutoExecute(r)
      PROVE  /\ at'[t] = at[t] /\ awaited'[t] = awaited[t] /\ landed'[t] = landed[t]
             /\ t \in Runs => captured'[t] = captured[t]
  <2>1. StartRun(r)
    BY <1>7 DEF ClickExecute, AutoExecute
  <2>2. landed[r] = "no"
    BY <2>1 DEF StartRun, TasksOK, RunOK, Resting, RunSteps
  <2> QED
    BY <2>1, <2>2 DEF StartRun, TaskTypes
<1>8. ASSUME NEW r \in Runs, Proved(r) \/ RunConfirmed(r) \/ RunFails(r)
      PROVE  /\ at'[t] = at[t] /\ awaited'[t] = awaited[t] /\ landed'[t] = landed[t]
             /\ captured' = captured
  BY <1>3, <1>4, <1>8, Names DEF Proved, RunConfirmed, RunFails, GivesUp
<1>9. CASE ClickAbort \/ ClickUnlock \/ CancelConfirmed \/ CancelFails
  BY <1>3, <1>4, <1>9, Names
     DEF ClickAbort, ClickUnlock, CancelConfirmed, CancelFails, GivesUp, taskVars
<1>10. CASE PageLost
  BY <1>10 DEF PageLost
<1> QED
  BY <1>1, <1>2, <1>5, <1>6, <1>7, <1>8, <1>9, <1>10 DEF HookNext

(* No instruction takes a record away.                                       *)
LEMMA RecordsStay ==
    ASSUME [Next]_vars
    PROVE  records \subseteq records'
<1>1. ASSUME NEW s \in Slots, Execute(s)
      PROVE  records \subseteq records'
  BY <1>1 DEF Execute, ExecuteSettleB
<1>2. ASSUME NEW s \in Slots, WriteChunk(s) \/ CancelInitiate(s) \/ CancelMutual(s)
      PROVE  records \subseteq records'
  BY <1>2 DEF WriteChunk, WriteProofData, CancelInitiate, CancelMutual
<1>3. ASSUME NEW a \in Ledgers, CreateUserLedger(a) \/ Initiate(a)
      PROVE  records \subseteq records'
  BY <1>3 DEF CreateUserLedger, Initiate, InitiateCommit
<1>4. ASSUME NEW u \in Users, NEW s \in Slots, AcceptCommit(u, s)
      PROVE  records \subseteq records'
  BY <1>4 DEF AcceptCommit
<1>5. CASE InitializePool \/ Tick \/ (\E n \in ProofNonces : CreateProofData(n)) \/ UNCHANGED vars
  BY <1>5 DEF InitializePool, Tick, CreateProofData, vars
<1> QED
  BY <1>1, <1>2, <1>3, <1>4, <1>5 DEF Next

(* A run whose execution has landed has its record.                          *)
SettlesWhenLanded ==
    \A r \in Runs : at[r] = "execute" /\ landed[r] = "ok" =>
        \E q \in records : q.id = <<captured[r], r>>

LEMMA HookKeepsRecords ==
    ASSUME HookInv, SettlesWhenLanded, [HookNext]_allVars
    PROVE  SettlesWhenLanded'
<1> SUFFICES ASSUME NEW r \in Runs, at'[r] = "execute", landed'[r] = "ok"
             PROVE  \E q \in records' : q.id = <<captured'[r], r>>
  BY DEF SettlesWhenLanded
<1>1. r \in Tasks
  BY Names
<1>2. /\ at[r] = "execute" /\ captured'[r] = captured[r]
      /\ landed[r] = "ok" \/ Land(r)
  BY <1>1, OnlyLandingLands
<1>3. CASE landed[r] = "ok"
  BY <1>2, <1>3, HookInvKept, RecordsStay DEF SettlesWhenLanded
<1>4. CASE Land(r)
  <2>1. Perform(awaited[r])
    BY <1>1, <1>4 DEF Land, HookInv, TasksOK, TaskTypes
  <2>2. /\ awaited[r].op = "execute" /\ awaited[r].arg = r
        /\ awaited[r].slot = captured[r]
    BY <1>2 DEF HookInv, TasksOK, RunOK, RunTx, RunSteps
  <2>3. ExecuteSettleB(captured[r], NonceOf(captured[r]), r, r, r)
    BY <2>1, <2>2 DEF Perform
  <2> DEFINE c == captured[r]
             rec == [id |-> <<c, r>>, ledger_a |-> LedgerA(c), ledger_b |-> LedgerB(c),
                     commitment_hash |-> slot[c].commitment_hash,
                     version_a |-> ledger[LedgerA(c)].version + 1,
                     version_b |-> ledger[LedgerB(c)].version + 1, settled_at |-> now]
  <2>4. rec \in records'
    BY <2>3 DEF ExecuteSettleB
  <2>5. rec.id = <<c, r>>
    OBVIOUS
  <2> HIDE DEF rec
  <2> QED
    BY <1>2, <2>4, <2>5
<1> QED
  BY <1>2, <1>3, <1>4

(* No transaction given up on will open slot s.                              *)
NoLateInitiate(s) == \A tx \in late : InitiateTx(tx) => tx.slot # s

(* The slot of an initiate under way is newer than the current deal, and no   *)
(* late initiate opens either.                                               *)
NewDeals ==
    /\ NoLateInitiate(deal)
    /\ at["initiate"] = "submitted" =>
          /\ NoLateInitiate(awaited["initiate"].slot)
          /\ deal # NoDeal => NonceOf(deal) < NonceOf(awaited["initiate"].slot)

(* While an abort is awaited its slot is the current deal or an older one,    *)
(* which nothing opens again; once it has landed the slot is closed.         *)
AbortsClose ==
    at["cancel"] = "abort" =>
        /\ deal # NoDeal /\ NonceOf(awaited["cancel"].slot) <= NonceOf(deal)
        /\ NoLateInitiate(awaited["cancel"].slot)
        /\ landed["cancel"] = "ok" => ~Exists(awaited["cancel"].slot)

(* The steps in which deals or initiates change.                             *)
DealStays ==
    /\ deal' = deal
    /\ at'["initiate"] = "submitted" =>
          at["initiate"] = "submitted" /\ awaited'["initiate"] = awaited["initiate"]
    /\ \A tx \in late' : InitiateTx(tx) => tx \in late

LEMMA DealSteps ==
    ASSUME HookInv, [HookNext]_allVars
    PROVE  DealStays \/ SubmitInitiate \/ InitiateConfirmed \/ InitiateFails \/ PageLost
<1> TasksOK /\ TaskTypes
  BY DEF HookInv, TasksOK
<1>1. CASE \/ Chain \/ CountdownEnds \/ \E tx \in late : LandLate(tx)
           \/ \E s \in MySlots : Poll(s) \/ PollAnswered(s) \/ PollingEnds(s)
           \/ \E t \in Tasks : Land(t)
           \/ UNCHANGED allVars
  BY <1>1 DEF Chain, CountdownEnds, Poll, PollAnswered, PollingEnds, allVars, hookVars,
              taskVars, LandLate, Land, DealStays
<1>2. CASE ClickInitiate \/ CreateLedger \/ LedgerCreated
  <2>1. "initiate" \in Tasks
    BY Names
  <2> QED
    BY <1>2, <2>1 DEF ClickInitiate, InitiateCalled, CreateLedger, LedgerCreated, Send,
       Finished, hookVars, DealStays, TaskTypes
<1>3. ASSUME NEW r \in Runs, ClickExecute(r) \/ AutoExecute(r)
      PROVE  DealStays
  BY <1>3, Names DEF ClickExecute, AutoExecute, StartRun, DealStays, TaskTypes
<1>4. ASSUME NEW r \in Runs, Proved(r) \/ RunConfirmed(r)
      PROVE  DealStays
  BY <1>4, Names DEF Proved, RunConfirmed, Send, Finished, DealStays, TaskTypes
<1>5. ASSUME NEW r \in Runs, RunFails(r)
      PROVE  DealStays
  <2>1. \A tx \in late' : tx \in late \/ (tx = awaited[r] /\ awaited[r] # NoTx)
    BY <1>5 DEF RunFails, GivesUp, Throws
  <2>2. awaited[r] # NoTx => ~InitiateTx(awaited[r])
    BY DEF TasksOK, RunOK, Resting, RunTx, InitiateTx, RunSteps
  <2>3. at'["initiate"] = at["initiate"] /\ awaited'["initiate"] = awaited["initiate"]
    BY <1>5, Names DEF RunFails, GivesUp, Finished, TaskTypes
  <2> QED
    BY <1>5, <2>1, <2>2, <2>3 DEF RunFails, DealStays
<1>6. CASE ClickAbort \/ ClickUnlock \/ CancelConfirmed
  BY <1>6, Names DEF ClickAbort, ClickUnlock, CancelConfirmed, Send, Finished, taskVars,
     DealStays, TaskTypes
<1>7. CASE CancelFails
  <2>1. \A tx \in late' : tx \in late \/ (tx = awaited["cancel"] /\ awaited["cancel"] # NoTx)
    BY <1>7 DEF CancelFails, GivesUp, Throws
  <2>2. awaited["cancel"] # NoTx => ~InitiateTx(awaited["cancel"])
    BY DEF TasksOK, CancelOK, Resting, CancelTx, InitiateTx
  <2>3. at'["initiate"] = at["initiate"] /\ awaited'["initiate"] = awaited["initiate"]
    BY <1>7, Names DEF CancelFails, GivesUp, Finished, TaskTypes
  <2> QED
    BY <1>7, <2>1, <2>2, <2>3 DEF CancelFails, DealStays, hookVars
<1> QED
  BY <1>1, <1>2, <1>3, <1>4, <1>5, <1>6, <1>7 DEF HookNext

(* The nonce of an initiate is fresh when it is sent, so its slot stays        *)
(* apart from the deal and from the late initiates.                          *)
LEMMA HookKeepsNewDeals ==
    ASSUME HookInv, NewDeals, [HookNext]_allVars
    PROVE  NewDeals'
<1> DEFINE i == "initiate"
<1> TasksOK /\ TaskTypes /\ i \in Tasks /\ i \in {"initiate"}
  BY Names DEF HookInv, TasksOK
<1>1. CASE DealStays
  BY <1>1 DEF DealStays, NewDeals, NoLateInitiate, InitiateTx
<1>2. CASE SubmitInitiate
  <2>1. PICK s \in MySlots :
           /\ \A t \in MySlots :
                 Exists(t) \/ deal = t \/ (\E tx \in late : tx.slot = t)
                     => NonceOf(t) < NonceOf(s)
           /\ Send(i, Tx("initiate", s, now + InitWindow), "submitted")
    BY <1>2 DEF SubmitInitiate
  <2>2. /\ at'[i] = "submitted" /\ awaited'[i].slot = s /\ late' = late /\ deal' = deal
    BY <1>2, <2>1, Sent DEF SubmitInitiate, Steps, Tx
  <2>3. NonceOf(s) \in Nat /\ \A t \in MySlots : NonceOf(t) \in Nat
    BY Names, NonceAssumption
  <2>4. \A tx \in late : InitiateTx(tx) => NonceOf(tx.slot) < NonceOf(s)
    BY <2>1 DEF InitiateTx
  <2>5. NoLateInitiate(s)
    BY <2>3, <2>4 DEF NoLateInitiate
  <2>6. deal # NoDeal => NonceOf(deal) < NonceOf(s)
    BY <2>1 DEF HookInv, HookVarsOK
  <2> QED
    BY <2>2, <2>5, <2>6 DEF NewDeals, NoLateInitiate, InitiateTx
<1>3. CASE InitiateConfirmed
  <2>1. /\ at[i] = "submitted" /\ deal' = awaited[i].slot /\ late' = late
        /\ Finished(i, "idle")
    BY <1>3 DEF InitiateConfirmed
  <2>2. at'[i] = "idle"
    BY <2>1 DEF Finished, TaskTypes
  <2> QED
    BY <2>1, <2>2 DEF NewDeals, NoLateInitiate, InitiateTx
<1>4. CASE InitiateFails
  <2>1. at'[i] = "idle" /\ deal' = deal
    BY <1>4 DEF InitiateFails, GivesUp, Finished, TaskTypes
  <2>2. \A tx \in late' : tx \in late \/ (tx = awaited[i] /\ awaited[i] # NoTx)
    BY <1>4 DEF InitiateFails, GivesUp, Throws
  <2>3. /\ deal # NoDeal => NonceOf(deal) \in Nat
        /\ deal \in MySlots \cup {NoDeal}
    BY Names, NonceAssumption DEF HookInv, HookVarsOK
  <2>4. ASSUME InitiateTx(awaited[i]), awaited[i] # NoTx PROVE awaited[i].slot # deal
    <3>1. at[i] = "submitted"
      BY <2>4 DEF TasksOK, InitiateOK, Resting, InitiateTx, LedgerTx
    <3>2. awaited[i].slot # NoDeal
      BY <2>4, Names DEF InitiateTx
    <3>3. CASE deal = NoDeal
      BY <3>2, <3>3
    <3>4. CASE deal # NoDeal
      BY <2>3, <3>1, <3>4 DEF NewDeals
    <3> QED
      BY <3>3, <3>4
  <2>5. NoLateInitiate(deal)'
    BY <2>1, <2>2, <2>4 DEF NewDeals, NoLateInitiate, InitiateTx
  <2> QED
    BY <2>1, <2>5 DEF NewDeals
<1>5. CASE PageLost
  <2>1. at'[i] = "idle" /\ deal' = NoDeal
    BY <1>5, Names DEF PageLost
  <2>2. NoLateInitiate(deal)'
    BY <2>1, Names DEF NoLateInitiate, InitiateTx
  <2> QED
    BY <2>1, <2>2 DEF NewDeals
<1> QED
  BY <1>1, <1>2, <1>3, <1>4, <1>5, DealSteps

(* Only an initiate opens a slot.                                            *)
LEMMA OnlyInitiateOpens ==
    ASSUME IInv, NEW tx, IsTx(tx), Perform(tx), NEW c \in MySlots,
           ~Exists(c), slot'[c].status # "Absent"
    PROVE  InitiateTx(tx) /\ tx.slot = c
<1> c \in Slots /\ slot \in [Slots -> SlotAccount]
  BY Names DEF IInv, TypeOK
<1>1. CASE tx.op = "initiate"
  <2>1. InitiateTx(tx) /\ tx.slot \in Slots /\ tx.slot = <<MyLedger, NonceOf(tx.slot)>>
    BY <1>1, Names DEF IsTx, LedgerTx, InitiateTx, RunTx, CancelTx, RunSteps
  <2>2. InitiateCommit(MyLedger, NonceOf(tx.slot), Peer, Mint, TheHash, tx.arg)
    BY <1>1 DEF Perform
  <2>3. tx.slot # c => slot'[c] = slot[c]
    BY <2>1, <2>2 DEF InitiateCommit
  <2> QED
    BY <2>1, <2>3 DEF Exists
<1>2. CASE tx.op # "initiate"
  <2>1. slot' = slot \/ \E s \in Slots : slot' = [slot EXCEPT ![s] = NoSlot]
    <3>1. CASE tx.op \in {"execute", "cancelInitiate", "cancelMutual"}
      <4>1. tx.slot \in Slots
        BY <3>1, Names DEF IsTx, LedgerTx, InitiateTx, RunTx, CancelTx, RunSteps
      <4>2. slot' = [slot EXCEPT ![tx.slot] = NoSlot]
        BY <3>1 DEF Perform, ExecuteSettleB, CancelInitiate, CancelMutual
      <4> QED
        BY <4>1, <4>2
    <3>2. CASE tx.op \notin {"execute", "cancelInitiate", "cancelMutual"}
      BY <1>2, <3>2 DEF Perform, CreateUserLedger, CreateProofData, WriteProofData
    <3> QED
      BY <3>1, <3>2
  <2>2. slot'[c].status = "Absent"
    BY <2>1, BlankAccounts DEF Exists
  <2> QED
    BY <2>2
<1> QED
  BY <1>1, <1>2

(* Nothing that is awaited or late opens slot c.                             *)
NoneOpens(c) ==
    /\ NoLateInitiate(c)
    /\ at["initiate"] = "submitted" => awaited["initiate"].slot # c

(* Nor will the next initiate, if c is the current deal, an older one or that *)
(* of a late transaction: its nonce is fresh.                                *)
LEMMA NoneOpensStays ==
    ASSUME HookInv, [HookNext]_allVars, NEW c \in MySlots, NoneOpens(c),
           \/ deal # NoDeal /\ NonceOf(c) <= NonceOf(deal)
           \/ \E tx \in late : tx.slot = c
    PROVE  NoneOpens(c)'
<1> DEFINE i == "initiate"
<1> TasksOK /\ TaskTypes /\ i \in Tasks /\ i \in {"initiate"}
  BY Names DEF HookInv, TasksOK
<1>0. InitiateTx(awaited[i]) /\ awaited[i] # NoTx => awaited[i].slot # c
  BY DEF NoneOpens, TasksOK, InitiateOK, Resting, InitiateTx, LedgerTx
<1> SUFFICES /\ \A tx \in late' : InitiateTx(tx) => tx.slot # c
             /\ at'[i] = "submitted" => awaited'[i].slot # c
  BY DEF NoneOpens, NoLateInitiate, InitiateTx
<1>1. CASE DealStays
  BY <1>1 DEF DealStays, NoneOpens, NoLateInitiate
<1>2. CASE SubmitInitiate
  <2>1. PICK s \in MySlots :
           /\ \A t \in MySlots :
                 Exists(t) \/ deal = t \/ (\E tx \in late : tx.slot = t)
                     => NonceOf(t) < NonceOf(s)
           /\ Send(i, Tx("initiate", s, now + InitWindow), "submitted")
    BY <1>2 DEF SubmitInitiate
  <2>2. /\ awaited'[i].slot = s /\ late' = late
    BY <2>1, Sent DEF Steps, Tx
  <2>3. \A t \in MySlots : NonceOf(t) \in Nat
    BY Names, NonceAssumption
  <2>4. deal # NoDeal => deal \in MySlots
    BY DEF HookInv, HookVarsOK
  <2>5. NonceOf(c) < NonceOf(s)
    BY <2>1, <2>3, <2>4
  <2>6. c # s
    BY <2>3, <2>5
  <2> QED
    BY <2>2, <2>6 DEF NoneOpens, NoLateInitiate
<1>3. CASE InitiateConfirmed
  <2>1. Finished(i, "idle") /\ late' = late
    BY <1>3 DEF InitiateConfirmed
  <2> QED
    BY <2>1 DEF Finished, TaskTypes, NoneOpens, NoLateInitiate
<1>4. CASE InitiateFails
  <2>1. at'[i] = "idle"
    BY <1>4 DEF InitiateFails, GivesUp, Finished, TaskTypes
  <2>2. \A tx \in late' : tx \in late \/ (tx = awaited[i] /\ awaited[i] # NoTx)
    BY <1>4 DEF InitiateFails, GivesUp, Throws
  <2> QED
    BY <1>0, <2>1, <2>2 DEF NoneOpens, NoLateInitiate
<1>5. CASE PageLost
  <2>1. at'[i] = "idle"
    BY <1>5, Names DEF PageLost
  <2>2. \A tx \in late' : tx \in late \/ \E t \in Tasks : tx = awaited[t] /\ awaited[t] # NoTx
    BY <1>5 DEF PageLost
  <2>3. \A t \in Tasks : InitiateTx(awaited[t]) /\ awaited[t] # NoTx => t = i
    BY Names DEF TasksOK, InitiateOK, RunOK, CancelOK, Resting, InitiateTx, LedgerTx,
       RunTx, CancelTx, RunSteps
  <2> QED
    BY <1>0, <2>1, <2>2, <2>3 DEF NoneOpens, NoLateInitiate
<1> QED
  BY <1>1, <1>2, <1>3, <1>4, <1>5, DealSteps

(* The current deal only gives way to a newer one, until the page is lost.    *)
LEMMA OlderStays ==
    ASSUME HookInv, NewDeals, [HookNext]_allVars, ~PageLost, NEW c \in MySlots,
           deal # NoDeal, NonceOf(c) <= NonceOf(deal)
    PROVE  deal' # NoDeal /\ NonceOf(c) <= NonceOf(deal')
<1> DEFINE i == "initiate"
<1>1. CASE DealStays \/ SubmitInitiate \/ InitiateFails
  BY <1>1 DEF DealStays, SubmitInitiate, InitiateFails
<1>2. CASE InitiateConfirmed
  <2>1. at[i] = "submitted" /\ deal' = awaited[i].slot /\ InitiateTx(awaited[i])
    BY <1>2 DEF InitiateConfirmed, HookInv, TasksOK, InitiateOK
  <2>2. deal' \in MySlots /\ NonceOf(deal) < NonceOf(deal')
    BY <2>1 DEF NewDeals, InitiateTx
  <2>3. \A s \in MySlots : NonceOf(s) \in Nat /\ s # NoDeal
    BY Names, NonceAssumption
  <2>4. deal \in MySlots
    BY DEF HookInv, HookVarsOK
  <2> QED
    BY <2>2, <2>3, <2>4
<1> QED
  BY <1>1, <1>2, DealSteps

(* A closed slot that nothing opens stays closed.                            *)
LEMMA ClosedStays ==
    ASSUME HookInv, [HookNext]_allVars, NEW c \in MySlots, ~Exists(c), NoneOpens(c)
    PROVE  slot'[c].status = "Absent"
<1> DEFINE i == "initiate"
<1> TasksOK
  BY DEF HookInv
<1>1. ASSUME NEW tx, IsTx(tx), Perform(tx), InitiateTx(tx) => tx.slot # c
      PROVE  slot'[c].status = "Absent"
  BY <1>1, OnlyInitiateOpens DEF HookInv
<1>2. CASE slot' = slot
  BY <1>2 DEF Exists
<1>3. ASSUME NEW t \in Tasks, Land(t)
      PROVE  slot'[c].status = "Absent"
  <2>1. IsTx(awaited[t])
    BY <1>3, Awaited DEF Land
  <2>2. InitiateTx(awaited[t]) => t = i /\ at[i] = "submitted"
    BY <1>3, Names DEF Land, TasksOK, InitiateOK, RunOK, CancelOK, Resting,
       InitiateTx, LedgerTx, RunTx, CancelTx, RunSteps
  <2>3. Perform(awaited[t]) \/ slot' = slot
    BY <1>3 DEF Land, vars
  <2> QED
    BY <1>1, <1>2, <2>1, <2>2, <2>3 DEF NoneOpens
<1>4. ASSUME NEW tx \in late, LandLate(tx)
      PROVE  slot'[c].status = "Absent"
  <2>1. Perform(tx) \/ slot' = slot
    BY <1>4 DEF LandLate, vars
  <2> QED
    BY <1>1, <1>2, <2>1 DEF TasksOK, NoneOpens, NoLateInitiate
<1>5. CASE Chain
  <2>1. slot' = slot \/ \E s \in MySlots : AcceptCommit(Peer, s)
    BY <1>5 DEF Chain, Tick
  <2>2. ASSUME NEW s \in MySlots, AcceptCommit(Peer, s)
        PROVE  slot'[c] = slot[c]
    BY <2>2 DEF AcceptCommit, CanAccept, Exists
  <2> QED
    BY <1>2, <2>1, <2>2 DEF Exists
<1> QED
  BY <1>2, <1>3, <1>4, <1>5, OthersLeaveAccounts DEF vars

(* An abort under way was clicked: nothing else changes what it awaits.       *)
LEMMA AbortIsClicked ==
    ASSUME HookInv, [HookNext]_allVars, ~ClickAbort, at'["cancel"] = "abort"
    PROVE  at["cancel"] = "abort" /\ awaited'["cancel"] = awaited["cancel"]
<1> DEFINE x == "cancel"
<1> TaskTypes /\ x \in Tasks /\ \A r \in Runs : r # x /\ r \in Tasks
  BY Names DEF HookInv, TasksOK
<1> "initiate" # x /\ "initiate" \in Tasks
  BY Names
<1>1. CASE \/ Chain \/ CountdownEnds \/ \E tx \in late : LandLate(tx)
           \/ \E s \in MySlots : Poll(s) \/ PollAnswered(s) \/ PollingEnds(s)
           \/ \E t \in Tasks : Land(t)
           \/ UNCHANGED allVars
  BY <1>1 DEF Chain, CountdownEnds, Poll, PollAnswered, PollingEnds, allVars, hookVars,
              taskVars, LandLate, Land
<1>2. ASSUME NEW t \in Tasks \ {x}, NEW tx, NEW step, Send(t, tx, step)
      PROVE  at'[x] = at[x] /\ awaited'[x] = awaited[x]
  BY <1>2 DEF Send, TaskTypes
<1>3. ASSUME NEW t \in Tasks \ {x}, NEW step, Finished(t, step)
      PROVE  at'[x] = at[x] /\ awaited'[x] = awaited[x]
  BY <1>3 DEF Finished, TaskTypes
<1>4. CASE \/ ClickInitiate \/ CreateLedger \/ LedgerCreated
           \/ SubmitInitiate \/ InitiateConfirmed \/ InitiateFails
  BY <1>2, <1>3, <1>4 DEF ClickInitiate, InitiateCalled, CreateLedger, LedgerCreated,
     SubmitInitiate, InitiateConfirmed, InitiateFails, GivesUp, TaskTypes
<1>5. ASSUME NEW r \in Runs, ClickExecute(r) \/ AutoExecute(r)
      PROVE  at'[x] = at[x] /\ awaited'[x] = awaited[x]
  BY <1>5 DEF ClickExecute, AutoExecute, StartRun, TaskTypes
<1>6. ASSUME NEW r \in Runs, Proved(r) \/ RunConfirmed(r) \/ RunFails(r)
      PROVE  at'[x] = at[x] /\ awaited'[x] = awaited[x]
  BY <1>2, <1>3, <1>6 DEF Proved, RunConfirmed, RunFails, GivesUp
<1>7. CASE ClickUnlock
  BY <1>7 DEF ClickUnlock, Send, TaskTypes, taskVars
<1>8. CASE CancelConfirmed \/ CancelFails
  BY <1>8 DEF CancelConfirmed, CancelFails, GivesUp, Finished, TaskTypes
<1>9. CASE PageLost
  BY <1>9 DEF PageLost
<1> QED
  BY <1>1, <1>4, <1>5, <1>6, <1>7, <1>8, <1>9 DEF HookNext

(* What an abort closes stays closed while it is awaited.                    *)
LEMMA HookKeepsAborts ==
    ASSUME HookInv, NewDeals, AbortsClose, [HookNext]_allVars
    PROVE  AbortsClose'
<1> DEFINE x == "cancel"
           i == "initiate"
           c == awaited[x].slot
<1> TasksOK /\ TaskTypes /\ x \in Tasks /\ i \in Tasks
  BY Names DEF HookInv, TasksOK
<1> SUFFICES ASSUME at'[x] = "abort"
             PROVE  /\ deal' # NoDeal /\ NonceOf(awaited'[x].slot) <= NonceOf(deal')
                    /\ \A tx \in late' : InitiateTx(tx) => tx.slot # awaited'[x].slot
                    /\ landed'[x] = "ok" => slot'[awaited'[x].slot].status = "Absent"
  BY DEF AbortsClose, Exists, NoLateInitiate, InitiateTx
<1>0. /\ \A s \in MySlots : NonceOf(s) \in Nat
      /\ deal # NoDeal => deal \in MySlots
  BY Names, NonceAssumption DEF HookInv, HookVarsOK
<1>1. CASE ClickAbort
  <2>1. PICK op \in {"cancelInitiate", "cancelMutual"} : Send(x, Tx(op, deal, 0), "abort")
    BY <1>1 DEF ClickAbort
  <2>2. awaited'[x].slot = deal /\ landed'[x] = "no" /\ late' = late
    BY <2>1, Sent DEF Steps, Tx
  <2>3. deal' = deal /\ deal # NoDeal
    BY <1>1 DEF ClickAbort
  <2>4. \A tx \in late' : InitiateTx(tx) => tx.slot # awaited'[x].slot
    BY <2>2 DEF NewDeals, NoLateInitiate
  <2> QED
    BY <1>0, <2>2, <2>3, <2>4
<1>2. CASE ~ClickAbort
  <2>1. at[x] = "abort" /\ awaited'[x] = awaited[x]
    BY <1>2, AbortIsClicked
  <2>2. /\ deal # NoDeal /\ NonceOf(c) <= NonceOf(deal)
        /\ \A tx \in late : InitiateTx(tx) => tx.slot # c
        /\ c \in MySlots
    BY <2>1 DEF AbortsClose, TasksOK, CancelOK, CancelTx, NoLateInitiate
  <2>3. NoneOpens(c)
    BY <1>0, <2>2 DEF NewDeals, NoneOpens, NoLateInitiate, TasksOK, InitiateOK, InitiateTx
  <2>4. /\ deal' # NoDeal /\ NonceOf(c) <= NonceOf(deal')
        /\ \A tx \in late' : InitiateTx(tx) => tx.slot # c
    <3>1. ~PageLost
      BY Names DEF PageLost
    <3>2. ASSUME NEW s \in MySlots, s = c PROVE NoneOpens(s)'
      BY <2>2, <2>3, <3>2, NoneOpensStays
    <3>3. \A tx \in late' : InitiateTx(tx) => tx.slot # c
      BY <2>2, <3>2 DEF NoneOpens, NoLateInitiate, InitiateTx
    <3> QED
      BY <2>2, <3>1, <3>3, OlderStays
  <2>5. ASSUME landed'[x] = "ok" PROVE slot'[c].status = "Absent"
    <3>1. CASE Land(x)
      <4>1. Perform(awaited[x]) /\ CancelTx(awaited[x])
        BY <2>1, <2>5, <3>1 DEF Land, TaskTypes, TasksOK, CancelOK
      <4>2. slot' = [slot EXCEPT ![c] = NoSlot] /\ c \in Slots
        BY <2>2, <4>1, Names DEF Perform, CancelTx, CancelInitiate, CancelMutual
      <4> QED
        BY <4>2, BlankAccounts DEF HookInv, IInv, TypeOK
    <3>2. CASE ~Land(x)
      <4>1. landed[x] = "ok"
        BY <2>5, <3>2, OnlyLandingLands
      <4>2. ~Exists(c)
        BY <2>1, <4>1 DEF AbortsClose
      <4> QED
        BY <2>2, <2>3, <4>2, ClosedStays
    <3> QED
      BY <3>1, <3>2
  <2> QED
    BY <2>1, <2>4, <2>5
<1> QED
  BY <1>1, <1>2

(* When the page comes to show a settlement or a cancellation.               *)
LEMMA ReportingSteps ==
    ASSUME HookInv, [HookNext]_allVars
    PROVE  /\ phase' = "SETTLED" /\ phase # "SETTLED" =>
                 \E r \in Runs : RunConfirmed(r) /\ at[r] = "execute"
           /\ phase' = "CANCELLED" /\ phase # "CANCELLED" =>
                 CancelConfirmed /\ at["cancel"] = "abort"
<1>1. CASE \/ Chain \/ \E tx \in late : LandLate(tx)
           \/ \E t \in Tasks : Land(t)
           \/ UNCHANGED allVars
  BY <1>1 DEF Chain, LandLate, Land, hookVars, allVars
<1>2. CASE ClickInitiate \/ CreateLedger \/ LedgerCreated \/ SubmitInitiate
           \/ InitiateConfirmed \/ InitiateFails \/ CountdownEnds
  BY <1>2 DEF ClickInitiate, InitiateCalled, CreateLedger, LedgerCreated,
              SubmitInitiate, InitiateConfirmed, InitiateFails, CountdownEnds, hookVars
<1>3. CASE \/ \E s \in MySlots : Poll(s) \/ PollAnswered(s) \/ PollingEnds(s)
           \/ \E r \in Runs : ClickExecute(r) \/ AutoExecute(r)
           \/ \E r \in Runs : Proved(r) \/ RunFails(r)
  BY <1>3 DEF Poll, PollAnswered, PollingEnds, ClickExecute, AutoExecute, StartRun,
              Proved, RunFails
<1>4. ASSUME NEW r \in Runs, RunConfirmed(r)
      PROVE  \/ phase' = phase
             \/ at[r] = "execute" /\ phase' = "SETTLED"
  BY <1>4 DEF RunConfirmed
<1>5. CASE ClickAbort \/ ClickUnlock \/ CancelFails \/ PageLost
  BY <1>5 DEF ClickAbort, ClickUnlock, CancelFails, PageLost, hookVars
<1>6. ASSUME CancelConfirmed, at["cancel"] # "abort"
      PROVE  phase' \in {"IDLE", phase}
  BY <1>6 DEF CancelConfirmed
<1>7. ASSUME CancelConfirmed, at["cancel"] = "abort"
      PROVE  phase' = "CANCELLED"
  BY <1>7 DEF CancelConfirmed
<1> QED
  BY <1>1, <1>2, <1>3, <1>4, <1>5, <1>6, <1>7 DEF HookNext

(* The settled panel is the panel of one phase.                              *)
LEMMA SettledPhase ==
    \A p \in Phases : VisualState(p) = "settled" <=> p = "SETTLED"
<1> SUFFICES ASSUME NEW p \in Phases
             PROVE  VisualState(p) = "settled" <=> p = "SETTLED"
  OBVIOUS
<1>1. CASE p \in {"IDLE", "CANCELLED", "GENERATING_HASH", "SUBMITTING_INITIATE",
                  "WAITING_ACCEPT", "TIMEOUT_EXPIRED"}
  BY <1>1 DEF VisualState
<1>2. CASE p \in {"BOTH_LOCKED", "GENERATING_PROOF", "SUBMITTING_EXECUTE"}
  BY <1>2 DEF VisualState
<1>3. CASE p \in {"SETTLED", "ERROR"}
  BY <1>3 DEF VisualState
<1> QED
  BY <1>1, <1>2, <1>3 DEF Phases

ReportInv == HookInv /\ SettlesWhenLanded /\ NewDeals /\ AbortsClose

(* The steps of the page report what is so, or what was refused.             *)
LEMMA ReportsStep ==
    ASSUME ReportInv, [HookNext]_allVars
    PROVE  /\ SettledShown' /\ ~SettledShown =>
                 \/ \E q \in records : q.id = SettlementRecord'
                 \/ landed[settlementTxs'] = "err"
           /\ phase' = "CANCELLED" /\ phase # "CANCELLED" =>
                 ~Exists(awaited["cancel"].slot) \/ landed["cancel"] = "err"
<1>1. ASSUME SettledShown', ~SettledShown, landed[settlementTxs'] # "err"
      PROVE  \E q \in records : q.id = SettlementRecord'
  <2>1. phase \in Phases /\ phase' \in Phases
    BY HookInvKept DEF ReportInv, HookInv, HookVarsOK
  <2>2. phase' = "SETTLED" /\ phase # "SETTLED"
    BY <1>1, <2>1, SettledPhase DEF SettledShown
  <2>3. PICK r \in Runs : RunConfirmed(r) /\ at[r] = "execute"
    BY <2>2, ReportingSteps DEF ReportInv
  <2>4. landed[r] \in {"ok", "err"} /\ settlementTxs' = r /\ captured' = captured
    BY <2>3 DEF RunConfirmed, Returns, Finished
  <2>5. landed[r] = "ok"
    BY <1>1, <2>4
  <2> QED
    BY <2>3, <2>4, <2>5 DEF ReportInv, SettlesWhenLanded, SettlementRecord
<1>2. ASSUME phase' = "CANCELLED", phase # "CANCELLED", landed["cancel"] # "err"
      PROVE  ~Exists(awaited["cancel"].slot)
  BY <1>2, ReportingSteps DEF ReportInv, CancelConfirmed, Returns, AbortsClose
<1> QED
  BY <1>1, <1>2

LEMMA ReportInvariant == HookSpec => []ReportInv
<1>1. HookInit => ReportInv
  <2> SUFFICES ASSUME HookInit PROVE ReportInv
    OBVIOUS
  <2>1. at["initiate"] = "idle" /\ at["cancel"] = "idle" /\ \A r \in Runs : at[r] = "idle"
    BY Names DEF HookInit
  <2>2. late = {}
    BY DEF HookInit
  <2> QED
    BY <2>1, <2>2, HookInitInv
       DEF ReportInv, SettlesWhenLanded, NewDeals, AbortsClose, NoLateInitiate
<1>2. ReportInv /\ [HookNext]_allVars => ReportInv'
  BY HookInvKept, HookKeepsRecords, HookKeepsNewDeals, HookKeepsAborts DEF ReportInv
<1> QED
  BY <1>1, <1>2, PTL DEF HookSpec

(* For any number of deals, executions, polls and transactions landing late,  *)
(* refused unnoticed or lost with the page: SETTLED is shown with the listed  *)
(* record on chain and CANCELLED with the slot closed, except where the very  *)
(* transaction that is reported was refused and the final check of            *)
(* sendAndConfirmPolling (send_tx.ts:61) returned its signature.             *)
THEOREM PageReportsTruly == HookSpec => FalseReportsOnlyInGap
<1>1. ReportInv /\ [HookNext]_allVars =>
        [/\ SettledShown' /\ ~SettledShown =>
               \/ \E q \in records : q.id = SettlementRecord'
               \/ landed[settlementTxs'] = "err"
         /\ phase' = "CANCELLED" /\ phase # "CANCELLED" =>
               ~Exists(awaited["cancel"].slot) \/ landed["cancel"] = "err"]_allVars
  BY ReportsStep
<1> QED
  BY <1>1, ReportInvariant, PTL DEF HookSpec, FalseReportsOnlyInGap

-----------------------------------------------------------------------------
(* The randomness of a settlement *)

(* A run captures its deal once.                                             *)
LEMMA CapturedStays ==
    ASSUME HookInv, [HookNext]_allVars, NEW r \in Runs, captured[r] # NoDeal
    PROVE  captured'[r] = captured[r]
<1> TasksOK /\ TaskTypes
  BY DEF HookInv, TasksOK
<1>1. CASE \/ Chain \/ CountdownEnds \/ \E tx \in late : LandLate(tx)
           \/ \E s \in MySlots : Poll(s) \/ PollAnswered(s) \/ PollingEnds(s)
           \/ \E t \in Tasks : Land(t)
           \/ UNCHANGED allVars
  BY <1>1 DEF Chain, CountdownEnds, Poll, PollAnswered, PollingEnds, allVars, taskVars,
              LandLate, Land
<1>2. CASE \/ ClickInitiate \/ CreateLedger \/ LedgerCreated
           \/ SubmitInitiate \/ InitiateConfirmed \/ InitiateFails
           \/ ClickAbort \/ ClickUnlock \/ CancelConfirmed \/ CancelFails
           \/ PageLost
  BY <1>2 DEF ClickInitiate, CreateLedger, LedgerCreated, SubmitInitiate, InitiateConfirmed,
     InitiateFails, ClickAbort, ClickUnlock, CancelConfirmed, CancelFails, PageLost, Send,
     Finished, GivesUp, taskVars
<1>3. ASSUME NEW q \in Runs, Proved(q) \/ RunConfirmed(q) \/ RunFails(q)
      PROVE  captured' = captured
  BY <1>3 DEF Proved, RunConfirmed, RunFails, Send, Finished, GivesUp
<1>4. ASSUME NEW q \in Runs, ClickExecute(q) \/ AutoExecute(q)
      PROVE  captured'[r] = captured[r]
  <2>1. captured' = [captured EXCEPT ![q] = deal] /\ at[q] = "idle"
    BY <1>4 DEF ClickExecute, AutoExecute, StartRun
  <2>2. captured[q] = NoDeal
    BY <2>1 DEF TasksOK, RunOK
  <2> QED
    BY <2>1, <2>2 DEF TaskTypes
<1> QED
  BY <1>1, <1>2, <1>3, <1>4 DEF HookNext

(* A shared deal stays shared.                                               *)
LEMMA SharedStays ==
    ASSUME HookInv, [HookNext]_allVars, NEW s \in MySlots, Shared(s)
    PROVE  Shared(s)'
<1>1. PICK r \in Runs, q \in Runs : r # q /\ captured[r] = s /\ captured[q] = s
  BY DEF Shared
<1>2. captured'[r] = s /\ captured'[q] = s
  BY <1>1, CapturedStays, Names
<1> QED
  BY <1>1, <1>2 DEF Shared

(* No proof account is closed.                                               *)
LEMMA AccountsStay ==
    ASSUME [Next]_vars
    PROVE  proofAccounts \subseteq proofAccounts'
<1>1. ASSUME NEW s \in Slots, Execute(s)
      PROVE  proofAccounts \subseteq proofAccounts'
  BY <1>1 DEF Execute, ExecuteSettleB
<1>2. ASSUME NEW s \in Slots, WriteChunk(s) \/ CancelInitiate(s) \/ CancelMutual(s)
      PROVE  proofAccounts \subseteq proofAccounts'
  BY <1>2 DEF WriteChunk, WriteProofData, CancelInitiate, CancelMutual
<1>3. ASSUME NEW a \in Ledgers, CreateUserLedger(a) \/ Initiate(a)
      PROVE  proofAccounts \subseteq proofAccounts'
  BY <1>3 DEF CreateUserLedger, Initiate, InitiateCommit
<1>4. ASSUME NEW u \in Users, NEW s \in Slots, AcceptCommit(u, s)
      PROVE  proofAccounts \subseteq proofAccounts'
  BY <1>4 DEF AcceptCommit
<1>5. CASE InitializePool \/ Tick \/ (\E n \in ProofNonces : CreateProofData(n)) \/ UNCHANGED vars
  BY <1>5 DEF InitializePool, Tick, CreateProofData, vars
<1> QED
  BY <1>1, <1>2, <1>3, <1>4, <1>5 DEF Next

(* Chunk c of the proof account of slot s holds a ciphertext of run r.        *)
Wrote(s, c, r) == NonceOf(s) \in proofAccounts /\ proofData[NonceOf(s)][c] = r

(* Or nobody can settle s with it, or s is another run's, too.               *)
WroteOrElse(s, c, r) == Wrote(s, c, r) \/ ~Exists(s) \/ Shared(s)

(* The deal of a run under way is the current one or an older one, and         *)
(* nothing opens its slot again.                                             *)
RunDeals ==
    \A r \in Runs : at[r] \in RunSteps \cup {"proving"} =>
        /\ deal # NoDeal /\ NonceOf(captured[r]) <= NonceOf(deal)
        /\ NoneOpens(captured[r])

(* A run that has gone past the transactions with its ciphertexts has them in *)
(* the proof account: a write is refused only when the slot is closed.        *)
RunsWrote ==
    \A r \in Runs :
        /\ at[r] \in RunSteps /\ (at[r] = "create" => landed[r] # "no")
             => NonceOf(captured[r]) \in proofAccounts
        /\ at[r] \in {"chunk2", "chunk3", "execute"} \/ (at[r] = "chunk1" /\ landed[r] # "no")
             => WroteOrElse(captured[r], 1, r)
        /\ at[r] = "execute" \/ (at[r] = "chunk3" /\ landed[r] # "no")
             => WroteOrElse(captured[r], 3, r)

(* So has one whose execution may still land.                                *)
LateWrote ==
    \A tx \in late : tx.op = "execute" =>
        /\ WroteOrElse(tx.slot, 1, tx.arg) /\ WroteOrElse(tx.slot, 3, tx.arg)
        /\ NoneOpens(tx.slot)

(* What a run has written stays: an account is created once, and another run  *)
(* that writes to it has taken up the same deal.                             *)
LEMMA PerformKeepsWritten ==
    ASSUME HookInv, NEW tx, IsTx(tx), Perform(tx),
           NEW r \in Runs, NEW s \in MySlots, captured[r] = s, NEW c \in {1, 3},
           Wrote(s, c, r)
    PROVE  Wrote(s, c, r)' \/ Shared(s)
<1> DEFINE n == NonceOf(s)
<1>1. /\ n \in Nonces /\ n \in proofAccounts /\ proofData[n][c] = r
      /\ proofData \in [Nonces -> [0..5 -> Payloads]]
  BY Names DEF Wrote, HookInv, IInv, TypeOK
<1> SUFFICES ASSUME ~Shared(s)
             PROVE  n \in proofAccounts' /\ proofData'[n][c] = r
  BY DEF Wrote
<1>2. CASE tx.op = "create"
  <2>1. CreateProofData(NonceOf(tx.slot))
    BY <1>2 DEF Perform
  <2> QED
    BY <1>1, <2>1 DEF CreateProofData
<1>3. ASSUME NEW d \in 0..5, NEW p, tx.op \in {"chunk0", "chunk1", "chunk2", "chunk3"},
             WriteProofData(Me, tx.slot, d, p), d \in {1, 3} => p = tx.arg
      PROVE  n \in proofAccounts' /\ proofData'[n][c] = r
  <2>1. RunTx(tx)
    BY <1>3 DEF IsTx, LedgerTx, InitiateTx, CancelTx
  <2>2. CASE NonceOf(tx.slot) = n /\ d = c
    <3>1. tx.slot = s
      BY <2>1, <2>2, Names DEF RunTx
    <3>2. tx.arg = r
      BY <2>1, <3>1 DEF RunTx, Shared
    <3> QED
      BY <1>1, <1>3, <2>2, <3>2 DEF WriteProofData
  <2>3. CASE NonceOf(tx.slot) # n \/ d # c
    BY <1>1, <1>3, <2>3 DEF WriteProofData
  <2> QED
    BY <2>2, <2>3
<1>4. CASE tx.op \in {"chunk0", "chunk2"}
  <2>1. PICK d \in {0, 2} : WriteProofData(Me, tx.slot, d, TheHash)
    BY <1>4 DEF Perform
  <2> QED
    BY <1>3, <1>4, <2>1
<1>5. CASE tx.op \in {"chunk1", "chunk3"}
  <2>1. PICK d \in {1, 3} : WriteProofData(Me, tx.slot, d, tx.arg)
    BY <1>5 DEF Perform
  <2> QED
    BY <1>3, <1>5, <2>1
<1>6. CASE tx.op \notin {"create", "chunk0", "chunk1", "chunk2", "chunk3"}
  <2>1. proofData' = proofData /\ proofAccounts' = proofAccounts
    BY <1>6 DEF Perform, CreateUserLedger, InitiateCommit, ExecuteSettleB, CancelInitiate,
                CancelMutual
  <2> QED
    BY <1>1, <2>1
<1> QED
  BY <1>2, <1>4, <1>5, <1>6

LEMMA HookKeepsWritten ==
    ASSUME HookInv, [HookNext]_allVars,
           NEW r \in Runs, NEW s \in MySlots, captured[r] = s, NEW c \in {1, 3},
           Wrote(s, c, r)
    PROVE  Wrote(s, c, r)' \/ Shared(s)
<1>1. ASSUME UNCHANGED <<proofAccounts, proofData>> PROVE Wrote(s, c, r)' \/ Shared(s)
  BY <1>1 DEF Wrote
<1>2. CASE Chain
  BY <1>1, <1>2 DEF Chain, Tick, AcceptCommit
<1>3. ASSUME NEW t \in Tasks, Land(t) PROVE Wrote(s, c, r)' \/ Shared(s)
  <2>1. IsTx(awaited[t])
    BY <1>3, Awaited DEF Land, HookInv
  <2>2. CASE Perform(awaited[t])
    BY <2>1, <2>2, PerformKeepsWritten
  <2>3. CASE UNCHANGED vars
    BY <1>1, <2>3 DEF vars
  <2> QED
    BY <1>3, <2>2, <2>3 DEF Land
<1>4. ASSUME NEW tx \in late, LandLate(tx) PROVE Wrote(s, c, r)' \/ Shared(s)
  <2>1. IsTx(tx)
    BY DEF HookInv, TasksOK
  <2>2. CASE Perform(tx)
    BY <2>1, <2>2, PerformKeepsWritten
  <2>3. CASE UNCHANGED vars
    BY <1>1, <2>3 DEF vars
  <2> QED
    BY <1>4, <2>2, <2>3 DEF LandLate
<1>5. CASE UNCHANGED vars
  BY <1>1, <1>5 DEF vars
<1> QED
  BY <1>2, <1>3, <1>4, <1>5, OthersLeaveAccounts

LEMMA WroteStays ==
    ASSUME HookInv, [HookNext]_allVars,
           NEW r \in Runs, NEW s \in MySlots, captured[r] = s, NEW c \in {1, 3},
           WroteOrElse(s, c, r), NoneOpens(s)
    PROVE  WroteOrElse(s, c, r)'
<1>1. CASE Wrote(s, c, r)
  BY <1>1, HookKeepsWritten, SharedStays DEF WroteOrElse, Wrote
<1>2. CASE ~Exists(s)
  BY <1>2, ClosedStays DEF WroteOrElse, Exists
<1>3. CASE Shared(s)
  BY <1>3, SharedStays DEF WroteOrElse
<1> QED
  BY <1>1, <1>2, <1>3 DEF WroteOrElse

(* A run moves by its own steps, and when the page is lost.                  *)
LEMMA RunActs ==
    ASSUME HookInv, [HookNext]_allVars, NEW r \in Runs
    PROVE  \/ /\ at'[r] = at[r] /\ awaited'[r] = awaited[r]
              /\ captured'[r] = captured[r]
           \/ ClickExecute(r) \/ AutoExecute(r)
           \/ Proved(r) \/ RunConfirmed(r) \/ RunFails(r) \/ PageLost
<1> TaskTypes /\ r \in Tasks /\ "initiate" \in Tasks \ {r} /\ "cancel" \in Tasks \ {r}
  BY Names DEF HookInv, TasksOK
<1>1. CASE \/ Chain \/ CountdownEnds \/ \E tx \in late : LandLate(tx)
           \/ \E s \in MySlots : Poll(s) \/ PollAnswered(s) \/ PollingEnds(s)
           \/ \E t \in Tasks : Land(t)
           \/ UNCHANGED allVars
  BY <1>1 DEF Chain, CountdownEnds, Poll, PollAnswered, PollingEnds, allVars, hookVars,
              taskVars, LandLate, Land
<1>2. ASSUME NEW t \in Tasks \ {r}, NEW tx, NEW step, Send(t, tx, step)
      PROVE  at'[r] = at[r] /\ awaited'[r] = awaited[r] /\ captured'[r] = captured[r]
  BY <1>2 DEF Send, TaskTypes
<1>3. ASSUME NEW t \in Tasks \ {r}, NEW step, Finished(t, step)
      PROVE  at'[r] = at[r] /\ awaited'[r] = awaited[r] /\ captured'[r] = captured[r]
  BY <1>3 DEF Finished, TaskTypes
<1>4. CASE \/ ClickInitiate \/ CreateLedger \/ LedgerCreated
           \/ SubmitInitiate \/ InitiateConfirmed \/ InitiateFails
  BY <1>2, <1>3, <1>4 DEF ClickInitiate, InitiateCalled, CreateLedger, LedgerCreated,
     SubmitInitiate, InitiateConfirmed, InitiateFails, GivesUp, TaskTypes
<1>5. ASSUME NEW q \in Runs \ {r}, ClickExecute(q) \/ AutoExecute(q)
      PROVE  at'[r] = at[r] /\ awaited'[r] = awaited[r] /\ captured'[r] = captured[r]
  BY <1>5 DEF ClickExecute, AutoExecute, StartRun, TaskTypes
<1>6. ASSUME NEW q \in Runs \ {r}, Proved(q) \/ RunConfirmed(q) \/ RunFails(q)
      PROVE  at'[r] = at[r] /\ awaited'[r] = awaited[r] /\ captured'[r] = captured[r]
  <2>1. q \in Tasks \ {r}
    BY Names
  <2> QED
    BY <1>2, <1>3, <1>6, <2>1 DEF Proved, RunConfirmed, RunFails, GivesUp
<1>7. CASE ClickAbort \/ ClickUnlock \/ CancelConfirmed \/ CancelFails
  BY <1>2, <1>3, <1>7 DEF ClickAbort, ClickUnlock, CancelConfirmed, CancelFails,
     GivesUp, taskVars
<1> QED
  BY <1>1, <1>4, <1>5, <1>6, <1>7 DEF HookNext

(* How a run under way moves: it stays at its transaction, begins with the    *)
(* first or, the last having an answer, goes on to the next.                 *)
LEMMA RunMoves ==
    ASSUME HookInv, [HookNext]_allVars, NEW r \in Runs, at'[r] \in RunSteps
    PROVE  /\ captured'[r] = captured[r] /\ captured[r] \in MySlots
           /\ \/ at'[r] = at[r] /\ awaited'[r] = awaited[r]
              \/ at'[r] = "create" /\ landed'[r] = "no"
              \/ at'[r] = "chunk0" /\ NonceOf(captured[r]) \in proofAccounts
              \/ at'[r] = NextStep(at[r]) /\ landed[r] # "no" /\ at[r] \in RunSteps
<1> TasksOK /\ TaskTypes /\ r \in Tasks
  BY Names DEF HookInv, TasksOK
<1>1. CASE at'[r] = at[r] /\ awaited'[r] = awaited[r] /\ captured'[r] = captured[r]
  BY <1>1 DEF TasksOK, RunOK, RunTx
<1>2. ~(ClickExecute(r) \/ AutoExecute(r) \/ RunFails(r) \/ PageLost)
  BY DEF ClickExecute, AutoExecute, StartRun, RunFails, GivesUp, Finished, PageLost,
         TaskTypes, RunSteps
<1>3. CASE Proved(r)
  BY <1>3 DEF Proved, Send, TaskTypes, TasksOK, RunOK
<1>4. CASE RunConfirmed(r)
  <2>1. at[r] \in RunSteps /\ captured[r] \in MySlots /\ landed[r] # "no"
    BY <1>4 DEF RunConfirmed, Returns, TasksOK, RunOK, Resting, RunTx
  <2>2. at[r] # "execute"
    BY <1>4 DEF RunConfirmed, Finished, TaskTypes, RunSteps
  <2>3. at'[r] = NextStep(at[r]) /\ captured' = captured
    BY <1>4, <2>2 DEF RunConfirmed, Send, TaskTypes
  <2> QED
    BY <2>1, <2>3
<1> QED
  BY <1>1, <1>2, <1>3, <1>4, RunActs

(* The deal of a run under way stays behind the current one.                 *)
LEMMA HookKeepsRunDeals ==
    ASSUME HookInv, NewDeals, RunDeals, [HookNext]_allVars
    PROVE  RunDeals'
<1> TasksOK /\ TaskTypes
  BY DEF HookInv, TasksOK
<1> SUFFICES ASSUME NEW r \in Runs, at'[r] \in RunSteps \cup {"proving"}
             PROVE  /\ deal' # NoDeal /\ NonceOf(captured'[r]) <= NonceOf(deal')
                    /\ NoneOpens(captured[r])'
  BY DEF RunDeals, NoneOpens, NoLateInitiate, InitiateTx
<1>0. /\ \A s \in MySlots : NonceOf(s) \in Nat /\ s # NoDeal
      /\ deal # NoDeal => deal \in MySlots
      /\ r \in Tasks
  BY Names, NonceAssumption DEF HookInv, HookVarsOK
<1>1. ~PageLost
  BY <1>0 DEF PageLost, RunSteps
<1>2. CASE at[r] \in RunSteps \cup {"proving"}
  <2>1. captured[r] \in MySlots
    BY <1>2 DEF TasksOK, RunOK, RunTx
  <2>2. captured'[r] = captured[r]
    BY <1>0, <2>1, CapturedStays
  <2>3. /\ deal # NoDeal /\ NonceOf(captured[r]) <= NonceOf(deal)
        /\ NoneOpens(captured[r])
    BY <1>2 DEF RunDeals
  <2>4. deal' # NoDeal /\ NonceOf(captured[r]) <= NonceOf(deal')
    BY <1>1, <2>1, <2>3, OlderStays
  <2>5. ASSUME NEW c \in MySlots, c = captured[r] PROVE NoneOpens(c)'
    BY <2>3, <2>5, NoneOpensStays
  <2>6. NoneOpens(captured[r])'
    BY <2>1, <2>2, <2>5 DEF NoneOpens, NoLateInitiate, InitiateTx
  <2> QED
    BY <2>2, <2>4, <2>6
<1>3. CASE at[r] \notin RunSteps \cup {"proving"}
  <2>1. ClickExecute(r) \/ AutoExecute(r)
    <3>1. ~(Proved(r) \/ RunConfirmed(r))
      BY <1>3 DEF Proved, RunConfirmed, TasksOK, RunOK, Resting
    <3>2. ~RunFails(r)
      BY <1>0 DEF RunFails, GivesUp, Finished, TaskTypes, RunSteps
    <3> QED
      BY <1>1, <1>3, <3>1, <3>2, RunActs
  <2>2. /\ deal # NoDeal /\ captured'[r] = deal /\ deal' = deal
        /\ UNCHANGED <<late, awaited>> /\ at'["initiate"] = at["initiate"]
    BY <2>1, Names DEF ClickExecute, AutoExecute, StartRun, TaskTypes
  <2>3. NoneOpens(deal)
    BY <1>0, <2>2 DEF NewDeals, NoneOpens, TasksOK, InitiateOK, InitiateTx
  <2>4. NoneOpens(captured[r])'
    BY <2>2, <2>3 DEF NoneOpens, NoLateInitiate, InitiateTx
  <2> QED
    BY <1>0, <2>2, <2>4
<1> QED
  BY <1>2, <1>3

(* A run's transaction that lands leaves what RunsWrote says of it.           *)
LEMMA RunLands ==
    ASSUME HookInv, RunsWrote, NEW r \in Runs, Land(r)
    PROVE  /\ at[r] = "create" => NonceOf(captured[r]) \in proofAccounts'
           /\ at[r] = "chunk1" => WroteOrElse(captured[r], 1, r)'
           /\ at[r] = "chunk3" => WroteOrElse(captured[r], 3, r)'
           /\ captured' = captured
<1> TasksOK /\ TaskTypes
  BY DEF HookInv, TasksOK
<1>1. /\ awaited[r].op = at[r] /\ awaited[r].arg = r /\ awaited[r].slot = captured[r]
      /\ captured[r] \in MySlots /\ at[r] \in RunSteps
  BY DEF Land, TasksOK, RunOK, RunTx, Resting
<1>2. /\ Perform(awaited[r]) \/ (Refused(awaited[r]) /\ UNCHANGED vars)
      /\ captured' = captured
  BY DEF Land
<1> DEFINE s == captured[r]
           n == NonceOf(s)
<1>3. /\ n \in Nonces /\ proofData \in [Nonces -> [0..5 -> Payloads]]
      /\ Me = Initiator(s)
  BY <1>1, Names DEF HookInv, IInv, TypeOK, MySlots, MyLedger, Initiator, LedgerA
<1>4. CASE at[r] = "create"
  <2>1. CreateProofData(n) \/ (n \in proofAccounts /\ UNCHANGED vars)
    BY <1>1, <1>2, <1>4 DEF Perform, Refused
  <2> QED
    BY <1>2, <1>4, <2>1 DEF CreateProofData, vars
<1>5. ASSUME NEW c \in {1, 3}, at[r] = IF c = 1 THEN "chunk1" ELSE "chunk3"
      PROVE  WroteOrElse(s, c, r)' /\ at[r] # "create"
  <2>1. \/ WriteProofData(Me, s, c, r)
        \/ ~CanWrite(Me, s) /\ UNCHANGED vars
    <3>1. CASE c = 1
      BY <1>1, <1>2, <1>5, <3>1 DEF Perform, Refused
    <3>2. CASE c = 3
      BY <1>1, <1>2, <1>5, <3>2 DEF Perform, Refused
    <3> QED
      BY <3>1, <3>2
  <2>2. ASSUME WriteProofData(Me, s, c, r) PROVE Wrote(s, c, r)'
    BY <1>2, <1>3, <2>2 DEF WriteProofData, CanWrite, Wrote
  <2>3. ASSUME ~CanWrite(Me, s), UNCHANGED vars PROVE ~Exists(s)'
    <3>1. n \in proofAccounts
      BY <1>1, <1>5 DEF RunsWrote
    <3> QED
      BY <1>2, <1>3, <2>3, <3>1 DEF CanWrite, Exists, vars
  <2> QED
    BY <1>5, <2>1, <2>2, <2>3 DEF WroteOrElse
<1> QED
  BY <1>2, <1>4, <1>5

(* The chunks of a run are in the account from the landing of their writes on. *)
LEMMA HookKeepsRunsWrote ==
    ASSUME HookInv, RunDeals, RunsWrote, [HookNext]_allVars
    PROVE  RunsWrote'
<1> TasksOK /\ TaskTypes
  BY DEF HookInv, TasksOK
<1> SUFFICES ASSUME NEW r \in Runs, at'[r] \in RunSteps
             PROVE  /\ (at'[r] = "create" => landed'[r] # "no")
                       => NonceOf(captured'[r]) \in proofAccounts'
                    /\ at'[r] \in {"chunk2", "chunk3", "execute"}
                         \/ (at'[r] = "chunk1" /\ landed'[r] # "no")
                       => WroteOrElse(captured[r], 1, r)' /\ captured'[r] = captured[r]
                    /\ at'[r] = "execute" \/ (at'[r] = "chunk3" /\ landed'[r] # "no")
                       => WroteOrElse(captured[r], 3, r)' /\ captured'[r] = captured[r]
  BY DEF RunsWrote, WroteOrElse, Wrote, Shared, Exists, RunSteps
<1>0. r \in Tasks
  BY Names
<1>1. /\ captured'[r] = captured[r] /\ captured[r] \in MySlots
      /\ \/ at'[r] = at[r] /\ awaited'[r] = awaited[r]
         \/ at'[r] = "create" /\ landed'[r] = "no"
         \/ at'[r] = "chunk0" /\ NonceOf(captured[r]) \in proofAccounts
         \/ at'[r] = NextStep(at[r]) /\ landed[r] # "no" /\ at[r] \in RunSteps
  BY RunMoves
<1>2. proofAccounts \subseteq proofAccounts'
  BY HookInvKept, AccountsStay
<1>3. ASSUME at[r] \in RunSteps, NEW c \in {1, 3}, WroteOrElse(captured[r], c, r)
      PROVE  WroteOrElse(captured[r], c, r)'
  <2>1. NoneOpens(captured[r])
    BY <1>3 DEF RunDeals
  <2>2. ASSUME NEW s \in MySlots, s = captured[r] PROVE WroteOrElse(s, c, r)'
    BY <1>3, <2>1, <2>2, WroteStays
  <2>3. PICK s \in MySlots : s = captured[r]
    BY <1>1
  <2>4. captured[r] = s /\ captured'[r] = s
    BY <1>1, <2>3
  <2> QED
    BY <2>2, <2>3, <2>4 DEF WroteOrElse, Wrote, Shared, Exists
<1>4. landed'[r] # "no" => at'[r] = at[r] /\ (landed[r] = landed'[r] \/ Land(r))
  BY <1>0, OnlyLandingLands
<1>5. ASSUME at'[r] = "create" => landed'[r] # "no"
      PROVE  NonceOf(captured'[r]) \in proofAccounts'
  <2>1. CASE at'[r] = "chunk0" /\ NonceOf(captured[r]) \in proofAccounts
    BY <1>1, <1>2, <2>1
  <2>2. CASE at[r] \in RunSteps /\ (at[r] = "create" => landed[r] # "no")
    BY <1>1, <1>2, <2>2 DEF RunsWrote
  <2>3. CASE /\ at[r] = "create" /\ landed[r] = "no"
             /\ ~(at'[r] = "chunk0" /\ NonceOf(captured[r]) \in proofAccounts)
    <3>1. at'[r] = "create" /\ Land(r)
      BY <1>1, <1>4, <1>5, <2>3 DEF NextStep
    <3> QED
      BY <1>1, <2>3, <3>1, RunLands
  <2> QED
    BY <1>1, <1>5, <2>1, <2>2, <2>3
<1>6. ASSUME at'[r] \in {"chunk2", "chunk3", "execute"}
                \/ (at'[r] = "chunk1" /\ landed'[r] # "no")
      PROVE  WroteOrElse(captured[r], 1, r)'
  <2>1. CASE \/ at[r] \in {"chunk2", "chunk3", "execute"}
             \/ at[r] = "chunk1" /\ landed[r] # "no"
    BY <1>3, <2>1 DEF RunsWrote, RunSteps
  <2>2. CASE ~(\/ at[r] \in {"chunk2", "chunk3", "execute"}
               \/ at[r] = "chunk1" /\ landed[r] # "no")
    <3>1. at[r] = "chunk1" /\ Land(r)
      BY <1>1, <1>4, <1>6, <2>2 DEF NextStep, RunSteps
    <3> QED
      BY <3>1, RunLands
  <2> QED
    BY <2>1, <2>2
<1>7. ASSUME at'[r] = "execute" \/ (at'[r] = "chunk3" /\ landed'[r] # "no")
      PROVE  WroteOrElse(captured[r], 3, r)'
  <2>1. CASE at[r] = "execute" \/ (at[r] = "chunk3" /\ landed[r] # "no")
    BY <1>3, <2>1 DEF RunsWrote, RunSteps
  <2>2. CASE ~(at[r] = "execute" \/ (at[r] = "chunk3" /\ landed[r] # "no"))
    <3>1. at[r] = "chunk3" /\ Land(r)
      BY <1>1, <1>4, <1>7, <2>2 DEF NextStep, RunSteps
    <3> QED
      BY <3>1, RunLands
  <2> QED
    BY <2>1, <2>2
<1> QED
  BY <1>1, <1>5, <1>6, <1>7

(* An execution given up on was awaited by its run, after its chunks.         *)
LEMMA HookKeepsLateWrote ==
    ASSUME HookInv, RunDeals, RunsWrote, LateWrote, [HookNext]_allVars
    PROVE  LateWrote'
<1> TasksOK
  BY DEF HookInv
<1>2. ASSUME NEW tx \in late, tx.op = "execute"
      PROVE  /\ RunTx(tx) /\ NoneOpens(tx.slot)
             /\ WroteOrElse(tx.slot, 1, tx.arg) /\ WroteOrElse(tx.slot, 3, tx.arg)
  BY <1>2 DEF LateWrote, TasksOK, IsTx, LedgerTx, InitiateTx, CancelTx
<1>3. ASSUME NEW t \in Tasks, awaited[t] # NoTx, awaited[t].op = "execute"
      PROVE  LET tx == awaited[t]
             IN  /\ RunTx(tx) /\ NoneOpens(tx.slot)
                 /\ WroteOrElse(tx.slot, 1, tx.arg) /\ WroteOrElse(tx.slot, 3, tx.arg)
                 /\ deal # NoDeal /\ NonceOf(tx.slot) <= NonceOf(deal)
  <2>1. t \in Runs /\ RunTx(awaited[t]) /\ at[t] = "execute" /\ awaited[t].arg = t
    BY <1>3, Names DEF TasksOK, InitiateOK, RunOK, CancelOK, Resting,
       InitiateTx, LedgerTx, RunTx, CancelTx
  <2>2. awaited[t].slot = captured[t] /\ at[t] \in RunSteps
    BY <2>1 DEF RunTx, RunSteps
  <2> QED
    BY <2>1, <2>2 DEF RunsWrote, RunDeals
<1>4. ASSUME NEW t \in Tasks, Throws(t), NEW step, GivesUp(t, step)
      PROVE  \A tx \in late' : tx \in late \/ (tx = awaited[t] /\ awaited[t] # NoTx)
  BY <1>4 DEF GivesUp, Throws
<1>5. \A tx \in late' : \/ tx \in late
                        \/ \E t \in Tasks : tx = awaited[t] /\ awaited[t] # NoTx
  <2>1. CASE \/ Chain \/ \E t \in Tasks : Land(t)
             \/ \E tx \in late : LandLate(tx)
             \/ ClickInitiate \/ CreateLedger \/ LedgerCreated
             \/ SubmitInitiate \/ InitiateConfirmed \/ CountdownEnds
    BY <2>1 DEF Chain, Land, LandLate, taskVars, ClickInitiate, CreateLedger, LedgerCreated,
       SubmitInitiate, InitiateConfirmed, CountdownEnds, Send
  <2>2. CASE \/ \E s \in MySlots : Poll(s) \/ PollAnswered(s) \/ PollingEnds(s)
             \/ \E r \in Runs : ClickExecute(r) \/ AutoExecute(r)
             \/ \E r \in Runs : Proved(r) \/ RunConfirmed(r)
             \/ ClickAbort \/ ClickUnlock \/ CancelConfirmed
             \/ UNCHANGED allVars
    BY <2>2 DEF Poll, PollAnswered, PollingEnds, taskVars, ClickExecute, AutoExecute,
       StartRun, Proved, RunConfirmed, ClickAbort, ClickUnlock, CancelConfirmed, Send, allVars
  <2>3. CASE InitiateFails \/ CancelFails \/ \E r \in Runs : RunFails(r)
    BY <2>3, <1>4, Names DEF InitiateFails, CancelFails, RunFails
  <2>4. CASE PageLost
    BY <2>4 DEF PageLost
  <2> QED
    BY <2>1, <2>2, <2>3, <2>4 DEF HookNext
<1>6. ASSUME NEW tx, RunTx(tx), NoneOpens(tx.slot),
             WroteOrElse(tx.slot, 1, tx.arg), WroteOrElse(tx.slot, 3, tx.arg),
             \/ tx \in late
             \/ deal # NoDeal /\ NonceOf(tx.slot) <= NonceOf(deal)
      PROVE  /\ WroteOrElse(tx.slot, 1, tx.arg)' /\ WroteOrElse(tx.slot, 3, tx.arg)'
             /\ NoneOpens(tx.slot)'
  <2>1. tx.slot \in MySlots /\ tx.arg \in Runs /\ captured[tx.arg] = tx.slot
    BY <1>6 DEF RunTx
  <2>2. NoneOpens(tx.slot)'
    BY <1>6, <2>1, NoneOpensStays
  <2>3. WroteOrElse(tx.slot, 1, tx.arg)' /\ WroteOrElse(tx.slot, 3, tx.arg)'
    BY <1>6, <2>1, WroteStays
  <2> QED
    BY <2>2, <2>3
<1> SUFFICES ASSUME NEW tx \in late', tx.op = "execute"
             PROVE  /\ WroteOrElse(tx.slot, 1, tx.arg)' /\ WroteOrElse(tx.slot, 3, tx.arg)'
                    /\ NoneOpens(tx.slot)'
  BY DEF LateWrote, WroteOrElse, Wrote, Shared, Exists, NoneOpens, NoLateInitiate, InitiateTx
<1>7. CASE tx \in late
  BY <1>2, <1>6, <1>7
<1>8. CASE \E t \in Tasks : tx = awaited[t] /\ awaited[t] # NoTx
  BY <1>3, <1>6, <1>8
<1> QED
  BY <1>5, <1>7, <1>8

-----------------------------------------------------------------------------
(* What an instruction does to the stored randomness.                        *)

OwnR(l) == l.encryption_r = l.balance_ct
MixedShared(l) ==
    \E s \in MySlots, r \in Runs : l.last_settlement_id = <<s, r>> /\ Shared(s)

LEMMA StatusKeepsRandomness ==
    ASSUME NEW l \in LedgerAccount, NEW st, OwnR(l) \/ MixedShared(l)
    PROVE  OwnR(WithStatus(l, st)) \/ MixedShared(WithStatus(l, st))
BY DEF OwnR, MixedShared, WithStatus, LedgerAccount

LEMMA AcceptKeepsRandomness ==
    ASSUME IInv, \A l \in Ledgers : OwnR(ledger[l]) \/ MixedShared(ledger[l]),
           NEW s \in MySlots, AcceptCommit(Peer, s)
    PROVE  \A l \in Ledgers : OwnR(ledger'[l]) \/ MixedShared(ledger'[l])
<1> ledger \in [Ledgers -> LedgerAccount]
  BY DEF IInv, TypeOK
<1> DEFINE a == LedgerA(s)
           b == <<Peer, slot[s].asset_b_mint>>
<1>1. ledger' = [ledger EXCEPT ![a] = WithStatus(@, "BothPending"),
                               ![b] = WithStatus(@, "PendingCounterparty")]
  BY DEF AcceptCommit
<1>2. \A l \in Ledgers : \/ ledger'[l] = ledger[l]
                         \/ ledger'[l] = WithStatus(ledger[l], "BothPending")
                         \/ ledger'[l] = WithStatus(ledger[l], "PendingCounterparty")
                         \/ ledger'[l] = WithStatus(WithStatus(ledger[l], "BothPending"),
                                                    "PendingCounterparty")
  BY <1>1
<1>3. \A l \in Ledgers : WithStatus(ledger[l], "BothPending") \in LedgerAccount
  BY StatusChanged DEF LedgerStatus
<1> QED
  BY <1>2, <1>3, StatusKeepsRandomness

LEMMA PerformKeepsRandomness ==
    ASSUME IInv, \A l \in Ledgers : OwnR(ledger[l]) \/ MixedShared(ledger[l]),
           NEW tx, IsTx(tx), Perform(tx),
           tx.op = "execute" =>
               WroteOrElse(tx.slot, 1, tx.arg) /\ WroteOrElse(tx.slot, 3, tx.arg)
    PROVE  \A l \in Ledgers : OwnR(ledger'[l]) \/ MixedShared(ledger'[l])
<1> DEFINE s == tx.slot
<1> ledger \in [Ledgers -> LedgerAccount]
  BY DEF IInv, TypeOK
<1> TAKE l \in Ledgers
<1>1. CASE tx.op = "createLedger"
  <2>1. ledger' = [ledger EXCEPT ![MyLedger] = EmptyLedger("Active")]
    BY <1>1 DEF Perform, CreateUserLedger
  <2>2. OwnR(EmptyLedger("Active"))
    BY DEF OwnR, EmptyLedger
  <2> QED
    BY <2>1, <2>2
<1>2. CASE tx.op = "initiate"
  <2>1. ledger' = [ledger EXCEPT ![MyLedger] = WithStatus(@, "PendingInitiator")]
    BY <1>2 DEF Perform, InitiateCommit
  <2> QED
    BY <2>1, StatusKeepsRandomness
<1>3. CASE tx.op = "execute"
  <2>1. ExecuteSettleB(s, NonceOf(s), tx.arg, tx.arg, tx.arg) /\ s \in MySlots /\ tx.arg \in Runs
    BY <1>3 DEF Perform, IsTx, LedgerTx, InitiateTx, RunTx, CancelTx
  <2> DEFINE n == NonceOf(s)
             r == tx.arg
             a == LedgerA(s)
             b == LedgerB(s)
             id == <<s, r>>
             sa == Settled(ledger[a], proofData[n][1], r, proofData[n][4], id)
             sb(x) == Settled(x, proofData[n][3], r, proofData[n][5], id)
  <2>2. ledger' = [ledger EXCEPT ![a] = Settled(@, proofData[n][1], r, proofData[n][4], id),
                                 ![b] = Settled(@, proofData[n][3], r, proofData[n][5], id)]
    BY <2>1 DEF ExecuteSettleB
  <2>3. \/ ledger'[l] = ledger[l] \/ ledger'[l] = sa
        \/ \E x : ledger'[l] = sb(x)
    BY <2>2
  <2>4. CASE Shared(s)
    <3>1. MixedShared(sa) /\ \A x : MixedShared(sb(x))
      BY <2>1, <2>4 DEF MixedShared, Settled
    <3> HIDE DEF sa, sb
    <3> QED
      BY <2>3, <3>1
  <2>5. CASE ~Shared(s)
    <3>1. Exists(s)
      BY <2>1 DEF ExecuteSettleB, Exists
    <3>2. proofData[n][1] = r /\ proofData[n][3] = r
      BY <1>3, <2>5, <3>1 DEF WroteOrElse, Wrote
    <3>3. OwnR(sa) /\ \A x : OwnR(sb(x))
      BY <3>2 DEF OwnR, Settled
    <3> HIDE DEF sa, sb
    <3> QED
      BY <2>3, <3>3
  <2> QED
    BY <2>4, <2>5
<1>4. CASE tx.op \in {"create", "chunk0", "chunk1", "chunk2", "chunk3"}
  <2>1. ledger' = ledger
    BY <1>4 DEF Perform, CreateProofData, WriteProofData
  <2> QED
    BY <2>1
<1>5. CASE tx.op = "cancelInitiate"
  <2>1. ledger' = [ledger EXCEPT ![LedgerA(s)] = WithStatus(@, "Active")]
    BY <1>5 DEF Perform, CancelInitiate
  <2> QED
    BY <2>1, StatusKeepsRandomness
<1>6. CASE tx.op = "cancelMutual"
  <2>1. ledger' = [ledger EXCEPT ![LedgerA(s)] = WithStatus(@, "Active"),
                                 ![LedgerB(s)] = WithStatus(@, "Active")]
    BY <1>6 DEF Perform, CancelMutual
  <2>2. \/ ledger'[l] = ledger[l] \/ ledger'[l] = WithStatus(ledger[l], "Active")
        \/ ledger'[l] = WithStatus(WithStatus(ledger[l], "Active"), "Active")
    BY <2>1
  <2>3. WithStatus(ledger[l], "Active") \in LedgerAccount
    BY StatusChanged DEF LedgerStatus
  <2> QED
    BY <2>2, <2>3, StatusKeepsRandomness
<1> QED
  BY <1>1, <1>2, <1>3, <1>4, <1>5, <1>6 DEF IsTx, LedgerTx, InitiateTx, RunTx, CancelTx, RunSteps

MixedInv ==
    /\ HookInv /\ NewDeals /\ RunDeals /\ RunsWrote /\ LateWrote
    /\ MixedOnlyWhenShared

LEMMA HookKeepsRandomness ==
    ASSUME MixedInv, [HookNext]_allVars
    PROVE  MixedOnlyWhenShared'
<1> IInv /\ TasksOK
  BY DEF MixedInv, HookInv
<1>0. \A l \in Ledgers : OwnR(ledger[l]) \/ MixedShared(ledger[l])
  BY DEF MixedInv, MixedOnlyWhenShared, OwnR, MixedShared
<1> SUFFICES \A l \in Ledgers : OwnR(ledger'[l]) \/ MixedShared(ledger'[l])
  <2>1. \A s \in MySlots : Shared(s) => Shared(s)'
    BY SharedStays DEF MixedInv
  <2> QED
    BY <2>1 DEF MixedOnlyWhenShared, OwnR, MixedShared
<1>1. CASE ledger' = ledger
  BY <1>0, <1>1
<1>2. CASE Chain
  BY <1>0, <1>1, <1>2, AcceptKeepsRandomness DEF Chain, Tick
<1>3. ASSUME NEW t \in Tasks, Land(t)
      PROVE  \A l \in Ledgers : OwnR(ledger'[l]) \/ MixedShared(ledger'[l])
  <2>1. awaited[t] # NoTx /\ IsTx(awaited[t]) /\ (Perform(awaited[t]) \/ ledger' = ledger)
    BY <1>3, Awaited DEF Land, vars
  <2>2. ASSUME awaited[t].op = "execute"
        PROVE  /\ WroteOrElse(awaited[t].slot, 1, awaited[t].arg)
               /\ WroteOrElse(awaited[t].slot, 3, awaited[t].arg)
    <3>1. t \in Runs /\ RunTx(awaited[t]) /\ at[t] = "execute" /\ awaited[t].arg = t
      BY <2>1, <2>2, Names DEF TasksOK, InitiateOK, RunOK, CancelOK, Resting,
         InitiateTx, LedgerTx, RunTx, CancelTx
    <3> QED
      BY <3>1 DEF MixedInv, RunsWrote, RunTx
  <2> QED
    BY <1>0, <1>1, <2>1, <2>2, PerformKeepsRandomness
<1>4. ASSUME NEW tx \in late, LandLate(tx)
      PROVE  \A l \in Ledgers : OwnR(ledger'[l]) \/ MixedShared(ledger'[l])
  <2>1. IsTx(tx) /\ (Perform(tx) \/ ledger' = ledger)
    BY <1>4 DEF LandLate, TasksOK, vars
  <2>2. tx.op = "execute" => WroteOrElse(tx.slot, 1, tx.arg) /\ WroteOrElse(tx.slot, 3, tx.arg)
    BY DEF MixedInv, LateWrote
  <2> QED
    BY <1>0, <1>1, <2>1, <2>2, PerformKeepsRandomness
<1>5. CASE UNCHANGED vars
  BY <1>1, <1>5 DEF vars
<1> QED
  BY <1>2, <1>3, <1>4, <1>5, OthersLeaveAccounts

(* user_ledger.rs:69: however many deals, executions, refused writes,         *)
(* transactions landing late and reloads of the page there are, the           *)
(* randomness stored with a balance is that of its ciphertext, unless two     *)
(* executions took up the very deal that the ledger settled last             *)
(* (useSchemeB.ts:532 beside trader.tsx:949-965).                             *)
THEOREM MixedByTwoExecutions == HookSpec => []MixedOnlyWhenShared
<1>1. HookInit => MixedInv
  <2> SUFFICES ASSUME HookInit PROVE MixedInv
    OBVIOUS
  <2>1. \A st : EmptyLedger(st).encryption_r = EmptyLedger(st).balance_ct
    BY DEF EmptyLedger
  <2>2. MixedOnlyWhenShared
    <3>1. PICK mine \in {"Absent", "Active"} :
             ledger = [l \in Ledgers |-> EmptyLedger(IF l = MyLedger THEN mine ELSE "Active")]
      BY DEF HookInit
    <3>2. \A l \in Ledgers : \E st : ledger[l] = EmptyLedger(st)
      BY <3>1
    <3> QED
      BY <2>1, <3>2 DEF MixedOnlyWhenShared
  <2>3. late = {} /\ at["initiate"] = "idle" /\ \A r \in Runs : at[r] = "idle"
    BY Names DEF HookInit
  <2>4. RunDeals /\ RunsWrote
    BY <2>3 DEF RunDeals, RunsWrote, RunSteps
  <2> QED
    BY <2>2, <2>3, <2>4, HookInitInv DEF MixedInv, LateWrote, NewDeals, NoLateInitiate
<1>2. MixedInv /\ [HookNext]_allVars => MixedInv'
  BY HookInvKept, HookKeepsNewDeals, HookKeepsRunDeals, HookKeepsRunsWrote,
     HookKeepsLateWrote, HookKeepsRandomness DEF MixedInv
<1>3. MixedInv => MixedOnlyWhenShared
  BY DEF MixedInv
<1> QED
  BY <1>1, <1>2, <1>3, PTL DEF HookSpec

=============================================================================
