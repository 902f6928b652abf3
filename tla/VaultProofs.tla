----------------------------- MODULE VaultProofs -----------------------------
(***************************************************************************)
(* The vault instructions beside the settlement life cycle: a deposit or a  *)
(* withdrawal leaves the lock state of every ledger alone, so what was      *)
(* proved of settlements holds in their presence too, and the version of a  *)
(* ledger follows its encrypted balance.                                    *)
(***************************************************************************)
EXTENDS VaultProgram, SettlementProofs, FiniteSetTheorems, WellFoundedInduction

(* What a deposit leaves in a ledger.                                        *)
LEMMA OpenedBalance ==
    ASSUME NEW l \in LedgerAccount, NEW ct \in Encryptions, NEW r \in Encryptions
    PROVE  /\ OpenBalance(l, ct, r) \in LedgerAccount
           /\ OpenBalance(l, ct, r).status = l.status
           /\ OpenBalance(l, ct, r).last_settlement_id = l.last_settlement_id
           /\ OpenBalance(l, ct, r).version \in {l.version, l.version + 1}
           /\ OpenBalance(l, ct, r).balance_ct # l.balance_ct
                => OpenBalance(l, ct, r).version = l.version + 1
<1>1. CASE l.balance_ct = Zero
  <2>1. OpenBalance(l, ct, r) = Opened(l, ct, r, l.version + 1)
    BY <1>1 DEF OpenBalance
  <2> QED
    BY <2>1 DEF Opened, LedgerAccount, Payloads
<1>2. CASE l.balance_ct # Zero
  BY <1>2 DEF OpenBalance
<1> QED
  BY <1>1, <1>2

(* A deposit replaces one ledger by its opened form and touches no other     *)
(* account of the program.                                                   *)
LEMMA DepositEffect ==
    ASSUME TypeOK, NEW l \in Ledgers, NEW amount \in Amounts,
           NEW ct \in Encryptions, NEW r \in Encryptions, Deposit(l, amount, ct, r)
    PROVE  /\ ledger' \in [Ledgers -> LedgerAccount]
           /\ ledger'[l] = OpenBalance(ledger[l], ct, r)
           /\ \A k \in Ledgers : /\ ledger'[k].status = ledger[k].status
                                 /\ k # l => ledger'[k] = ledger[k]
           /\ UNCHANGED <<now, config, pending, slot, proofAccounts, proofData, records>>
<1>1. ledger[l] \in LedgerAccount /\ ledger \in [Ledgers -> LedgerAccount]
  BY DEF TypeOK
<1>2. ledger' = [ledger EXCEPT ![l] = OpenBalance(ledger[l], ct, r)]
  BY DEF Deposit
<1> QED
  BY <1>1, <1>2, OpenedBalance DEF Deposit

(* The match of slots and ledgers reads nothing of a ledger but its status.  *)
LEMMA SameStatusLockSlotMatch ==
    ASSUME LockSlotMatch, UNCHANGED <<pending, slot>>,
           \A l \in Ledgers : ledger'[l].status = ledger[l].status
    PROVE  LockSlotMatch'
<1>1. \A s \in Slots : LedgerA(s) \in Ledgers
  BY Addresses
<1>2. \A s \in Slots : BothLocked(s) => LedgerB(s) \in Ledgers
  BY DEF LockSlotMatch, LockedHoldsBoth, LedgerB, Ledgers
<1>3. \A s \in Slots : LedgerB(s)' = LedgerB(s)
  BY DEF LedgerB
<1>4. WaitingMatchesA' /\ TermsAgree' /\ NothingStale'
  BY <1>1 DEF LockSlotMatch, WaitingMatchesA, TermsAgree, NothingStale, Waiting, Exists
<1>5. LockedHoldsBoth'
  BY <1>1, <1>2, <1>3 DEF LockSlotMatch, LockedHoldsBoth, BothLocked
<1>6. EveryLockHasSlot'
  BY <1>3 DEF LockSlotMatch, EveryLockHasSlot, Waiting, BothLocked
<1>7. OneDealPerCounterparty'
  BY <1>3 DEF LockSlotMatch, OneDealPerCounterparty, BothLocked
<1> QED
  BY <1>4, <1>5, <1>6, <1>7 DEF LockSlotMatch

(* Where no account exists there is nothing in it: what create_user_ledger   *)
(* writes is no change of a balance.                                         *)
AbsentIsBlank ==
    \A l \in Ledgers : ledger[l].status = "Absent" => ledger[l] = EmptyLedger("Absent")

(* The inductive invariant of the composed program.                          *)
VaultInv == TypeOK /\ LockSlotMatch /\ AbsentIsBlank

(* What a step that settles nothing leaves of a ledger's history.            *)
SameBalance(l) ==
    /\ ledger'[l].balance_ct = ledger[l].balance_ct
    /\ ledger'[l].version = ledger[l].version
    /\ ledger'[l].last_settlement_id = ledger[l].last_settlement_id

(* A status change in one ledger, as the cancels and the initiate make it.   *)
LEMMA StatusSteps ==
    ASSUME TypeOK, NEW l \in Ledgers, NEW st \in LedgerStatus,
           ledger'[l] = WithStatus(ledger[l], st)
    PROVE  /\ SameBalance(l)
           /\ ledger'[l].status = st
<1>1. ledger[l] \in LedgerAccount
  BY DEF TypeOK
<1> QED
  BY <1>1 DEF WithStatus, LedgerAccount, SameBalance

(* In every settlement step a ledger keeps its balance and version, or is    *)
(* settled and its version moves on by one; and it never becomes absent.     *)
LEMMA SettlementStepVersion ==
    ASSUME VaultInv, [Next]_vars, NEW l \in Ledgers
    PROVE  /\ \/ SameBalance(l)
              \/ /\ ledger'[l].version = ledger[l].version + 1
                 /\ \E s \in Slots : Execute(s)
           /\ ledger'[l] = ledger[l] \/ ledger'[l].status # "Absent"
<1> USE DEF VaultInv
<1>0. ledger \in [Ledgers -> LedgerAccount] /\ ledger[l] \in LedgerAccount
  BY DEF TypeOK
<1>1. CASE UNCHANGED ledger
  BY <1>1 DEF SameBalance
<1>2. ASSUME NEW a \in Ledgers, CreateUserLedger(a)
      PROVE  /\ SameBalance(l)
             /\ ledger'[l] = ledger[l] \/ ledger'[l].status # "Absent"
  <2>1. ledger[a] = EmptyLedger("Absent")
    BY <1>2 DEF CreateUserLedger, AbsentIsBlank
  <2>2. ledger' = [ledger EXCEPT ![a] = EmptyLedger("Active")]
    BY <1>2 DEF CreateUserLedger
  <2>3. CASE l = a
    BY <2>1, <2>2, <2>3, <1>0 DEF EmptyLedger, SameBalance
  <2>4. CASE l # a
    BY <2>2, <2>4, <1>0 DEF SameBalance
  <2> QED
    BY <2>3, <2>4
<1>3. ASSUME NEW a \in Ledgers, NEW st \in LedgerStatus \ {"Absent"},
             ledger' = [ledger EXCEPT ![a] = WithStatus(@, st)]
      PROVE  /\ SameBalance(l)
             /\ ledger'[l] = ledger[l] \/ ledger'[l].status # "Absent"
  <2>1. CASE l = a
    <3>1. ledger'[l] = WithStatus(ledger[l], st)
      BY <1>3, <2>1, <1>0
    <3> QED
      BY <3>1, StatusSteps
  <2>2. CASE l # a
    BY <1>3, <2>2, <1>0 DEF SameBalance
  <2> QED
    BY <2>1, <2>2
<1>4. ASSUME NEW a \in Ledgers, Initiate(a)
      PROVE  ledger' = [ledger EXCEPT ![a] = WithStatus(@, "PendingInitiator")]
  BY <1>4 DEF Initiate, InitiateCommit
<1>5. ASSUME NEW s \in Slots, CancelInitiate(s)
      PROVE  ledger' = [ledger EXCEPT ![LedgerA(s)] = WithStatus(@, "Active")]
  BY <1>5 DEF CancelInitiate
<1>6. ASSUME NEW u \in Users, NEW s \in Slots, AcceptCommit(u, s)
      PROVE  \/ ledger'[l] = ledger[l]
             \/ \E st \in LedgerStatus \ {"Absent"} : ledger'[l] = WithStatus(ledger[l], st)
  <2>1. LedgerA(s) \in Ledgers
    BY Addresses
  <2>2. slot[s].asset_b_mint \in Mints
    BY <1>6 DEF AcceptCommit, CanAccept, LockSlotMatch, WaitingMatchesA, Waiting
  <2>3. <<u, slot[s].asset_b_mint>> \in Ledgers
    BY <2>2, Addresses
  <2>4. ledger' = [ledger EXCEPT
             ![LedgerA(s)] = WithStatus(@, "BothPending"),
             ![<<u, slot[s].asset_b_mint>>] = WithStatus(@, "PendingCounterparty")]
    BY <1>6 DEF AcceptCommit
  <2>5. LedgerA(s) # <<u, slot[s].asset_b_mint>>
    BY <1>6 DEF AcceptCommit, CanAccept
  <2> QED
    BY <2>1, <2>3, <2>4, <2>5, <1>0 DEF LedgerStatus
<1>7. ASSUME NEW s \in Slots, CancelMutual(s)
      PROVE  ledger'[l] = ledger[l] \/ ledger'[l] = WithStatus(ledger[l], "Active")
  BY <1>7, CancelMutualEffect
<1>8. ASSUME NEW s \in Slots, Execute(s)
      PROVE  \/ ledger'[l] = ledger[l]
             \/ /\ ledger'[l].version = ledger[l].version + 1
                /\ ledger'[l].status # "Absent"
  BY <1>8, ExecuteEffect
<1>9. \/ UNCHANGED ledger
      \/ \E a \in Ledgers : CreateUserLedger(a) \/ Initiate(a)
      \/ \E s \in Slots : CancelInitiate(s) \/ CancelMutual(s) \/ Execute(s)
      \/ \E u \in Users, s \in Slots : AcceptCommit(u, s)
  BY DEF Next, vars, InitializePool, CreateProofData, WriteChunk, WriteProofData, Tick
<1>10. {"PendingInitiator", "Active"} \subseteq LedgerStatus \ {"Absent"}
  BY DEF LedgerStatus
<1>11. ASSUME NEW st \in LedgerStatus \ {"Absent"}, ledger'[l] = WithStatus(ledger[l], st)
       PROVE  /\ SameBalance(l)
              /\ ledger'[l].status # "Absent"
  BY <1>11, StatusSteps
<1>12. ASSUME NEW a \in Ledgers, Initiate(a)
       PROVE  /\ SameBalance(l)
              /\ ledger'[l] = ledger[l] \/ ledger'[l].status # "Absent"
  BY <1>3, <1>4, <1>10, <1>12
<1>13. ASSUME NEW s \in Slots, CancelInitiate(s)
       PROVE  /\ SameBalance(l)
              /\ ledger'[l] = ledger[l] \/ ledger'[l].status # "Absent"
  <2>1. LedgerA(s) \in Ledgers
    BY Addresses
  <2> QED
    BY <1>3, <1>5, <1>10, <1>13, <2>1
<1> QED
  BY <1>1, <1>2, <1>6, <1>7, <1>8, <1>9, <1>10, <1>11, <1>12, <1>13 DEF SameBalance

(* The settlement instructions keep the invariant of the composed program.   *)
LEMMA SettlementKeepsVaultInv ==
    ASSUME VaultInv, [Next]_vars
    PROVE  VaultInv'
<1>1. TypeOK' /\ LockSlotMatch'
  BY NextTypeOK, NextLockSlotMatch DEF VaultInv
<1>2. AbsentIsBlank'
  <2> SUFFICES ASSUME NEW l \in Ledgers, ledger'[l].status = "Absent"
               PROVE  ledger'[l] = EmptyLedger("Absent")
    BY DEF AbsentIsBlank
  <2>1. ledger'[l] = ledger[l]
    BY SettlementStepVersion
  <2> QED
    BY <2>1 DEF VaultInv, AbsentIsBlank
<1> QED
  BY <1>1, <1>2 DEF VaultInv

(* A deposit keeps it.                                                       *)
LEMMA DepositKeepsVaultInv ==
    ASSUME VaultInv, NEW l \in Ledgers, NEW amount \in Amounts,
           NEW ct \in Encryptions, NEW r \in Encryptions, Deposit(l, amount, ct, r)
    PROVE  VaultInv'
<1>1. TypeOK'
  BY DepositEffect DEF VaultInv, TypeOK
<1>2. LockSlotMatch'
  BY DepositEffect, SameStatusLockSlotMatch DEF VaultInv
<1>3. AbsentIsBlank'
  <2>1. ledger[l].status # "Absent"
    BY DEF Deposit
  <2> QED
    BY <2>1, DepositEffect DEF VaultInv, AbsentIsBlank
<1> QED
  BY <1>1, <1>2, <1>3 DEF VaultInv

(* The new vault and the withdrawal change no account of the settlements.    *)
LEMMA UnchangedVaultInv ==
    ASSUME VaultInv, UNCHANGED vars
    PROVE  VaultInv'
BY SettlementKeepsVaultInv

(* Every step of the composed program is one of a few kinds.                 *)
LEMMA VaultSteps ==
    ASSUME [VaultNext]_vaultVars
    PROVE  \/ [Next]_vars
           \/ \E l \in Ledgers, amount \in Amounts, ct, r \in Encryptions :
                 Deposit(l, amount, ct, r)
BY DEF VaultNext, VaultStep, vaultVars, InitializeVault, Withdraw

(* VaultInv holds in every reachable state of the composed program.          *)
THEOREM VaultInductive == VaultSpec => []VaultInv
<1>1. VaultInit => VaultInv
  <2> SUFFICES ASSUME VaultInit PROVE VaultInv
    OBVIOUS
  <2>1. TypeOK /\ LockSlotMatch
    BY InitTypeOK, InitLockSlotMatch DEF VaultInit
  <2>2. AbsentIsBlank
    BY DEF VaultInit, Init, AbsentIsBlank
  <2> QED
    BY <2>1, <2>2 DEF VaultInv
<1>2. VaultInv /\ [VaultNext]_vaultVars => VaultInv'
  BY VaultSteps, SettlementKeepsVaultInv, DepositKeepsVaultInv
<1> QED
  BY <1>1, <1>2, PTL DEF VaultSpec

(* Slots and ledgers stay matched when deposits and withdrawals happen       *)
(* between the settlement instructions, deposits into locked ledgers         *)
(* included.                                                                 *)
THEOREM DepositsKeepLocks == VaultSpec => []LockSlotMatch
<1>1. VaultInv => LockSlotMatch
  BY DEF VaultInv
<1> QED
  BY <1>1, VaultInductive, PTL

(* One step of the composed program: a changed balance is one version later, *)
(* and no version goes back.                                                 *)
LEMMA StepTracks ==
    ASSUME VaultInv, [VaultNext]_vaultVars, NEW l \in Ledgers
    PROVE  /\ ledger'[l].balance_ct # ledger[l].balance_ct
                => ledger'[l].version = ledger[l].version + 1
           /\ ledger'[l].version >= ledger[l].version
<1> DEFINE Tracks ==
      /\ ledger'[l].balance_ct # ledger[l].balance_ct
            => ledger'[l].version = ledger[l].version + 1
      /\ ledger'[l].version >= ledger[l].version
<1>0. ledger[l].version \in Nat /\ ledger[l] \in LedgerAccount
  BY DEF VaultInv, TypeOK, LedgerAccount
<1>1. CASE [Next]_vars
  BY <1>0, <1>1, SettlementStepVersion DEF SameBalance
<1>2. ASSUME NEW k \in Ledgers, NEW amount \in Amounts,
             NEW ct \in Encryptions, NEW r \in Encryptions, Deposit(k, amount, ct, r)
      PROVE  Tracks
  <2>1. CASE l = k
    BY <1>0, <1>2, <2>1, DepositEffect, OpenedBalance DEF VaultInv
  <2>2. CASE l # k
    BY <1>0, <1>2, <2>2, DepositEffect DEF VaultInv
  <2> QED
    BY <2>1, <2>2
<1> QED
  BY <1>1, <1>2, VaultSteps

(* Only a settlement changes the settlement a ledger names as its last.      *)
LEMMA StepKeepsLast ==
    ASSUME VaultInv, [VaultNext]_vaultVars, ~\E s \in Slots : Execute(s),
           NEW l \in Ledgers
    PROVE  ledger'[l].last_settlement_id = ledger[l].last_settlement_id
<1>1. CASE [Next]_vars
  BY <1>1, SettlementStepVersion DEF SameBalance
<1>2. ASSUME NEW k \in Ledgers, NEW amount \in Amounts,
             NEW ct \in Encryptions, NEW r \in Encryptions, Deposit(k, amount, ct, r)
      PROVE  ledger'[l].last_settlement_id = ledger[l].last_settlement_id
  <2>1. ledger[k] \in LedgerAccount
    BY DEF VaultInv, TypeOK
  <2> QED
    BY <1>2, <2>1, DepositEffect, OpenedBalance DEF VaultInv
<1> QED
  BY <1>1, <1>2, VaultSteps

(* Whatever changes an encrypted balance moves its ledger's version on by    *)
(* one, and no version ever goes back.                                       *)
THEOREM VersionsTrackBalances == VaultSpec => VersionTracksBalance
<1> DEFINE Tracks(l) ==
      /\ ledger'[l].balance_ct # ledger[l].balance_ct
            => ledger'[l].version = ledger[l].version + 1
      /\ ledger'[l].version >= ledger[l].version
<1>1. VaultInv /\ [VaultNext]_vaultVars => [\A l \in Ledgers : Tracks(l)]_vaultVars
  BY StepTracks
<1> QED
  BY <1>1, VaultInductive, PTL DEF VaultSpec, VersionTracksBalance

-----------------------------------------------------------------------------
(* Deposits advance the version of a ledger between its settlements, so its  *)
(* records no longer name every version; that they stay in order, and that   *)
(* the token accounts never hold a negative amount, is proved here.          *)

(* RecordsInOrder is not inductive alone: a new record is the latest because *)
(* the others lie in the past, and has one version per ledger because its    *)
(* two ledgers differ.                                                       *)
RecordsPast == \A r \in records : r.settled_at <= now /\ r.ledger_a # r.ledger_b

OrderInv == VaultInv /\ RecordsInOrder /\ RecordsPast

(* Versions that only grow keep the order of the records there are.          *)
LEMMA QuietOrder ==
    ASSUME OrderInv, VaultInv', records' = records, now' = now \/ now' = now + 1,
           \A l \in Ledgers :
              /\ ledger'[l].version >= ledger[l].version
              /\ ledger'[l].last_settlement_id = ledger[l].last_settlement_id
    PROVE  OrderInv'
<1>1. RecordsPast'
  BY DEF OrderInv, VaultInv, RecordsPast, TypeOK, RecordType
<1>2. RecordsInOrder'
  <2> SUFFICES ASSUME NEW l \in Ledgers, NEW r \in RecordsOf(l)'
               PROVE  /\ VersionIn(r, l) \in 1..ledger'[l].version
                      /\ \A q \in RecordsOf(l)' :
                            /\ VersionIn(r, l) = VersionIn(q, l) => r = q
                            /\ VersionIn(r, l) < VersionIn(q, l)
                                  => r.settled_at <= q.settled_at
                      /\ (\A q \in RecordsOf(l)' : VersionIn(q, l) <= VersionIn(r, l))
                            => ledger'[l].last_settlement_id = r.id
    BY DEF RecordsInOrder, VersionIn
  <2>1. RecordsOf(l)' = RecordsOf(l)
    BY DEF RecordsOf
  <2>2. ledger[l].version \in Nat /\ ledger'[l].version \in Nat
    BY DEF OrderInv, VaultInv, TypeOK, LedgerAccount
  <2>3. /\ VersionIn(r, l) \in 1..ledger[l].version
        /\ \A q \in RecordsOf(l) :
              /\ VersionIn(r, l) = VersionIn(q, l) => r = q
              /\ VersionIn(r, l) < VersionIn(q, l) => r.settled_at <= q.settled_at
        /\ (\A q \in RecordsOf(l) : VersionIn(q, l) <= VersionIn(r, l))
              => ledger[l].last_settlement_id = r.id
    BY <2>1 DEF OrderInv, RecordsInOrder
  <2> QED
    BY <2>1, <2>2, <2>3
<1> QED
  BY <1>1, <1>2 DEF OrderInv

(* A settlement appends one record to each of its two ledgers, ahead of all   *)
(* that are there.                                                           *)
LEMMA ExecuteOrder ==
    ASSUME OrderInv, VaultInv', NEW s \in Slots, Execute(s)
    PROVE  OrderInv'
<1> DEFINE a == LedgerA(s)
           b == LedgerB(s)
<1> USE DEF OrderInv
<1>0. TypeOK /\ LockSlotMatch
  BY DEF VaultInv
<1>1. /\ a \in Ledgers /\ b \in Ledgers /\ a # b /\ now' = now
      /\ ledger'[a].version = ledger[a].version + 1
      /\ ledger'[b].version = ledger[b].version + 1
      /\ \A l \in Ledgers : l \notin {a, b} => ledger'[l] = ledger[l]
  BY <1>0, ExecuteEffect
<1>2. PICK new : /\ records' = records \cup {new}
                 /\ new.ledger_a = a /\ new.ledger_b = b
                 /\ new.version_a = ledger[a].version + 1
                 /\ new.version_b = ledger[b].version + 1
                 /\ new.settled_at = now
                 /\ ledger'[a].last_settlement_id = new.id
                 /\ ledger'[b].last_settlement_id = new.id
  <2>1. PICK k \in SettlementNonces :
          LET r == [id |-> <<s, k>>, ledger_a |-> a, ledger_b |-> b,
                    commitment_hash |-> slot[s].commitment_hash,
                    version_a |-> ledger[a].version + 1,
                    version_b |-> ledger[b].version + 1,
                    settled_at |-> now]
          IN  /\ records' = records \cup {r}
              /\ ledger'[a].last_settlement_id = r.id
              /\ ledger'[b].last_settlement_id = r.id
    BY <1>0, ExecuteEffect
  <2> DEFINE r == [id |-> <<s, k>>, ledger_a |-> a, ledger_b |-> b,
                   commitment_hash |-> slot[s].commitment_hash,
                   version_a |-> ledger[a].version + 1,
                   version_b |-> ledger[b].version + 1,
                   settled_at |-> now]
  <2>2. /\ records' = records \cup {r}
        /\ r.ledger_a = a /\ r.ledger_b = b /\ r.settled_at = now
        /\ r.version_a = ledger[a].version + 1 /\ r.version_b = ledger[b].version + 1
        /\ ledger'[a].last_settlement_id = r.id /\ ledger'[b].last_settlement_id = r.id
    BY <2>1
  <2> HIDE DEF r
  <2> QED
    BY <2>2
<1>3. /\ VersionIn(new, a) = ledger[a].version + 1
      /\ VersionIn(new, b) = ledger[b].version + 1
  BY <1>1, <1>2 DEF VersionIn
<1> HIDE DEF a, b
<1>4. now \in Nat /\ RecordsPast'
  BY <1>0, <1>1, <1>2 DEF RecordsPast, TypeOK
<1>5. ASSUME NEW l \in Ledgers
      PROVE  /\ \A r, q \in RecordsOf(l)' :
                   /\ VersionIn(r, l) \in 1..ledger'[l].version
                   /\ VersionIn(r, l) = VersionIn(q, l) => r = q
                   /\ VersionIn(r, l) < VersionIn(q, l) => r.settled_at <= q.settled_at
             /\ \A r \in RecordsOf(l)' :
                   (\A q \in RecordsOf(l)' : VersionIn(q, l) <= VersionIn(r, l))
                      => ledger'[l].last_settlement_id = r.id
  <2>1. /\ ledger[l].version \in Nat
        /\ \A r, q \in RecordsOf(l) :
              /\ VersionIn(r, l) \in 1..ledger[l].version
              /\ VersionIn(r, l) = VersionIn(q, l) => r = q
              /\ VersionIn(r, l) < VersionIn(q, l) => r.settled_at <= q.settled_at
        /\ \A r \in RecordsOf(l) :
              /\ r.settled_at <= now
              /\ (\A q \in RecordsOf(l) : VersionIn(q, l) <= VersionIn(r, l))
                    => ledger[l].last_settlement_id = r.id
    BY <1>0 DEF TypeOK, LedgerAccount, RecordsInOrder, RecordsPast, RecordsOf
  <2>2. CASE l \in {a, b}
    <3>1. /\ RecordsOf(l)' = RecordsOf(l) \cup {new}
          /\ VersionIn(new, l) = ledger[l].version + 1
          /\ ledger'[l].version = ledger[l].version + 1
          /\ new.settled_at = now /\ now <= now
          /\ ledger'[l].last_settlement_id = new.id
      BY <2>2, <1>1, <1>2, <1>3, <1>4 DEF RecordsOf
    <3>2. \A r \in RecordsOf(l) : /\ VersionIn(r, l) \in 1..ledger[l].version + 1
                                  /\ VersionIn(r, l) < VersionIn(new, l)
                                  /\ ~(VersionIn(new, l) < VersionIn(r, l))
                                  /\ VersionIn(r, l) # VersionIn(new, l)
      BY <2>1, <3>1
    <3>3. /\ VersionIn(new, l) \in 1..ledger'[l].version
          /\ ~(VersionIn(new, l) < VersionIn(new, l))
      BY <2>1, <3>1
    <3>4. \A r \in RecordsOf(l) : ~(VersionIn(new, l) <= VersionIn(r, l))
      BY <2>1, <3>1
    <3> QED
      BY <2>1, <3>1, <3>2, <3>3, <3>4
  <2>3. CASE l \notin {a, b}
    <3>1. RecordsOf(l)' = RecordsOf(l) /\ ledger'[l] = ledger[l]
      BY <2>3, <1>1, <1>2 DEF RecordsOf
    <3> QED
      BY <2>1, <3>1
  <2> QED
    BY <2>2, <2>3
<1>6. RecordsInOrder'
  BY <1>5 DEF RecordsInOrder, VersionIn
<1> QED
  BY <1>4, <1>6

(* A step of the composed program settles, or leaves the records as they are. *)
LEMMA RecordSteps ==
    ASSUME VaultInv, [VaultNext]_vaultVars
    PROVE  \/ \E s \in Slots : Execute(s)
           \/ records' = records /\ (now' = now \/ now' = now + 1)
<1> DEFINE Quiet == records' = records /\ (now' = now \/ now' = now + 1)
<1>1. CASE [Next]_vars
  <2>1. ASSUME NEW a \in Ledgers, CreateUserLedger(a) \/ Initiate(a)
        PROVE  Quiet
    BY <2>1 DEF CreateUserLedger, Initiate, InitiateCommit
  <2>2. ASSUME NEW u \in Users, NEW s \in Slots, AcceptCommit(u, s)
        PROVE  Quiet
    <3>1. UNCHANGED <<now, config, proofAccounts, proofData, records>>
      BY <2>2, Zenon DEF AcceptCommit
    <3> QED
      BY <3>1
  <2>3. ASSUME NEW s \in Slots, CancelInitiate(s)
        PROVE  Quiet
    BY <2>3 DEF CancelInitiate
  <2>4. ASSUME NEW s \in Slots, CancelMutual(s)
        PROVE  Quiet
    BY <2>4, CancelMutualEffect DEF VaultInv
  <2>5. CASE InitializePool \/ Tick \/ UNCHANGED vars
    BY <2>5 DEF InitializePool, Tick, vars
  <2>6. ASSUME NEW n \in ProofNonces, CreateProofData(n)
        PROVE  Quiet
    BY <2>6 DEF CreateProofData
  <2>7. ASSUME NEW s \in Slots, WriteChunk(s)
        PROVE  Quiet
    BY <2>7 DEF WriteChunk, WriteProofData
  <2> QED
    BY <1>1, <2>1, <2>2, <2>3, <2>4, <2>5, <2>6, <2>7 DEF Next
<1>2. ASSUME NEW l \in Ledgers, NEW amount \in Amounts,
             NEW ct \in Encryptions, NEW r \in Encryptions, Deposit(l, amount, ct, r)
      PROVE  records' = records /\ now' = now
  BY <1>2 DEF Deposit
<1> QED
  BY <1>1, <1>2, VaultSteps

(* execute_settle_b.rs:181-211 with deposit.rs:76 in between: however deposits *)
(* and settlements of a ledger follow each other, no two of its records claim *)
(* one version, none is ahead of the ledger, versions follow the clock, and   *)
(* the latest record is the one the ledger names.                            *)
THEOREM RecordsStayInOrder == VaultSpec => []RecordsInOrder
<1>1. VaultInit => RecordsInOrder /\ RecordsPast
  BY DEF VaultInit, Init, RecordsInOrder, RecordsPast, RecordsOf
<1>2. VaultInv /\ VaultInv' /\ RecordsInOrder /\ RecordsPast /\ [VaultNext]_vaultVars
        => RecordsInOrder' /\ RecordsPast'
  <2> SUFFICES ASSUME OrderInv, VaultInv', [VaultNext]_vaultVars
               PROVE  OrderInv'
    BY DEF OrderInv
  <2>1. \A l \in Ledgers : ledger'[l].version >= ledger[l].version
    <3>1. VaultInv
      BY DEF OrderInv
    <3> QED
      BY <3>1, StepTracks
  <2>2. CASE \E s \in Slots : Execute(s)
    BY <2>2, ExecuteOrder
  <2>3. CASE ~\E s \in Slots : Execute(s)
    <3>1. VaultInv
      BY DEF OrderInv
    <3>2. \A l \in Ledgers : ledger'[l].last_settlement_id = ledger[l].last_settlement_id
      BY <2>3, <3>1, StepKeepsLast
    <3> QED
      BY <2>1, <2>3, <3>1, <3>2, RecordSteps, QuietOrder
  <2> QED
    BY <2>2, <2>3
<1> QED
  BY <1>1, <1>2, VaultInductive, PTL DEF VaultSpec

(* The token accounts of the vault and of its users never go below zero: a   *)
(* deposit takes what the wallet holds and a withdrawal what the vault holds *)
(* (deposit.rs:58, withdraw.rs:98).                                          *)
THEOREM VaultTypesCorrect == VaultSpec => []VaultTypeOK
<1> DEFINE Tokens == /\ vaults \subseteq Mints
                     /\ held \in [Mints -> Nat]
                     /\ wallet \in [Ledgers -> Nat]
<1>1. VaultInit => Tokens
  BY AmountAssumption DEF VaultInit
<1>2. Tokens /\ [VaultNext]_vaultVars => Tokens'
  <2> SUFFICES ASSUME Tokens, [VaultNext]_vaultVars
               PROVE  Tokens'
    OBVIOUS
  <2>1. ASSUME NEW m \in Mints, InitializeVault(m)
        PROVE  Tokens'
    BY <2>1 DEF InitializeVault
  <2>2. ASSUME NEW l \in Ledgers, NEW amount \in Amounts, NEW ct, NEW r,
               Deposit(l, amount, ct, r)
        PROVE  Tokens'
    <3>1. l[2] \in Mints /\ amount \in Nat
      BY AmountAssumption DEF Ledgers
    <3> QED
      BY <2>2, <3>1 DEF Deposit
  <2>3. ASSUME NEW l \in Ledgers, NEW amount \in Amounts, NEW proof,
               Withdraw(l, amount, proof)
        PROVE  Tokens'
    <3>1. l[2] \in Mints /\ amount \in Nat
      BY AmountAssumption DEF Ledgers
    <3> QED
      BY <2>3, <3>1 DEF Withdraw
  <2>4. CASE UNCHANGED tokenVars
    BY <2>4 DEF tokenVars
  <2> QED
    BY <2>1, <2>2, <2>3, <2>4 DEF VaultNext, VaultStep, vaultVars
<1>3. VaultInv /\ Tokens => VaultTypeOK
  BY DEF VaultInv, VaultTypeOK
<1> QED
  BY <1>1, <1>2, <1>3, VaultInductive, PTL DEF VaultSpec

-----------------------------------------------------------------------------
(* Sums over the users.                                                      *)

(* The tokens of one mint in the accounts of the users in S.                 *)
InWallets(w, mint, S) == MapThenSumSet(LAMBDA u : w[<<u, mint>>], S)

(* What the sum over a set is by definition: one of its users, taken out,     *)
(* and the sum over the rest.                                                *)
Adds(g, w, mint, S) ==
    g = [A \in SUBSET S |->
           IF A = {} THEN 0
           ELSE w[<<CHOOSE x \in A : TRUE, mint>>] + g[A \ {CHOOSE x \in A : TRUE}]]

(* Among finite sets there are smallest ones.                                *)
LEMMA SmallestSubset ==
    ASSUME NEW S, IsFiniteSet(S), NEW C, C \subseteq SUBSET S, C # {}
    PROVE  \E A \in C : \A B \in C : ~(B \subseteq A /\ B # A)
<1>1. IsWellFoundedOn(StrictSubsetOrdering(S), FiniteSubsetsOf(S))
  BY FS_StrictSubsetOrderingWellFounded
<1>2. C \subseteq FiniteSubsetsOf(S)
  BY FS_Subset DEF FiniteSubsetsOf
<1>3. \E A \in C : \A B \in C : ~(<<B, A>> \in StrictSubsetOrdering(S))
  BY <1>1, <1>2, WFMin
<1> QED
  BY <1>3 DEF StrictSubsetOrdering

(* The sum is well defined on every finite set: were there a smallest size up *)
(* to which there is no such function, the one for smaller sets extends.      *)
LEMMA SumExists ==
    ASSUME NEW w, NEW mint, NEW S, IsFiniteSet(S)
    PROVE  \E g : Adds(g, w, mint, S)
<1> DEFINE Small(A) == {B \in SUBSET S : Cardinality(B) <= Cardinality(A)}
           Def(g, B) == IF B = {} THEN 0
                        ELSE w[<<CHOOSE x \in B : TRUE, mint>>]
                                 + g[B \ {CHOOSE x \in B : TRUE}]
           Good(A) == \E g : g = [B \in Small(A) |-> Def(g, B)]
<1>1. ASSUME NEW A \in SUBSET S, \A B \in SUBSET S : B \subseteq A /\ B # A => Good(B)
      PROVE  Good(A)
  <2>1. CASE A = {}
    <3>1. Small(A) = {{}}
      BY <2>1, FS_EmptySet, FS_Subset, FS_CardinalityType
    <3>2. [B \in {{}} |-> 0] = [B \in Small(A) |-> Def([C \in {{}} |-> 0], B)]
      BY <3>1
    <3> QED
      BY <3>2
  <2>2. CASE A # {}
    <3>1. PICK x \in A : TRUE
      BY <2>2
    <3> DEFINE P == A \ {x}
    <3>2. P \in SUBSET S /\ P \subseteq A /\ P # A
      BY <3>1
    <3>3. PICK g : g = [B \in Small(P) |-> Def(g, B)]
      BY <1>1, <3>2
    <3>4. Cardinality(A) = Cardinality(P) + 1 /\ Cardinality(P) \in Nat
      BY <3>1, <3>2, FS_Subset, FS_RemoveElement, FS_CardinalityType
    <3> DEFINE h == [B \in Small(A) |-> Def(g, B)]
    <3>5. ASSUME NEW B \in Small(A), B # {}
          PROVE  B \ {CHOOSE x1 \in B : TRUE} \in Small(P)
      <4> DEFINE y == CHOOSE x1 \in B : TRUE
      <4>1. y \in B
        BY <3>5
      <4>2. IsFiniteSet(B) /\ Cardinality(B) \in Nat
        BY FS_Subset, FS_CardinalityType
      <4>3. Cardinality(B \ {y}) = Cardinality(B) - 1
        BY <4>1, <4>2, FS_RemoveElement
      <4> QED
        BY <3>4, <4>2, <4>3
    <3>6. \A B \in Small(P) : B \in Small(A) /\ h[B] = g[B]
      <4> SUFFICES ASSUME NEW B \in Small(P)
                   PROVE  B \in Small(A) /\ h[B] = g[B]
        OBVIOUS
      <4>1. Cardinality(B) \in Nat
        BY FS_Subset, FS_CardinalityType
      <4>2. B \in Small(A)
        BY <3>4, <4>1
      <4>3. g[B] = Def(g, B)
        <5> HIDE DEF Def, Small
        <5> QED
          BY <3>3
      <4> QED
        BY <4>2, <4>3
    <3>7. \A B \in Small(A) : Def(g, B) = Def(h, B)
      <4> SUFFICES ASSUME NEW B \in Small(A), B # {}
                   PROVE  Def(g, B) = Def(h, B)
        OBVIOUS
      <4> HIDE DEF h, Small
      <4>1. h[B \ {CHOOSE x1 \in B : TRUE}] = g[B \ {CHOOSE x1 \in B : TRUE}]
        BY <3>5, <3>6
      <4> QED
        BY <4>1
    <3>8. h = [B \in Small(A) |-> Def(h, B)]
      <4> HIDE DEF Def, Small
      <4> QED
        BY <3>7
    <3> QED
      BY <3>8
  <2> QED
    BY <2>1, <2>2
<1> HIDE DEF Good
<1>2. Good(S)
  <2> DEFINE Bad == {A \in SUBSET S : ~Good(A)}
  <2> SUFFICES ASSUME Bad # {}
               PROVE  FALSE
    OBVIOUS
  <2>1. PICK A \in Bad : \A B \in Bad : ~(B \subseteq A /\ B # A)
    <3>1. Bad \subseteq SUBSET S
      OBVIOUS
    <3> HIDE DEF Bad
    <3> QED
      BY <3>1, SmallestSubset
  <2> QED
    BY <1>1, <2>1
<1>3. Small(S) = SUBSET S
  BY FS_Subset
<1> QED
  BY <1>2, <1>3 DEF Good, Adds

(* The sum over S is the value such a function has there.                    *)
LEMMA SumOf ==
    ASSUME NEW w, NEW mint, NEW S, IsFiniteSet(S)
    PROVE  \E g : Adds(g, w, mint, S) /\ InWallets(w, mint, S) = g[S]
<1> DEFINE f(u) == w[<<u, mint>>]
           Iter(g) == g = [A \in SUBSET S |->
                             IF A = {} THEN 0
                             ELSE f(CHOOSE x \in A : TRUE)
                                    + g[A \ {CHOOSE x \in A : TRUE}]]
<1>1. InWallets(w, mint, S) = (CHOOSE g : Iter(g))[S]
  BY DEF InWallets, MapThenSumSet, MapThenFoldSet
<1>2. \E g : Iter(g)
  <2>1. PICK g : Adds(g, w, mint, S)
    BY SumExists
  <2>2. Iter(g)
    BY <2>1 DEF Adds
  <2> QED
    BY <2>2, Zenon
<1>3. Iter(CHOOSE g : Iter(g))
  <2> HIDE DEF Iter
  <2> QED
    BY <1>2
<1> QED
  BY <1>1, <1>3 DEF Adds

(* A property of subsets of S that passes from a set less the chosen user to *)
(* the set, and that the empty set has, is one of every subset: a smallest    *)
(* set without it would be neither.                                          *)
LEMMA SetsByRemoval ==
    ASSUME NEW S, IsFiniteSet(S), NEW P, P \subseteq SUBSET S, {} \in P,
           \A A \in SUBSET S :
              A # {} /\ A \ {CHOOSE x \in A : TRUE} \in P => A \in P
    PROVE  P = SUBSET S
<1> SUFFICES ASSUME P # SUBSET S
             PROVE  FALSE
  OBVIOUS
<1>1. PICK A \in (SUBSET S) \ P : \A B \in (SUBSET S) \ P : ~(B \subseteq A /\ B # A)
  <2> DEFINE Q == (SUBSET S) \ P
  <2>1. Q # {} /\ Q \subseteq SUBSET S
    OBVIOUS
  <2> HIDE DEF Q
  <2>2. \E A \in Q : \A B \in Q : ~(B \subseteq A /\ B # A)
    BY <2>1, SmallestSubset
  <2> QED
    BY <2>2 DEF Q
<1>2. A # {} /\ (CHOOSE x \in A : TRUE) \in A
  <2>1. A # {}
    BY <1>1
  <2> QED
    BY <2>1
<1>3. A \ {CHOOSE x \in A : TRUE} \in P
  BY <1>1, <1>2
<1> QED
  BY <1>1, <1>2, <1>3

(* What the function gives for no user, and for a set with one taken out.    *)
LEMMA AddsNone ==
    ASSUME NEW w, NEW mint, NEW S, NEW g, Adds(g, w, mint, S)
    PROVE  g[{}] = 0
<1>1. {} \in SUBSET S
  OBVIOUS
<1> QED
  BY <1>1 DEF Adds

LEMMA AddsOne ==
    ASSUME NEW w, NEW mint, NEW S, NEW g, Adds(g, w, mint, S), NEW A \in SUBSET S, A # {}
    PROVE  g[A] = w[<<CHOOSE x \in A : TRUE, mint>>] + g[A \ {CHOOSE x \in A : TRUE}]
BY DEF Adds

(* Sums of natural numbers are natural.                                      *)
LEMMA SumNat ==
    ASSUME NEW w, NEW mint, NEW S, IsFiniteSet(S), \A u \in S : w[<<u, mint>>] \in Nat,
           NEW g, Adds(g, w, mint, S)
    PROVE  \A A \in SUBSET S : g[A] \in Nat
<1> DEFINE P == {A \in SUBSET S : g[A] \in Nat}
<1>1. {} \in P
  <2>1. {} \in SUBSET S
    OBVIOUS
  <2>2. g[{}] = 0
    BY AddsNone
  <2> QED
    BY <2>1, <2>2
<1>2. ASSUME NEW A \in SUBSET S, A # {}, A \ {CHOOSE x \in A : TRUE} \in P
      PROVE  A \in P
  <2> DEFINE y == CHOOSE x \in A : TRUE
  <2>1. y \in A
    BY <1>2
  <2>2. g[A] = w[<<y, mint>>] + g[A \ {y}]
    BY <1>2, AddsOne
  <2>3. w[<<y, mint>>] \in Nat /\ g[A \ {y}] \in Nat
    BY <1>2, <2>1
  <2> QED
    BY <2>2, <2>3
<1>3. P = SUBSET S
  <2> HIDE DEF P
  <2>1. P \subseteq SUBSET S
    BY DEF P
  <2> QED
    BY <1>1, <1>2, <2>1, SetsByRemoval
<1> QED
  BY <1>3

LEMMA InWalletsNat ==
    ASSUME NEW w, NEW mint, NEW S, IsFiniteSet(S), \A u \in S : w[<<u, mint>>] \in Nat
    PROVE  InWallets(w, mint, S) \in Nat
<1>1. PICK g : Adds(g, w, mint, S) /\ InWallets(w, mint, S) = g[S]
  BY SumOf
<1>2. \A A \in SUBSET S : g[A] \in Nat
  BY <1>1, SumNat
<1> QED
  BY <1>1, <1>2

(* One account changes: the sum changes by as much.                          *)
LEMMA SumChange ==
    ASSUME NEW w, NEW v, NEW mint, NEW S, IsFiniteSet(S), NEW z \in S,
           \A u \in S : w[<<u, mint>>] \in Nat /\ v[<<u, mint>>] \in Nat,
           \A u \in S : u # z => v[<<u, mint>>] = w[<<u, mint>>]
    PROVE  InWallets(v, mint, S) + w[<<z, mint>>] = InWallets(w, mint, S) + v[<<z, mint>>]
<1>1. PICK g : Adds(g, w, mint, S) /\ InWallets(w, mint, S) = g[S]
  BY SumOf
<1>2. PICK h : Adds(h, v, mint, S) /\ InWallets(v, mint, S) = h[S]
  BY SumOf
<1>3. \A A \in SUBSET S : g[A] \in Nat /\ h[A] \in Nat
  BY <1>1, <1>2, SumNat
<1> DEFINE P == {A \in SUBSET S :
                   /\ z \notin A => h[A] = g[A]
                   /\ z \in A => h[A] + w[<<z, mint>>] = g[A] + v[<<z, mint>>]}
<1>4. {} \in P
  <2>1. {} \in SUBSET S
    OBVIOUS
  <2>2. g[{}] = 0 /\ h[{}] = 0
    BY <1>1, <1>2, AddsNone
  <2> QED
    BY <2>2
<1>5. ASSUME NEW A \in SUBSET S, A # {}, A \ {CHOOSE x \in A : TRUE} \in P
      PROVE  A \in P
  <2> DEFINE y == CHOOSE x \in A : TRUE
             B == A \ {y}
  <2>1. y \in A /\ y \in S /\ B \in SUBSET S
    BY <1>5
  <2>2. g[A] = w[<<y, mint>>] + g[B] /\ h[A] = v[<<y, mint>>] + h[B]
    BY <1>1, <1>2, <1>5, AddsOne
  <2>3. /\ w[<<y, mint>>] \in Nat /\ v[<<y, mint>>] \in Nat /\ g[B] \in Nat /\ h[B] \in Nat
        /\ w[<<z, mint>>] \in Nat /\ v[<<z, mint>>] \in Nat
    BY <1>3, <2>1
  <2>4. /\ z \notin B => h[B] = g[B]
        /\ z \in B => h[B] + w[<<z, mint>>] = g[B] + v[<<z, mint>>]
    BY <1>5
  <2>5. y # z => v[<<y, mint>>] = w[<<y, mint>>]
    BY <2>1
  <2>6. z \in B <=> z \in A /\ z # y
    OBVIOUS
  <2> HIDE DEF y, B, P
  <2>7. CASE z = y
    BY <2>1, <2>2, <2>3, <2>4, <2>6, <2>7 DEF P
  <2>8. CASE z # y
    BY <2>1, <2>2, <2>3, <2>4, <2>5, <2>6, <2>8 DEF P
  <2> QED
    BY <2>7, <2>8
<1>6. P = SUBSET S
  <2> HIDE DEF P
  <2>1. P \subseteq SUBSET S
    BY DEF P
  <2> QED
    BY <1>4, <1>5, <2>1, SetsByRemoval
<1> QED
  BY <1>1, <1>2, <1>6

(* As many tokens in each account: their product with the number of accounts. *)
LEMMA SumOfEqual ==
    ASSUME NEW w, NEW mint, NEW S, IsFiniteSet(S), NEW c \in Nat,
           \A u \in S : w[<<u, mint>>] = c
    PROVE  InWallets(w, mint, S) = c * Cardinality(S)
<1>1. PICK g : Adds(g, w, mint, S) /\ InWallets(w, mint, S) = g[S]
  BY SumOf
<1> DEFINE P == {A \in SUBSET S : g[A] = c * Cardinality(A)}
<1>2. {} \in P
  <2>1. {} \in SUBSET S
    OBVIOUS
  <2>2. g[{}] = 0
    BY <1>1, AddsNone
  <2>3. Cardinality({}) = 0 /\ c * 0 = 0
    BY FS_EmptySet
  <2> QED
    BY <2>2, <2>3
<1>3. ASSUME NEW A \in SUBSET S, A # {}, A \ {CHOOSE x \in A : TRUE} \in P
      PROVE  A \in P
  <2> DEFINE y == CHOOSE x \in A : TRUE
             B == A \ {y}
  <2>1. y \in A /\ y \in S /\ B \in SUBSET S
    BY <1>3
  <2>2. g[A] = c + g[B]
    <3>1. g[A] = w[<<y, mint>>] + g[B]
      BY <1>1, <1>3, AddsOne
    <3>2. w[<<y, mint>>] = c
      BY <2>1
    <3> QED
      BY <3>1, <3>2
  <2>3. Cardinality(B) = Cardinality(A) - 1 /\ Cardinality(A) \in Nat
    BY <2>1, FS_Subset, FS_RemoveElement, FS_CardinalityType
  <2>4. g[B] = c * Cardinality(B)
    BY <1>3
  <2> HIDE DEF y, B, P
  <2>5. \A n \in Int : c + c * (n - 1) = c * n
    OBVIOUS
  <2>6. g[A] = c * Cardinality(A)
    BY <2>2, <2>3, <2>4, <2>5
  <2> QED
    BY <2>6 DEF P
<1>4. P = SUBSET S
  <2> HIDE DEF P
  <2>1. P \subseteq SUBSET S
    BY DEF P
  <2> QED
    BY <1>2, <1>3, <2>1, SetsByRemoval
<1> QED
  BY <1>1, <1>4

-----------------------------------------------------------------------------

(* Tokens of one mint, in its vault and in the accounts of its users.        *)
InAll(h, w, m) == h[m] + InWallets(w, m, Users)

(* An amount that goes from a user's account to the vault, or back, leaves    *)
(* the tokens of every mint as many as they were.                            *)
LEMMA MoveConserves ==
    ASSUME VaultTypeOK, VaultTypeOK', NEW l \in Ledgers,
           held'[l[2]] + wallet'[l] = held[l[2]] + wallet[l],
           \A m \in Mints : m # l[2] => held'[m] = held[m],
           \A k \in Ledgers : k # l => wallet'[k] = wallet[k],
           NEW m \in Mints
    PROVE  InAll(held', wallet', m) = InAll(held, wallet, m)
<1>1. PICK u \in Users, n \in Mints : l = <<u, n>>
  BY DEF Ledgers
<1>2. \A z \in Users : /\ <<z, m>> \in Ledgers
                       /\ wallet[<<z, m>>] \in Nat /\ wallet'[<<z, m>>] \in Nat
  BY DEF Ledgers, VaultTypeOK
<1>3. \A z \in Users : z # u => wallet'[<<z, m>>] = wallet[<<z, m>>]
  BY <1>1, <1>2
<1>4. InWallets(wallet', m, Users) + wallet[<<u, m>>]
        = InWallets(wallet, m, Users) + wallet'[<<u, m>>]
  BY <1>2, <1>3, UsersAssumption, SumChange
<1>5. InWallets(wallet', m, Users) \in Nat /\ InWallets(wallet, m, Users) \in Nat
  BY <1>2, UsersAssumption, InWalletsNat
<1>6. /\ held[m] \in Nat /\ held'[m] \in Nat
      /\ wallet[<<u, m>>] \in Nat /\ wallet'[<<u, m>>] \in Nat
  BY <1>2 DEF VaultTypeOK
<1>7. held'[m] + wallet'[<<u, m>>] = held[m] + wallet[<<u, m>>]
  <2>1. CASE m = n
    BY <1>1, <2>1
  <2>2. CASE m # n
    BY <1>1, <1>2, <2>2
  <2> QED
    BY <2>1, <2>2
<1> QED
  BY <1>4, <1>5, <1>6, <1>7 DEF InAll

(* deposit.rs:58 and withdraw.rs:98 are the only transfers: what the vault of *)
(* a mint holds and what its users hold is always what there was at first,   *)
(* for any number of users, mints and amounts.                               *)
THEOREM TokensAreConserved == VaultSpec => []TokensConserved
<1> DEFINE Total == WalletTokens * Cardinality(Users)
           Sums == \A m \in Mints : InAll(held, wallet, m) = Total
<1>1. VaultInit => Sums
  <2> SUFFICES ASSUME VaultInit, NEW m \in Mints
               PROVE  InAll(held, wallet, m) = Total
    OBVIOUS
  <2>1. \A u \in Users : wallet[<<u, m>>] = WalletTokens
    BY DEF VaultInit, Ledgers
  <2>2. InWallets(wallet, m, Users) = Total
    BY <2>1, UsersAssumption, AmountAssumption, SumOfEqual
  <2>3. held[m] = 0
    BY DEF VaultInit
  <2>4. Total \in Nat
    BY UsersAssumption, AmountAssumption, FS_CardinalityType
  <2> HIDE DEF Total
  <2> QED
    BY <2>2, <2>3, <2>4 DEF InAll
<1>2. Sums /\ VaultTypeOK /\ VaultTypeOK' /\ [VaultNext]_vaultVars => Sums'
  <2> SUFFICES ASSUME Sums, VaultTypeOK, VaultTypeOK', [VaultNext]_vaultVars, NEW m \in Mints
               PROVE  InAll(held', wallet', m) = InAll(held, wallet, m)
    BY DEF InAll
  <2>1. CASE UNCHANGED <<held, wallet>>
    BY <2>1
  <2>2. ASSUME NEW l \in Ledgers, NEW amount \in Amounts, NEW ct, NEW r,
               Deposit(l, amount, ct, r)
        PROVE  InAll(held', wallet', m) = InAll(held, wallet, m)
    <3>1. amount \in Nat /\ l[2] \in Mints
      BY AmountAssumption DEF Ledgers
    <3>2. /\ wallet' = [wallet EXCEPT ![l] = @ - amount]
          /\ held' = [held EXCEPT ![l[2]] = @ + amount]
      BY <2>2 DEF Deposit
    <3>3. /\ held'[l[2]] = held[l[2]] + amount /\ wallet'[l] = wallet[l] - amount
          /\ held[l[2]] \in Nat /\ wallet[l] \in Nat
          /\ \A n \in Mints : n # l[2] => held'[n] = held[n]
          /\ \A k \in Ledgers : k # l => wallet'[k] = wallet[k]
      BY <3>1, <3>2 DEF VaultTypeOK
    <3>4. held'[l[2]] + wallet'[l] = held[l[2]] + wallet[l]
      BY <3>1, <3>3
    <3> QED
      BY <3>3, <3>4, MoveConserves
  <2>3. ASSUME NEW l \in Ledgers, NEW amount \in Amounts, NEW proof,
               Withdraw(l, amount, proof)
        PROVE  InAll(held', wallet', m) = InAll(held, wallet, m)
    <3>1. amount \in Nat /\ l[2] \in Mints
      BY AmountAssumption DEF Ledgers
    <3>2. /\ wallet' = [wallet EXCEPT ![l] = @ + amount]
          /\ held' = [held EXCEPT ![l[2]] = @ - amount]
      BY <2>3 DEF Withdraw
    <3>3. /\ held'[l[2]] = held[l[2]] - amount /\ wallet'[l] = wallet[l] + amount
          /\ held[l[2]] \in Nat /\ wallet[l] \in Nat
          /\ \A n \in Mints : n # l[2] => held'[n] = held[n]
          /\ \A k \in Ledgers : k # l => wallet'[k] = wallet[k]
      BY <3>1, <3>2 DEF VaultTypeOK
    <3>4. held'[l[2]] + wallet'[l] = held[l[2]] + wallet[l]
      BY <3>1, <3>3
    <3> QED
      BY <3>3, <3>4, MoveConserves
  <2> QED
    BY <2>1, <2>2, <2>3 DEF VaultNext, VaultStep, vaultVars, tokenVars, InitializeVault
<1>3. Sums => TokensConserved
  BY DEF TokensConserved, InAll, InWallets
<1> QED
  BY <1>1, <1>2, <1>3, VaultTypesCorrect, PTL DEF VaultSpec
=============================================================================
